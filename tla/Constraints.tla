---------------------------- MODULE Constraints ----------------------------
(***************************************************************************)
(* When a plugin's X-Purpose-Constraints let it be offered                 *)
(* (src/src/constrainthelpers.cpp).  Input data is a function from keys to *)
(* values, the value of mimeType the set of the types it names (a string,  *)
(* an array or an object, which match alike).  A constraint is the set of  *)
(* its options: an array is an OR, a plain string its only option.         *)
(***************************************************************************)

CONSTANTS
  Inherits,   \* the mime database: pairs <<type, ancestor>>, reflexive
  Wildcards   \* [patterns -> the types they match], patterns having a '*'

(* QString(): a name that is not set.                                      *)
Blank == ""

(* A string that is not "property:value".                                  *)
Malformed == [property |-> Blank, value |-> Blank]
Option(property, value) == [property |-> property, value |-> value]

(* QJsonObject::value: what is not there is undefined, and equals nothing. *)
DefaultMatch(wanted, data, key) == key \in DOMAIN data /\ data[key] = wanted

MimeTypeMatch(wanted, value) ==
  \E mime \in value : IF wanted \in DOMAIN Wildcards
                        THEN mime \in Wildcards[wanted]
                        ELSE <<mime, wanted>> \in Inherits

(* dbusMatch, executablePresent and desktopFilePresent ask the system, of  *)
(* which "present" says what is there now.                                 *)
SystemMatch(option, present) == option \in present

Match(option, data, present) ==
  IF option.property = "mimeType"
    THEN MimeTypeMatch(option.value, data["mimeType"])
  ELSE IF option.property \in {"dbus", "application", "exec"}
    THEN SystemMatch(option, present)
  ELSE DefaultMatch(option.value, data, option.property)

(* Fault: data of no type fails a constraint on its type.                  *)
ConstraintMatches_Untyped(constraint, data, present) ==
  \E option \in constraint :
    /\ option # Malformed
    /\ option.property = "mimeType" => "mimeType" \in DOMAIN data
    /\ Match(option, data, present)

(* constraintMatches(): a mimeType constraint says nothing of data without *)
(* a mime type.                                                            *)
ConstraintMatches(constraint, data, present) ==
  \E option \in constraint :
    /\ option # Malformed
    /\ \/ option.property = "mimeType" /\ "mimeType" \notin DOMAIN data
       \/ Match(option, data, present)
=============================================================================
