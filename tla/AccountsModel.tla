--------------------------- MODULE AccountsModel ---------------------------
(***************************************************************************)
(* The accounts offered on a page (src/src/accounts/accountsmodel.cpp),    *)
(* from KOnlineAccounts, which signals what is granted to the application, *)
(* or from KAccounts, whose signals reload the list.  Calls are waited     *)
(* for, so that they see the service as it is, unless they fail: read are  *)
(* the accounts whose properties were read.  Signals come later.           *)
(***************************************************************************)
EXTENDS Naturals, Sequences, FiniteSets, SequencesExt

CONSTANTS Accounts, AccountTypes,
          TypeOf,     \* the type of each account
          MaxGrants   \* a bound on what the service does

NoType == ""   \* m_type before it is set

ASSUME TypeOfAssumption ==
  /\ TypeOf \in [Accounts -> AccountTypes] /\ NoType \notin AccountTypes
  /\ IsFiniteSet(Accounts) /\ MaxGrants \in Nat

VARIABLES
  accounts,    \* m_accounts, the rows
  accTold,     \* how many rows the views were told of
  accType,     \* m_type, at first NoType
  online,      \* usingKOnlineAccounts()
  granted,     \* the accounts the service has for the application
  grants,      \* accountAccessGranted (accountCreated...) on their way
  grantCount,
  accAhead,    \* history: an account was read before its signal came
  accRevoked,  \* history: an account went away, of which nothing is heard
  accOther,    \* history: a granted account got no row since load()
  accFailed    \* history: the accounts that could not be read

accVars == <<accounts, accTold, accType, online, granted, grants, grantCount,
             accAhead, accRevoked, accOther, accFailed>>

AccTypeOK ==
  /\ accounts \in Seq(Accounts) /\ accTold \in Nat
  /\ accType \in AccountTypes \cup {NoType} /\ online \in BOOLEAN
  /\ granted \subseteq Accounts /\ grants \in Seq(Accounts)
  /\ grantCount \in 0 .. MaxGrants
  /\ accAhead \in BOOLEAN /\ accRevoked \in BOOLEAN /\ accOther \in BOOLEAN
  /\ accFailed \subseteq Accounts

AccInit ==
  /\ accounts = <<>> /\ accTold = 0 /\ accType = NoType /\ online \in BOOLEAN
  /\ granted \in SUBSET Accounts /\ grants = <<>> /\ grantCount = 0
  /\ accAhead = FALSE /\ accRevoked = FALSE /\ accOther = FALSE
  /\ accFailed = {}

OfType(as, type) == {a \in as : TypeOf[a] = type}

(* From KAccounts the accounts are always read; over D-Bus any of them, or *)
(* the list as a whole, may fail to be.                                    *)
Readable == IF online THEN SUBSET granted ELSE {granted}

(* Fault: the rows there were are kept.                                    *)
Load_Kept(type) ==
  \E read \in Readable :
    /\ accounts' = accounts \o SetToSeq(OfType(read, type) \ ToSet(accounts))
    /\ accTold' = Len(accounts') /\ accFailed' = granted \ read
    /\ accAhead' = (online /\ granted \cap ToSet(grants) # {})
    /\ accRevoked' = FALSE /\ accOther' = FALSE

(* load(): the rows start from nothing.                                    *)
Load(type) ==
  \E read \in Readable :
    /\ accounts' = SetToSeq(OfType(read, type))
    /\ accTold' = Len(accounts') /\ accFailed' = granted \ read
    /\ accAhead' = (online /\ granted \cap ToSet(grants) # {})
    /\ accRevoked' = FALSE /\ accOther' = FALSE

SetType(type) ==
  /\ type # accType /\ accType' = type /\ Load(type)
  /\ UNCHANGED <<online, granted, grants, grantCount>>

(* requestNew() and whatever else makes the service grant an account.      *)
Grant(a) ==
  /\ a \notin granted /\ grantCount < MaxGrants
  /\ granted' = granted \cup {a} /\ grants' = Append(grants, a)
  /\ grantCount' = grantCount + 1
  /\ UNCHANGED <<accounts, accTold, accType, online, accAhead, accRevoked,
                 accOther, accFailed>>

(* Only KAccounts says so.                                                 *)
Revoke(a) ==
  /\ a \in granted /\ grantCount < MaxGrants
  /\ granted' = granted \ {a} /\ grantCount' = grantCount + 1
  /\ IF online THEN accRevoked' = TRUE /\ UNCHANGED grants
     ELSE grants' = Append(grants, a) /\ UNCHANGED accRevoked
  /\ UNCHANGED <<accounts, accTold, accType, online, accAhead, accOther,
                 accFailed>>

(* Fault: any account that is granted gets a row.                          *)
AddFromDBus_Any(a, read) == Append(accounts, a)

(* addFromDBus(): the properties of an account that went away, or could    *)
(* not be read, are empty.                                                 *)
AddFromDBus(a, read) ==
  IF a \in OfType(read, accType) THEN Append(accounts, a) ELSE accounts

(* slotAccountCreationFinished() announces a row in any case.              *)
AccountGranted(a) ==
  /\ \E read \in SUBSET granted :
       /\ accounts' = AddFromDBus(a, read)
       /\ accFailed' = (accFailed \ {a}) \cup {x \in {a} : x \in granted \ read}
  /\ accTold' = accTold + 1
  /\ accOther' = (accOther \/ accounts' = accounts)
  /\ accAhead' = (accAhead \/ a \in ToSet(Tail(grants)))
  /\ UNCHANGED accRevoked

AccReceive ==
  /\ grants # <<>> /\ grants' = Tail(grants)
  /\ IF online THEN AccountGranted(Head(grants)) ELSE Load(accType)
  /\ UNCHANGED <<accType, online, granted, grantCount>>

AccNext ==
  \/ AccReceive
  \/ \E type \in AccountTypes : SetType(type)
  \/ \E a \in Accounts : Grant(a) \/ Revoke(a)

---------------------------------------------------------------------------

(* Every row is an account of the type that was asked for, and has a row   *)
(* of its own, unless it was read before its grant was signalled, or has   *)
(* gone and come back.                                                     *)
AccountRows ==
  /\ \A i \in DOMAIN accounts : TypeOf[accounts[i]] = accType
  /\ accAhead \/ accRevoked \/ IsInjective(accounts)

(* With no signal under way, the rows are the accounts of that type, but   *)
(* for those that went away unheard, and those that could not be read,     *)
(* which nothing reads again (accountsmodel.cpp:75 and 110).               *)
AccountsAtRest ==
  grants = <<>> =>
    /\ OfType(granted, accType) \ accFailed \subseteq ToSet(accounts)
    /\ accRevoked \/ ToSet(accounts) \subseteq granted

(* The views know as many rows as there are, unless an account was granted *)
(* that is of another type or could not be read.                           *)
AccountsAnnounced == accOther \/ Len(accounts) = accTold

(* What these rest on.  From KOnlineAccounts: an account that is granted   *)
(* has its row, its signal is coming or it could not be read, and a row    *)
(* whose signal is coming was read ahead.  From KAccounts: the rows are    *)
(* right, or a signal is coming.                                           *)
AccInv ==
  /\ AccTypeOK /\ AccountRows /\ AccountsAnnounced
  /\ online =>
       /\ OfType(granted, accType)
            \subseteq ToSet(accounts) \cup ToSet(grants) \cup accFailed
       /\ accRevoked \/ ToSet(accounts) \subseteq granted
       /\ accAhead \/ accRevoked \/ ToSet(accounts) \cap ToSet(grants) = {}
  /\ ~ online =>
       /\ IsInjective(accounts) /\ accFailed = {}
       /\ grants = <<>> => ToSet(accounts) = OfType(granted, accType)
=============================================================================
