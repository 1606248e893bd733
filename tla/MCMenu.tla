------------------------------- MODULE MCMenu -------------------------------
(* Menu for TLC: plugins that differ in every way isPluginAcceptable()      *)
(* looks at, two of them alike in what they display, and data that comes   *)
(* with, without and with the wrong mime type.                             *)
EXTENDS Menu

Plugin(id, file, types, constraints, needs, display) ==
  [id |-> id, file |-> file, types |-> types, constraints |-> constraints,
   needs |-> needs, display |-> display]

kdeconnect == Option("dbus", "kdeconnect")

MCNative ==
  <<Plugin("kdeconnect", "native", {"Export", "ShareUrl"}, {{kdeconnect}}, {"device"}, 3),
    Plugin("imgur", "native", {"Export", "ShareUrl"},
           {{Option("mimeType", "image/*"), Option("mimeType", "video/mp4")}}, {}, 2),
    Plugin("saveas", "native", {"Export"},
           {{Option("urls", "photo"), Option("urls", "patch")}}, {"destinationPath"}, 1)>>

(* A package without its main file, and the same id in two directories.    *)
MCPackages ==
  <<Plugin("tweet", "absent", {"ShareUrl"}, {}, {}, 2),
    Plugin("tweet", "script", {"ShareUrl", "Export"},
           {{kdeconnect, Option("mimeType", "text/plain"), Malformed}}, {}, 2),
    Plugin("tweet", "script", {"ShareUrl"}, {}, {"account"}, 4)>>

MCPluginTypes == [Export |-> [inbound |-> {"urls", "mimeType"}],
                  ShareUrl |-> [inbound |-> {"urls", "title"}]]

MCInputs == {<<>>, [urls |-> "photo", mimeType |-> {"image/png"}],
             [urls |-> "patch", mimeType |-> {"text/x-patch", "dummy/thing"}],
             [urls |-> "untyped"], [urls |-> "link", title |-> "page"]}

MCWildcards == [p \in {"image/*"} |-> {"image/png", "image/gif"}]
MCInherits == {<<m, m>> : m \in {"image/png", "text/x-patch", "video/mp4"}}
                \cup {<<"text/x-patch", "text/plain">>}
MCDisabled == {{}, {"saveas"}, {"kdeconnect", "tweet"}}
MCSystem == {kdeconnect}
=============================================================================
