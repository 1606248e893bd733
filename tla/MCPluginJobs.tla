---- MODULE MCPluginJobs ----
(* Two documents, a page of the web and some data: several urls of one kind, *)
(* one of each other kind, and every subset of them, the empty one too.      *)
EXTENDS PluginJobs, TLC

MCPlugins == {"imgur", "youtube", "nextcloud", "saveas", "reviewboard",
              "phabricator", "bluetooth", "clipboard", "email", "kdeconnect",
              "sms", "telegram"}
====
