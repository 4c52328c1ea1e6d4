------------------------------ MODULE InstallerMC ------------------------------
(***************************************************************************)
(* An instance of Installer for TLC: the ccapply service and somebody at   *)
(* the console.  The sources disagree on the keys and the environment, two *)
(* of them use another name for the files, and one for the wifi.           *)
(***************************************************************************)
EXTENDS Installer

MCFields == {"keys", "password", "wifi", "url", "token", "device", "configurl",
             "silent", "files", "env"}
MCSimple == {"password", "wifi", "token", "device", "silent", "env"}
MCScalars == {"password", "url", "token", "device", "configurl", "silent"}
MCMaps == {"env"}
MCItems == MCFields \cup {"k1", "k2", "v1", "v2", "w1", "f1", "f2"}

\* w1 is another value for the key of v1.
MCKey == [x \in MCItems |-> IF x = "w1" THEN "v1" ELSE x]

\* A source that sets some fields, under their snake-case names.
Says(fields) ==
    Marshal([f \in MCFields |-> IF f \in DOMAIN fields THEN fields[f] ELSE {}])

MCGiven ==
    [system   |-> [Says([env |-> {"v1"}]) EXCEPT !["alias"]["files"] = {"f1"}],
     local    |-> [Says([url |-> {}]) EXCEPT !["camel"]["env"] = {"v2"}],
     cloud    |-> Says([keys |-> {"k1", "k2"}]),
     userdata |-> [Says([url |-> {}]) EXCEPT !["alias"]["wifi"] = {"k2"}],
     confd    |-> [Says([url |-> {}]) EXCEPT !["alias"]["files"] = {"f2"}]]

MCConfD == <<"confd">>
MCFlags == <<[key |-> "wifi", value |-> "v1"]>>
MCVariables == {"v1"}

Token(k, v) == [key |-> k, value |-> v]

Machine(mode_, cmdline_, cc, admin) ==
    [mode |-> mode_, cmdline |-> cmdline_,
     phase |-> [p \in {"cc", "admin"} |-> IF p = "cc" THEN cc ELSE admin]]

\* Two runs at once; the installer next to ccapply at boot, on an installed and on
\* live systems; the installer that ccapply runs, with files under two names, or
\* silent; a token given twice, which no configuration can hold.
Twice == <<Token("env", "w1"), Token("env", "v2")>>
MCMachines ==
    {Machine("disk", Twice, "run", "run"),
     Machine("disk", <<>>, "boot", "ask"),
     Machine("live-agent", Twice \o <<Token("url", "k1")>>, "boot", "ask"),
     Machine("install", <<Token("files", "f1")>>, "run", "none"),
     Machine("install", <<Token("silent", "silent")>>, "run", "none"),
     Machine("live-server", <<Token("password", "k1")>>, "boot", "ask"),
     Machine("disk", <<>>, "initrd", "none"),
     Machine("disk", <<Token("token", "k1"), Token("token", "k2")>>, "run", "ask")}
=============================================================================
