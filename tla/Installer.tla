------------------------------- MODULE Installer -------------------------------
(***************************************************************************)
(* The interactive installer (internal/cliinstall, internal/questions),    *)
(* next to the runs of CloudConfig: Run, Ask and the prompts, the          *)
(* installation to disk, or the configuration that is saved and applied.   *)
(*                                                                         *)
(* The questions touch nothing but the memory of the process, so that all  *)
(* of them are one step: a question is an operator from a configuration to *)
(* the set of those it may end with.  An answer that a prompt refuses is   *)
(* asked for again; a prompt that fails (end of input) ends the process.   *)
(***************************************************************************)
EXTENDS CloudConfig

\* The members of K3OS.Install, which ToBytes drops.
InstallFields == {"device", "configurl", "silent"}

frame == <<sshFile, environment, service, reading, work>>

\* On to l, inside the installer.
Then(p, l) == Goto(p, l) /\ UNCHANGED <<asking, idx>>

-----------------------------------------------------------------------------
(* The questions.                                                          *)

Has(c, f) == c[f] # {}

\* The user's answer for a field.
Answered(c, f) == [c EXCEPT ![f] = {f}]

\* A question that is asked unless the field is set, and may be declined.
MayAsk(c, f) == {c} \cup (IF Has(c, f) THEN {} ELSE {Answered(c, f)})

MustAsk(c, f) == {IF Has(c, f) THEN c ELSE Answered(c, f)}

\* Somebody can log in.
Login(c) == Has(c, "keys") \/ Has(c, "password")

AskInstallDevice(c) == MustAsk(c, "device")

AskConfigURL(c) == MayAsk(c, "configurl")

AskWifi(c) == MayAsk(c, "wifi")

AskGithub(c) == IF Login(c) THEN {c} ELSE MayAsk(c, "keys")

\* Mutant: no password is asked for when no GitHub user is named.
AskPasswordOptional(c) == {c}

AskPassword(c) == IF Login(c) THEN {c} ELSE {Answered(c, "password")}

\* An agent needs a token, a server may have one.
AskToken(c, server) == IF server THEN MayAsk(c, "token") ELSE MustAsk(c, "token")

\* What isServer may return.
isServer == {b \in BOOLEAN : (mode = "live-server" => b) /\ (mode = "live-agent" => ~b)}

\* Mutant: the question is asked even if the URL is known.
AskServerAgentAlways(c) ==
    UNION {AskToken(IF server THEN c ELSE Answered(c, "url"), server) : server \in isServer}

AskServerAgent(c) ==
    IF Has(c, "url") THEN {c}
    ELSE UNION {AskToken(IF server THEN c ELSE Answered(c, "url"), server) :
                   server \in isServer}

\* The questions of AskInstall that a cloud-init file makes superfluous.
AskRest(c) ==
    UNION {UNION {UNION {AskServerAgent(e) : e \in AskWifi(d)} :
                     d \in AskPassword(k)} : k \in AskGithub(c)}

AskInstall(c) ==
    IF Has(c, "silent") THEN {c}
    ELSE UNION {IF Has(u, "configurl") THEN {u} ELSE AskRest(u) :
                   u \in UNION {AskConfigURL(d) : d \in AskInstallDevice(c)}}

\* What isInstall may return.
isInstall ==
    CASE mode = "install" -> {TRUE}
      [] mode \in {"live-server", "live-agent"} -> {FALSE}
      [] OTHER -> BOOLEAN

\* Ask: the questions are answered, or a prompt or the list of disks fails.
Ask(p) ==
    /\ pc[p] = "ask"
    /\ \/ \E disk \in isInstall :
             /\ \E c \in (IF disk THEN AskInstall(cfg[p]) ELSE AskServerAgent(cfg[p])) :
                   cfg' = [cfg EXCEPT ![p] = c]
             /\ Then(p, IF disk THEN "confirm" ELSE "saveCreate")
       \/ Finish(p, TRUE) /\ UNCHANGED cfg
    /\ UNCHANGED <<confs, frame, leftovers, phase, said, saving, faults>>

-----------------------------------------------------------------------------
(* runInstall.                                                             *)

Confirmed(p) == IF Has(cfg[p], "configurl") THEN "script" ELSE "confTemp"

\* The user confirms, declines, or the prompt fails; a silent installation asks
\* nothing.
Confirm(p) ==
    /\ pc[p] = "confirm"
    /\ \/ Has(cfg[p], "silent") /\ Then(p, Confirmed(p)) /\ UNCHANGED said
       \/ /\ ~Has(cfg[p], "silent")
          /\ \/ said' = said \cup {p} /\ Then(p, Confirmed(p))
             \/ (\E err \in BOOLEAN : Finish(p, err)) /\ UNCHANGED said
    /\ UNCHANGED <<confs, frame, leftovers, phase, cfg, saving, faults>>

\* The configuration goes into a temporary file that the script reads.
CreateConfTemp(p) ==
    /\ pc[p] = "confTemp"
    /\ \/ temps' = temps \cup {<<p, "conf">>} /\ Works /\ Then(p, "confWrite")
       \/ Fault /\ Finish(p, TRUE) /\ UNCHANGED temps
    /\ UNCHANGED <<confs, frame, spilled, phase, cfg, said, saving>>

\* The deferred Remove is registered after the file is written.
WriteConfTemp(p) ==
    /\ pc[p] = "confWrite"
    /\ \/ Works /\ Then(p, "script") /\ UNCHANGED spilled
       \/ Fault /\ Finish(p, TRUE) /\ spilled' = spilled \cup {<<p, "conf">>}
    /\ UNCHANGED <<confs, frame, temps, phase, cfg, said, saving>>

\* /usr/libexec/k3os/install.
RunScript(p) ==
    /\ pc[p] = "script"
    /\ temps' = temps \ {<<p, "conf">>}
    /\ \/ Works /\ Finish(p, FALSE)
       \/ Fault /\ Finish(p, TRUE)
    /\ UNCHANGED <<confs, frame, spilled, phase, cfg, said, saving>>

-----------------------------------------------------------------------------
(* Run, without an installation: the configuration is saved and applied.   *)

\* Other runs under way, for which a source changes.
Disturbs(p) ==
    disturbed' = disturbed \cup
        {q \in Procs \ {p} : pc[q] \in PCs \ {"idle", "ended", "gone", "killed"}}

\* os.Create truncates SystemConfig or, if that fails, LocalConfig.
SaveCreate(p) ==
    /\ pc[p] = "saveCreate"
    /\ \/ sysConf' = Marshal(Unset) /\ Works /\ Then(p, "saveSys") /\ UNCHANGED localConf
       \/ localConf' = Marshal(Unset) /\ Fault /\ Then(p, "saveLocal") /\ UNCHANGED sysConf
       \/ Fault /\ Finish(p, TRUE) /\ UNCHANGED <<sysConf, localConf>>
    /\ Disturbs(p)
    /\ UNCHANGED <<mode, cmdline, frame, leftovers, phase, cfg, said, alike, answer,
                   saved>>

Saved(p) == [f \in Fields |-> IF f \in InstallFields THEN {} ELSE cfg[p][f]]

\* The file is written, and RunInstall reads everything again.  A write that
\* fails leaves an empty file or the beginning of one.
SaveWrite(p) ==
    /\ pc[p] \in {"saveSys", "saveLocal"}
    /\ \/ /\ IF pc[p] = "saveSys"
             THEN sysConf' = Marshal(Saved(p)) /\ UNCHANGED localConf
             ELSE localConf' = Marshal(Saved(p)) /\ UNCHANGED sysConf
          /\ answer' = [answer EXCEPT ![p] = Saved(p)]
          /\ saved' = saved \cup {p}
          /\ phase' = [phase EXCEPT ![p] = "install"]
          /\ asking' = [asking EXCEPT ![p] = FALSE]
          /\ Works /\ Goto(p, "read") /\ UNCHANGED idx
       \/ /\ Fault /\ Finish(p, TRUE)
          /\ \E rest \in {Garbage, Marshal(Unset)} :
                IF pc[p] = "saveSys" THEN sysConf' = rest /\ UNCHANGED localConf
                                     ELSE localConf' = rest /\ UNCHANGED sysConf
          /\ UNCHANGED <<answer, saved, phase>>
    /\ Disturbs(p)
    /\ UNCHANGED <<mode, cmdline, frame, leftovers, cfg, said, alike>>

-----------------------------------------------------------------------------
\* What a run does by itself.
Step(p) ==
    \/ ReadSource(p) \/ ReadFails(p) \/ Decode(p)
    \/ ApplySettings(p) \/ ApplyNetwork(p) \/ ApplyCommands(p)
    \/ ApplyPassword(p) \/ RenameShadow(p)
    \/ ApplySSHKeys(p) \/ NextKey(p)
    \/ StatKeys(p) \/ CreateKeys(p) \/ ReadKeys(p) \/ RenameKeys(p)
    \/ ApplyWriteFiles(p) \/ NextFile(p) \/ RenameFile(p)
    \/ ApplyEnvironment(p) \/ ReadEnvironment(p) \/ TruncateEnvironment(p)
    \/ WriteEnvironment(p)
    \/ ApplyInstall(p) \/ ApplyK3S(p)
    \/ CreateConfTemp(p) \/ WriteConfTemp(p)
    \/ SaveCreate(p) \/ SaveWrite(p)

\* What waits for somebody: the user, a web server, the installation script.
Prompt(p) == Ask(p) \/ Confirm(p) \/ RunScript(p) \/ Fetch(p)

Next ==
    \E p \in Procs :
        Start(p) \/ Step(p) \/ Prompt(p) \/ Exit(p) \/ Kill(p)

\* A process that can run is run; nothing is promised of users and servers.  The
\* commands of the configuration and k3s-install.sh are taken to return.
Fairness == \A p \in Procs : WF_vars(Step(p))

Spec == Init /\ [][Next]_vars /\ Fairness

-----------------------------------------------------------------------------
\* The source at n says x of f, as p has read them, and no later one says anything
\* else of that.
Stands(p, f, n, x) ==
    /\ \E s \in Spellings : x \in seen[p][n][s][f]
    /\ \A m \in 1 .. Len(Sources) : m > n =>
          \A s \in Spellings : Of(f, seen[p][m][s][f], x) = {}

\* The configuration that ReadConfig returns has for every field, and for every
\* member of a map (environment, config.go:22), what the last of its sources that
\* sets it says (read.go:23, :69, decode.go:93), whatever was rewritten while it
\* read them, as long as the sources agree on the spelling: matchName accepts names
\* that merge keeps apart, and then the choice is arbitrary.  The order is that of
\* the code, where LocalConfig, the cloud data and config.d override the kernel
\* command line; docs/technical.md:318-324 promises another one, in which the cloud
\* data come after config.d and the command line overrides them all.
LastSourceWins ==
    [][\A p \in Procs : pc[p] = "read" /\ pc'[p] = (IF asking[p] THEN "ask" ELSE "apply") =>
          \A f \in Fields : OneSpelling(p, f) =>
              cfg'[p][f] = {x \in Items : \E n \in 1 .. Len(Sources) : Stands(p, f, n, x)}]_vars

\* The installer writes the merged configuration into one of the files that it
\* was merged from and reads everything again (install.go:36-57): the answers
\* take effect, and nothing else changes, although four kinds of source still
\* override SystemConfig, unless another run rewrites a source meanwhile or
\* the cloud data could not be read.  Fields are left out whose name is not
\* that of their json tag and which the sources spell differently, or which
\* LocalConfig has under another name: what is written there in snake case
\* takes that value away, and SystemConfig may have one under the same name.
AnswersTakeEffect ==
    \A p \in saved \ disturbed :
        pc[p] = "apply" =>
            \A f \in alike[p] \ InstallFields : cfg[p][f] = answer[p][f]

\* authorized_keys is read, extended and renamed into place without a lock
\* (ssh.go:103-132), and created with truncation when Stat found none (:105).
\* A key disappears only when the run that writes the file has looked at it
\* before another run wrote it.
KeysOnlyLostByOverlap ==
    [][auth \subseteq auth'
       \/ \E p \in stale : pc[p] \in {"sshCreate", "sshRename"} /\ pc'[p] # pc[p]]_vars

\* /etc/environment is read and then rewritten in place (funcs.go:325-358).  When
\* no run is about to write it, it has every variable it ever had, unless runs
\* overlapped there, or one of them failed or was killed on the way.
EnvironmentKept ==
    ~envLost /\ (\A p \in Procs : pc[p] # "envWrite") => envFile = envAll

TempPCs == [shadow |-> {"pwRename"}, ssh |-> {"sshRename"}, file |-> {"fileRename"},
            conf |-> {"confWrite", "script"}]

\* A temporary file outlives the step that needs it only if the run was killed
\* there.  Two writers are careless after an error: WriteFile leaves wfs-temp
\* files (writefile.go:50-72), runInstall the configuration it has written
\* (install.go:86-112); SetPassword and writeFileAtomic clear up in any case.
NothingLeftBehind ==
    \A p \in Procs : \A k \in Kinds :
        <<p, k>> \in temps =>
            \/ pc[p] \in TempPCs[k] \cup {"killed"}
            \/ k \in {"file", "conf"} /\ <<p, k>> \in spilled

\* The installation script, which formats the disk, is run only on a configuration
\* that asks for silence or that the user confirmed; and then there is a device,
\* and either a configuration to fetch or a way to log in, whatever was given
\* beforehand (ask.go:57-89, install.go:75-83).
FormatsWhatWasConfirmed ==
    \A p \in Procs :
        pc[p] \in {"confTemp", "confWrite", "script"} =>
            \/ Has(cfg[p], "silent")
            \/ /\ p \in said
               /\ Has(cfg[p], "device")
               /\ Has(cfg[p], "configurl") \/ Login(cfg[p])

\* Where a run waits for somebody else.
Waits(p) ==
    pc[p] \in {"ask", "confirm", "script", "fetch"}

\* A run of ccapply that has its configuration comes to its last applier, which
\* installs k3s, whatever fails before (apply.go:43), unless it is killed or
\* waits: for the user, or for a web server, whose answer has no time limit
\* (ssh.go:78).
ComesToK3s ==
    \A p \in Procs :
        (pc[p] = "apply" /\ phase[p] = "run") ~>
            (pc[p] = "killed" \/ Waits(p) \/ idx[p] = Len(Appliers["run"]))
=============================================================================
