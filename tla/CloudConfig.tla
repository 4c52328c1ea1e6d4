------------------------------ MODULE CloudConfig ------------------------------
(***************************************************************************)
(* Runs of `k3os config` and `k3os install` next to each other: reading    *)
(* the configuration (internal/config), the appliers (internal/cc) with    *)
(* the files that they update (internal/ssh, shadow, writefile), and the   *)
(* interactive installer (internal/cliinstall), which rewrites the         *)
(* configuration file that the others read.                                *)
(*                                                                         *)
(* The ccapply service starts a run at boot; an administrator may start    *)
(* another one, or the installer, at any time.  Nothing is locked.  A run  *)
(* may be killed between any two steps.                                    *)
(*                                                                         *)
(* Appliers whose files nothing here reads back (modules, sysctls,         *)
(* hostname, DNS, wifi, data sources, commands) are a step for each group. *)
(***************************************************************************)
EXTENDS ConfigMerge

CONSTANTS
    Procs,          \* the runs
    Machines,       \* [mode, cmdline, phase]: what the model starts from
    Given,          \* Given[s]: what source s says, as a Raw
    Garbage,        \* the content of a file that is not YAML
    ConfD,          \* the names of the files of config.d, in order
    FlagTokens,     \* /run/k3os/config.flags
    Urls,           \* items of ssh_authorized_keys that are fetched
    Variables,      \* the names in /etc/environment at first
    MaxTries,       \* attempts to fetch a key (10 in the code)
    MaxFaults       \* bound on failing calls and kills

\* The readers of ReadConfig, in order.
Sources == <<"system", "cmdline", "flags", "local", "cloud", "userdata">> \o ConfD

FileSources == {"system", "local", "cloud", "userdata"} \cup {ConfD[i] : i \in DOMAIN ConfD}

\* What a process may be run as; `none` is not started.
Phases == {"none", "initrd", "boot", "run", "install", "ask"}

\* InitApply, BootApply, RunApply and InstallApply; `ask` is the installer.  The
\* first three of RunApply are `settings`, the next two `network`.
Appliers ==
    [initrd  |-> <<"settings", "files", "env", "cmds">>,
     boot    |-> <<"settings", "network", "password", "ssh", "k3s", "files", "env", "cmds">>,
     run     |-> <<"settings", "network", "password", "ssh", "files", "env", "cmds",
                   "install", "k3s">>,
     install |-> <<"k3s">>,
     ask     |-> <<>>,
     none    |-> <<>>]

\* The fields that the model names; their item when an answer sets them.
AskFields == {"keys", "password", "wifi", "url", "token", "device", "configurl"}

ASSUME CloudAssumption ==
    /\ AskFields \cup {"files", "env", "silent"} \subseteq Fields
    /\ Fields \subseteq Items
    /\ Given \in [FileSources -> Raw]
    /\ ConfD \in Seq(STRING)
    /\ \A i \in DOMAIN ConfD : ConfD[i] \notin {"system", "local"}
    /\ Machines \subseteq [mode : STRING,
                           cmdline : Seq([key : Fields, value : Items]),
                           phase : [Procs -> Phases]]
    /\ FlagTokens \in Seq([key : Fields, value : Items])
    /\ Variables \subseteq Items
    /\ MaxTries \in Nat \ {0}
    /\ MaxFaults \in Nat

VARIABLES
    \* the machine
    mode,           \* what mode.Get returns
    cmdline,        \* the kernel command line
    sysConf,        \* SystemConfig, as a Raw, or Garbage
    localConf,      \* LocalConfig
    auth,           \* the keys in authorized_keys
    authThere,      \* authorized_keys exists
    envFile,        \* the names of the variables in /etc/environment
    temps,          \* <<p, kind>>: a temporary file of p
    service,        \* how k3s was installed last: as a server or an agent
    \* the runs
    pc,             \* the next step
    phase,          \* which list of appliers
    asking,         \* asking[p]: inside the installer
    src,            \* the next reader
    seen,           \* what each reader said, normalised
    data,           \* the map merged so far
    cfg,            \* the CloudConfig
    idx,            \* the position in the list of appliers
    todo,           \* the keys or files still to do
    key,            \* the key at hand
    tries,          \* attempts to fetch it
    buf,            \* what was read of the file at hand
    said,           \* runs whose user confirmed the installation
    \* history
    alike,          \* fields that the sources of the installer spell alike
    answer,         \* the configuration that the installer wrote
    saved,          \* runs that wrote a configuration file
    disturbed,      \* runs during which a source changed, or could not be read
    stale,          \* runs whose view of authorized_keys is out of date
    envLost,        \* a fault, a kill or an overlap while environment was written
    envAll,         \* the name of every variable written there
    spilled,        \* temporary files left behind after an error
    faults

confs == <<mode, cmdline, sysConf, localConf>>
sshFile == <<auth, authThere, stale>>
environment == <<envFile, envLost, envAll>>
leftovers == <<temps, spilled>>
reading == <<src, seen, data>>
course == <<phase, asking, cfg, said>>
work == <<todo, key, tries, buf>>
saving == <<alike, answer, saved, disturbed>>
vars == <<confs, sshFile, environment, leftovers, service, pc, reading, course,
          idx, work, saving, faults>>

PCs == {"idle", "read", "apply", "pwRename", "sshKey", "fetch", "sshStat",
        "sshCreate", "sshRead", "sshRename", "fileNext", "fileRename",
        "envRead", "envTrunc", "envWrite", "ask", "saveCreate", "saveSys", "saveLocal",
        "confirm", "confTemp", "confWrite", "script", "ended", "gone", "killed"}

Kinds == {"shadow", "ssh", "file", "conf"}

TypeOK ==
    /\ mode \in STRING
    /\ cmdline \in Seq([key : Fields, value : Items])
    /\ sysConf \in Raw \cup {Garbage}
    /\ localConf \in Raw \cup {Garbage}
    /\ auth \in SUBSET Items
    /\ authThere \in BOOLEAN
    /\ envFile \in SUBSET Items
    /\ temps \in SUBSET (Procs \X Kinds)
    /\ service \in {"none", "server", "agent"}
    /\ pc \in [Procs -> PCs]
    /\ phase \in [Procs -> Phases]
    /\ asking \in [Procs -> BOOLEAN]
    /\ src \in [Procs -> 1 .. Len(Sources) + 1]
    /\ seen \in [Procs -> [1 .. Len(Sources) -> Data]]
    /\ data \in [Procs -> Data]
    /\ cfg \in [Procs -> Config]
    /\ idx \in [Procs -> Nat]
    /\ todo \in [Procs -> SUBSET Items]
    /\ key \in [Procs -> SUBSET Items]
    /\ tries \in [Procs -> 0 .. MaxTries]
    /\ buf \in [Procs -> SUBSET Items]
    /\ said \in SUBSET Procs
    /\ alike \in [Procs -> SUBSET Fields]
    /\ answer \in [Procs -> Config]
    /\ saved \in SUBSET Procs
    /\ disturbed \in SUBSET Procs
    /\ stale \in SUBSET Procs
    /\ envLost \in BOOLEAN
    /\ envAll \in SUBSET Items
    /\ spilled \in SUBSET (Procs \X Kinds)
    /\ faults \in Nat

NothingSeen == [n \in 1 .. Len(Sources) |-> Nothing]

Init ==
    /\ \E m \in Machines : mode = m.mode /\ cmdline = m.cmdline /\ phase = m.phase
    /\ sysConf = Given["system"] /\ localConf = Given["local"]
    /\ auth = {} /\ authThere = FALSE
    /\ envFile = Variables /\ temps = {} /\ service = "none"
    /\ pc = [p \in Procs |-> "idle"]
    /\ asking = [p \in Procs |-> FALSE]
    /\ said = {}
    /\ src = [p \in Procs |-> 1]
    /\ seen = [p \in Procs |-> NothingSeen]
    /\ data = [p \in Procs |-> Nothing]
    /\ cfg = [p \in Procs |-> Unset]
    /\ idx = [p \in Procs |-> 1]
    /\ todo = [p \in Procs |-> {}] /\ key = [p \in Procs |-> {}]
    /\ tries = [p \in Procs |-> 0]
    /\ buf = [p \in Procs |-> {}]
    /\ alike = [p \in Procs |-> {}]
    /\ answer = [p \in Procs |-> Unset]
    /\ saved = {} /\ disturbed = {} /\ stale = {} /\ envLost = FALSE
    /\ envAll = envFile
    /\ spilled = {} /\ faults = 0

-----------------------------------------------------------------------------
(* The course of a run.                                                    *)

\* A call fails for a reason of its own.
Fault == faults < MaxFaults /\ faults' = faults + 1

\* A call that works, or fails.
Works == UNCHANGED faults

Goto(p, l) == pc' = [pc EXCEPT ![p] = l]

Applier(p, a) ==
    /\ pc[p] = "apply"
    /\ idx[p] <= Len(Appliers[phase[p]])
    /\ Appliers[phase[p]][idx[p]] = a

\* Mutant: runApplies returns at the first error.
ReturnAtError(p, err) ==
    /\ idx' = [idx EXCEPT ![p] = @ + 1]
    /\ Goto(p, IF err \/ idx[p] >= Len(Appliers[phase[p]]) THEN "ended" ELSE "apply")

\* An applier returns; runApplies goes on with the next one, error or not.
Return(p, err) ==
    /\ idx' = [idx EXCEPT ![p] = @ + 1]
    /\ Goto(p, IF idx[p] >= Len(Appliers[phase[p]]) THEN "ended" ELSE "apply")

\* ReadConfig has failed, or the installer returns.  The installer that
\* ApplyInstall runs is a child, whose parent goes on.
Finish(p, err) ==
    /\ asking' = [asking EXCEPT ![p] = FALSE]
    /\ IF asking[p] /\ phase[p] = "run"
       THEN Return(p, err)
       ELSE Goto(p, "ended") /\ UNCHANGED idx

\* k3os config with its flags, or k3os install.
Start(p) ==
    /\ pc[p] = "idle" /\ phase[p] # "none"
    /\ asking' = [asking EXCEPT ![p] = (phase[p] = "ask")]
    /\ Goto(p, "read")
    /\ UNCHANGED <<confs, sshFile, environment, leftovers, service, reading, phase,
                   cfg, said, idx, work, saving, faults>>

\* ReadConfig returns.
StopReading(p) ==
    /\ src' = [src EXCEPT ![p] = 1]
    /\ seen' = [seen EXCEPT ![p] = NothingSeen]
    /\ data' = [data EXCEPT ![p] = Nothing]

\* The memory of a process is gone.
Forget(p) ==
    /\ phase' = [phase EXCEPT ![p] = "none"]
    /\ asking' = [asking EXCEPT ![p] = FALSE]
    /\ StopReading(p)
    /\ cfg' = [cfg EXCEPT ![p] = Unset]
    /\ idx' = [idx EXCEPT ![p] = 1]
    /\ todo' = [todo EXCEPT ![p] = {}]
    /\ key' = [key EXCEPT ![p] = {}]
    /\ tries' = [tries EXCEPT ![p] = 0]
    /\ buf' = [buf EXCEPT ![p] = {}]
    /\ alike' = [alike EXCEPT ![p] = {}]
    /\ answer' = [answer EXCEPT ![p] = Unset]
    /\ said' = said \ {p}
    /\ saved' = saved \ {p}
    /\ disturbed' = disturbed \ {p}
    /\ stale' = stale \ {p}

\* The process ends.
Exit(p) ==
    /\ pc[p] = "ended"
    /\ Goto(p, "gone")
    /\ Forget(p)
    /\ UNCHANGED <<confs, auth, authThere, environment, leftovers, service, faults>>

\* The run is killed.
Kill(p) ==
    /\ pc[p] \notin {"idle", "ended", "killed", "gone"}
    /\ Fault
    /\ Goto(p, "killed")
    /\ envLost' = (envLost \/ pc[p] = "envWrite")
    /\ Forget(p)
    /\ UNCHANGED <<confs, auth, authThere, envFile, envAll, leftovers, service>>

-----------------------------------------------------------------------------
(* ReadConfig.                                                             *)

readCmdline == parseArgs(cmdline)

readFlagsFile == parseArgs(FlagTokens)

\* The host name and the keys that a provider left in /run/config.
readCloudConfig == Given["cloud"]

\* YAML, or a script, which becomes a file to write and a command to run.
readUserData == Given["userdata"]

Content(s) ==
    CASE s = "system"   -> sysConf
      [] s = "local"    -> localConf
      [] s = "cmdline"  -> readCmdline
      [] s = "flags"    -> readFlagsFile
      [] s = "cloud"    -> readCloudConfig
      [] s = "userdata" -> readUserData
      [] OTHER          -> Given[s]

\* One reader of merge; its data is normalised and merged.
ReadSource(p) ==
    /\ pc[p] = "read" /\ src[p] <= Len(Sources)
    /\ Content(Sources[src[p]]) # Garbage
    /\ LET new == normalizeData(Content(Sources[src[p]]))
       IN  /\ seen' = [seen EXCEPT ![p][src[p]] = new]
           /\ data' = [data EXCEPT ![p] = mergeData(@, new)]
    /\ src' = [src EXCEPT ![p] = @ + 1]
    /\ UNCHANGED <<confs, sshFile, environment, leftovers, service, pc, course,
                   idx, work, saving, faults>>

\* A reader's error ends ReadConfig; readCloudConfig ignores its errors.
ReadFails(p) ==
    /\ pc[p] = "read" /\ src[p] <= Len(Sources)
    /\ IF Sources[src[p]] = "cloud"
       THEN /\ Fault
            /\ src' = [src EXCEPT ![p] = @ + 1]
            /\ disturbed' = disturbed \cup {p}
            /\ UNCHANGED <<seen, data, pc, asking, idx>>
       ELSE /\ Fault \/ (Content(Sources[src[p]]) = Garbage /\ Works)
            /\ StopReading(p)
            /\ Finish(p, TRUE)
            /\ UNCHANGED disturbed
    /\ UNCHANGED <<confs, sshFile, environment, leftovers, service, phase, cfg,
                   said, work, alike, answer, saved>>

\* f is spelled in one way in all that p has read.
OneSpelling(p, f) ==
    \E s \in Spellings : \A n \in 1 .. Len(Sources) : \A t \in Spellings :
        seen[p][n][t][f] # {} => t = s

\* Fields that p may write into SystemConfig or LocalConfig under their snake-case
\* names without leaving them there, or elsewhere, with another value and name.
Alike(p) ==
    Simple \cup
    {f \in Fields :
        /\ OneSpelling(p, f)
        /\ \A n \in 1 .. Len(Sources) :
              Sources[n] = "local" => seen[p][n]["alias"][f] = {}}

\* decodeToObj, and the end of ReadConfig.
Decode(p) ==
    /\ pc[p] = "read" /\ src[p] > Len(Sources)
    /\ StopReading(p)
    /\ alike' = IF asking[p] THEN [alike EXCEPT ![p] = Alike(p)] ELSE alike
    /\ \E c \in Decodings(data[p]) :
          IF Fits(c)
          THEN /\ cfg' = [cfg EXCEPT ![p] = c]
               /\ Goto(p, IF asking[p] THEN "ask" ELSE "apply")
               /\ UNCHANGED <<asking, idx>>
          ELSE Finish(p, TRUE) /\ UNCHANGED cfg
    /\ UNCHANGED <<confs, sshFile, environment, leftovers, service, phase, said,
                   work, answer, saved, disturbed, faults>>

-----------------------------------------------------------------------------
(* Appliers.                                                               *)

\* An applier whose files nothing here reads back.
Plain(p) ==
    /\ \/ Works /\ Return(p, FALSE)
       \/ Fault /\ Return(p, TRUE)
    /\ UNCHANGED <<confs, sshFile, environment, leftovers, service, reading,
                   course, work, saving>>

\* ApplyModules, ApplySysctls and ApplyHostname.
ApplySettings(p) == Applier(p, "settings") /\ Plain(p)

\* ApplyDNS and ApplyWifi; ApplyDataSource, which BootApply calls before.
ApplyNetwork(p) == Applier(p, "network") /\ Plain(p)

\* ApplyRuncmd, ApplyBootcmd or ApplyInitcmd.  RunShell has no time limit: that the
\* step is taken assumes that the commands of the configuration return.
ApplyCommands(p) == Applier(p, "cmds") /\ Plain(p)

\* Setter.SetPassword, up to the temporary file.
ApplyPassword(p) ==
    /\ Applier(p, "password")
    /\ \/ cfg[p]["password"] = {} /\ Works /\ Return(p, FALSE) /\ UNCHANGED temps
       \/ /\ cfg[p]["password"] # {}
          /\ temps' = temps \cup {<<p, "shadow">>}
          /\ Works /\ Goto(p, "pwRename") /\ UNCHANGED idx
       \/ /\ cfg[p]["password"] # {}
          /\ Fault /\ Return(p, TRUE) /\ UNCHANGED temps
    /\ UNCHANGED <<confs, sshFile, environment, spilled, service, reading, course,
                   work, saving>>

\* Mutant: the temporary file stays when it cannot be renamed.
PasswordForgetsTemp(p) ==
    /\ pc[p] = "pwRename"
    /\ \/ Works /\ Return(p, FALSE) /\ temps' = temps \ {<<p, "shadow">>}
       \/ Fault /\ Return(p, TRUE) /\ UNCHANGED temps
    /\ UNCHANGED <<confs, sshFile, environment, spilled, service, reading, course,
                   work, saving>>

\* Write, Close, Chmod and Rename; the temporary file goes in any case.
RenameShadow(p) ==
    /\ pc[p] = "pwRename"
    /\ temps' = temps \ {<<p, "shadow">>}
    /\ \/ Works /\ Return(p, FALSE)
       \/ Fault /\ Return(p, TRUE)
    /\ UNCHANGED <<confs, sshFile, environment, spilled, service, reading, course,
                   work, saving>>

\* SetAuthorizedKeys, up to the loop over the keys.
ApplySSHKeys(p) ==
    /\ Applier(p, "ssh")
    /\ \/ /\ todo' = [todo EXCEPT ![p] = cfg[p]["keys"]]
          /\ Works /\ Goto(p, "sshKey") /\ UNCHANGED idx
       \/ Fault /\ Return(p, TRUE) /\ UNCHANGED todo
    /\ UNCHANGED <<confs, sshFile, environment, leftovers, service, reading,
                   course, key, tries, buf, saving>>

\* The loop of SetAuthorizedKeys, and getKey for a key that is not fetched.
\* BootApply has no network: a key that would be fetched is passed over.
NextKey(p) ==
    /\ pc[p] = "sshKey"
    /\ \/ todo[p] = {} /\ Return(p, FALSE) /\ UNCHANGED <<todo, key>>
       \/ /\ todo[p] # {}
          /\ LET k == CHOOSE k \in todo[p] : TRUE IN
             /\ todo' = [todo EXCEPT ![p] = @ \ {k}]
             /\ IF k \in Urls /\ phase[p] = "boot"
                THEN UNCHANGED <<key, pc>>
                ELSE /\ key' = [key EXCEPT ![p] = {k}]
                     /\ Goto(p, IF k \in Urls THEN "fetch" ELSE "sshStat")
             /\ UNCHANGED idx
    /\ UNCHANGED <<confs, sshFile, environment, leftovers, service, reading,
                   course, tries, buf, saving, faults>>

\* The key is done with, or its error logged: on to the next one.
KeyDone(p) ==
    /\ Goto(p, "sshKey")
    /\ key' = [key EXCEPT ![p] = {}]
    /\ tries' = [tries EXCEPT ![p] = 0]
    /\ buf' = [buf EXCEPT ![p] = {}]
    /\ UNCHANGED todo

\* Mutant: no limit to the attempts.
FetchUnlimited(p) ==
    /\ pc[p] = "fetch"
    /\ \/ Goto(p, "sshStat") /\ tries' = [tries EXCEPT ![p] = 0] /\ UNCHANGED <<todo, key, buf>>
       \/ KeyDone(p)
       \/ /\ tries' = [tries EXCEPT ![p] = @ + 1]
          /\ UNCHANGED <<pc, todo, key, buf>>
    /\ UNCHANGED <<confs, sshFile, environment, leftovers, service, reading,
                   course, idx, saving, faults>>

\* http.Get: the key, an empty or refused answer, or another attempt.
Fetch(p) ==
    /\ pc[p] = "fetch"
    /\ \/ Goto(p, "sshStat") /\ tries' = [tries EXCEPT ![p] = 0] /\ UNCHANGED <<todo, key, buf>>
       \/ KeyDone(p)
       \/ /\ tries[p] + 1 < MaxTries
          /\ tries' = [tries EXCEPT ![p] = @ + 1]
          /\ UNCHANGED <<pc, todo, key, buf>>
    /\ UNCHANGED <<confs, sshFile, environment, leftovers, service, reading,
                   course, idx, saving, faults>>

\* Runs that have looked at authorized_keys and will write it.
Looking == {q \in Procs : pc[q] \in {"sshCreate", "sshRename"}}

\* authorizeSSHKey: is there a file?
StatKeys(p) ==
    /\ pc[p] = "sshStat"
    /\ stale' = stale \ {p}
    /\ \/ Works /\ Goto(p, IF authThere THEN "sshRead" ELSE "sshCreate") /\ UNCHANGED work
       \/ Fault /\ KeyDone(p)
    /\ UNCHANGED <<confs, auth, authThere, environment, leftovers, service,
                   reading, course, idx, saving>>

\* Create truncates a file that has appeared in the meantime.
CreateKeys(p) ==
    /\ pc[p] = "sshCreate"
    /\ \/ /\ auth' = {} /\ authThere' = TRUE
          /\ stale' = (stale \cup Looking) \ {p}
          /\ \/ Works /\ Goto(p, "sshRead") /\ UNCHANGED work
             \/ Fault /\ KeyDone(p)
       \/ Fault /\ KeyDone(p) /\ UNCHANGED sshFile
    /\ UNCHANGED <<confs, environment, leftovers, service, reading, course,
                   idx, saving>>

\* The file is read; writeFileAtomic makes a temporary file.
ReadKeys(p) ==
    /\ pc[p] = "sshRead"
    /\ \/ /\ buf' = [buf EXCEPT ![p] = auth]
          /\ stale' = stale \ {p}
          /\ temps' = temps \cup {<<p, "ssh">>}
          /\ Works /\ Goto(p, "sshRename") /\ UNCHANGED <<todo, key, tries>>
       \/ Fault /\ KeyDone(p) /\ UNCHANGED <<stale, temps>>
    /\ UNCHANGED <<confs, auth, authThere, environment, spilled, service, reading,
                   course, idx, saving>>

\* Mutant: the key is written without what was read.
RenameKeyOnly(p) ==
    /\ pc[p] = "sshRename"
    /\ temps' = temps \ {<<p, "ssh">>}
    /\ auth' = key[p]
    /\ authThere' = TRUE
    /\ stale' = (stale \cup Looking) \ {p}
    /\ Works
    /\ KeyDone(p)
    /\ UNCHANGED <<confs, environment, spilled, service, reading, course, idx,
                   saving>>

\* Write, Chmod, Rename and Chown; the deferred Remove clears up.
RenameKeys(p) ==
    /\ pc[p] = "sshRename"
    /\ temps' = temps \ {<<p, "ssh">>}
    /\ \/ /\ auth' = buf[p] \cup key[p]
          /\ authThere' = TRUE
          /\ stale' = (stale \cup Looking) \ {p}
          /\ Works
       \/ Fault /\ UNCHANGED sshFile
    /\ KeyDone(p)
    /\ UNCHANGED <<confs, environment, spilled, service, reading, course, idx,
                   saving>>

\* WriteFiles: the loop over write_files.
ApplyWriteFiles(p) ==
    /\ Applier(p, "files")
    /\ todo' = [todo EXCEPT ![p] = cfg[p]["files"]]
    /\ Goto(p, "fileNext")
    /\ UNCHANGED <<confs, sshFile, environment, leftovers, service, reading,
                   course, idx, key, tries, buf, saving, faults>>

\* WriteFile up to the temporary file; an error is logged.
NextFile(p) ==
    /\ pc[p] = "fileNext"
    /\ \/ todo[p] = {} /\ Works /\ Return(p, FALSE) /\ UNCHANGED <<todo, temps>>
       \/ \E f \in todo[p] :
             /\ todo' = [todo EXCEPT ![p] = @ \ {f}]
             /\ \/ temps' = temps \cup {<<p, "file">>} /\ Works /\ Goto(p, "fileRename")
                \/ Fault /\ UNCHANGED <<temps, pc>>
             /\ UNCHANGED idx
    /\ UNCHANGED <<confs, sshFile, environment, spilled, service, reading, course,
                   key, tries, buf, saving>>

\* Write, Chmod, chown and Rename; on an error the temporary file stays.
RenameFile(p) ==
    /\ pc[p] = "fileRename"
    /\ \/ temps' = temps \ ({<<p, "file">>} \ spilled) /\ Works /\ UNCHANGED spilled
       \/ spilled' = spilled \cup {<<p, "file">>} /\ Fault /\ UNCHANGED temps
    /\ Goto(p, "fileNext")
    /\ UNCHANGED <<confs, sshFile, environment, service, reading, course, idx,
                   work, saving>>

ApplyEnvironment(p) ==
    /\ Applier(p, "env")
    /\ IF cfg[p]["env"] = {} THEN Return(p, FALSE)
                            ELSE Goto(p, "envRead") /\ UNCHANGED idx
    /\ UNCHANGED <<confs, sshFile, environment, leftovers, service, reading,
                   course, work, saving, faults>>

\* A file that cannot be read counts as empty.
ReadEnvironment(p) ==
    /\ pc[p] = "envRead"
    /\ \/ /\ buf' = [buf EXCEPT ![p] = envFile] /\ Works
          /\ envLost' = (envLost \/ \E q \in Procs \ {p} : pc[q] \in {"envTrunc", "envWrite"})
       \/ Fault /\ UNCHANGED buf /\ envLost' = TRUE
    /\ Goto(p, "envTrunc")
    /\ UNCHANGED <<confs, sshFile, envFile, envAll, leftovers, service, reading,
                   course, idx, todo, key, tries, saving>>

EnvironmentDone(p, err) ==
    Return(p, err) /\ buf' = [buf EXCEPT ![p] = {}] /\ UNCHANGED <<todo, key, tries>>

\* WriteFile truncates the file first.
TruncateEnvironment(p) ==
    /\ pc[p] = "envTrunc"
    /\ \/ envFile' = {} /\ Works /\ Goto(p, "envWrite") /\ UNCHANGED <<idx, work>>
       \/ Fault /\ EnvironmentDone(p, TRUE) /\ UNCHANGED envFile
    /\ UNCHANGED <<confs, sshFile, envLost, envAll, leftovers, service, reading,
                   course, saving>>

\* The names of the variables of environment.
Names(env) == {Key[x] : x \in env}

\* Mutant: the variables of the file are not kept.
WriteOwnEnvironment(p) ==
    /\ pc[p] = "envWrite"
    /\ envFile' = Names(cfg[p]["env"])
    /\ envAll' = envAll \cup Names(cfg[p]["env"])
    /\ Works
    /\ EnvironmentDone(p, FALSE)
    /\ UNCHANGED <<confs, sshFile, envLost, leftovers, service, reading, course, saving>>

WriteEnvironment(p) ==
    /\ pc[p] = "envWrite"
    /\ envAll' = envAll \cup Names(cfg[p]["env"])
    /\ \/ /\ envFile' = buf[p] \cup Names(cfg[p]["env"])
          /\ Works /\ EnvironmentDone(p, FALSE) /\ UNCHANGED envLost
       \/ Fault /\ EnvironmentDone(p, TRUE) /\ envLost' = TRUE /\ UNCHANGED envFile
    /\ UNCHANGED <<confs, sshFile, leftovers, service, reading, course, saving>>

\* In install mode the installer is run as a child; the parent waits for it.
\* The two share cfg here: in that mode the parent has no more use for its own.
ApplyInstall(p) ==
    /\ Applier(p, "install")
    /\ \/ mode # "install" /\ Works /\ Return(p, FALSE) /\ UNCHANGED asking
       \/ /\ mode = "install" /\ Works
          /\ asking' = [asking EXCEPT ![p] = TRUE]
          /\ Goto(p, "read") /\ UNCHANGED idx
       \/ Fault /\ Return(p, TRUE) /\ UNCHANGED asking
    /\ UNCHANGED <<confs, sshFile, environment, leftovers, service, reading, phase,
                   cfg, said, work, saving>>

\* ApplyK3S: where k3s is decides, with restart (all but BootApply) and install
\* (RunApply only), whether k3s-install.sh is run.
RunsScript(p, k3s) ==
    /\ mode # "install"
    /\ k3s = "sbin" \/ phase[p] # "boot"
    /\ k3s # "none" \/ phase[p] = "run"

ApplyK3S(p) ==
    /\ Applier(p, "k3s")
    /\ \/ \E k3s \in {"sbin", "local", "none"} :
             /\ service' = IF ~RunsScript(p, k3s) THEN service
                           ELSE IF cfg[p]["url"] = {} THEN "server" ELSE "agent"
             /\ Works /\ Return(p, FALSE)
       \/ Fault /\ Return(p, TRUE) /\ UNCHANGED service
    /\ UNCHANGED <<confs, sshFile, environment, leftovers, reading, course, work,
                   saving>>
=============================================================================
