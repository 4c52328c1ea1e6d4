---------------------------- MODULE InstallerProofs ----------------------------
(***************************************************************************)
(* What holds for any number of runs of `k3os config` and `k3os install`   *)
(* next to each other, of any configuration, from any sources.             *)
(*                                                                         *)
(* The invariant adds to the properties what they rest on: what a run has  *)
(* read of authorized_keys and of /etc/environment is still in the file,   *)
(* or the run is known to be out of date; what has been merged is what the *)
(* last reader that said something said; and a configuration that waits to *)
(* be confirmed is one that the questions ended with.  The answers need    *)
(* most of it: from the first reading of the sources, through the file     *)
(* that is truncated and written, to the second reading, the sources agree *)
(* on the value that is to take effect, but for the file that is being     *)
(* written.                                                                *)
(***************************************************************************)
EXTENDS Installer, TLAPS, SequenceTheorems

\* What the process p may do next.
Act(p) == Start(p) \/ Step(p) \/ Prompt(p) \/ Exit(p) \/ Kill(p)

\* The machine is one of those that are given.
MachineInv == \E m \in Machines : mode = m.mode /\ cmdline = m.cmdline

\* What SetAuthorizedKeys has read of authorized_keys, or seen of it, is still
\* true of those runs that are not out of date.
KeysInv ==
    /\ ~authThere => auth = {}
    /\ \A p \in Procs \ stale :
          /\ pc[p] = "sshCreate" => auth = {}
          /\ pc[p] = "sshRename" => auth \subseteq buf[p]

EnvPCs == {"envTrunc", "envWrite"}

\* If nothing went wrong, one run at a time is about to write /etc/environment, and
\* has all of it.
EnvInv ==
    ~envLost =>
        /\ \A p \in Procs : pc[p] \in EnvPCs => buf[p] = envAll
        /\ \A p, q \in Procs : pc[p] \in EnvPCs /\ pc[q] \in EnvPCs => p = q
        /\ (\A p \in Procs : pc[p] # "envWrite") => envFile = envAll

\* What the questions guarantee of a configuration that is to be installed.
Asked(c) == Has(c, "silent") \/ (Has(c, "device") /\ (Has(c, "configurl") \/ Login(c)))

ConfirmInv ==
    \A p \in Procs :
        /\ pc[p] = "confirm" => Asked(cfg[p])
        /\ pc[p] \in {"confTemp", "confWrite", "script"} =>
              Asked(cfg[p]) /\ (Has(cfg[p], "silent") \/ p \in said)

\* In spelling s of field f, got has of r what the last of all that says something of
\* it says.
LastOf(all, got, s, f, r) ==
    \/ /\ Of(f, got[s][f], r) = {}
       /\ \A i \in 1 .. Len(Sources) : Of(f, all[i][s][f], r) = {}
    \/ \E i \in 1 .. Len(Sources) :
          /\ Of(f, got[s][f], r) = Of(f, all[i][s][f], r) /\ Of(f, all[i][s][f], r) # {}
          /\ \A j \in 1 .. Len(Sources) : Of(f, all[j][s][f], r) # {} => j <= i

\* got is what is recorded in all.
Merged(all, got) ==
    \A s \in Spellings : \A f \in Fields : \A r \in Items : LastOf(all, got, s, f, r)

\* What has been said is all of Data.
AllData(all, got) == got \in Data /\ \A i \in 1 .. Len(Sources) : all[i] \in Data

\* got is what the readers below n have said, as recorded in all.
MergedFrom(n, all, got) ==
    /\ \A i \in 1 .. Len(Sources) : i >= n => all[i] = Nothing
    /\ Merged(all, got)

ReadInv == \A p \in Procs : MergedFrom(src[p], seen[p], data[p])

\* What the readers of ReadConfig would say now.
Saying == [n \in 1 .. Len(Sources) |-> normalizeData(Content(Sources[n]))]

\* The sources that say nothing of f but, perhaps, for the one at x.
Silent(say, f, x) ==
    \A n \in 1 .. Len(Sources) : \A t \in Spellings : n # x => say[n][t][f] = {}

\* A value of f counts in spelling t: for a field that has the name of its json tag
\* only snake case does.
Valid(f, t) == t = "snake" \/ f \notin Simple

\* The source at n is the last, but for the one at x, that has something of r in
\* spelling t, and that counts: what comes before x only does in the other spelling.
Counts(say, f, t, x, n, r) ==
    /\ Valid(f, t)
    /\ t = "alias" \/ n > x
    /\ n # x /\ Of(f, say[n][t][f], r) # {}
    /\ \A m \in 1 .. Len(Sources) : m # x /\ Of(f, say[m][t][f], r) # {} => m <= n

\* The sources agree on what v has of r, if the one at x says v in snake case.
AgreeOn(say, f, v, x, r) ==
    /\ Of(f, v, r) = {} =>
          \A n \in 1 .. Len(Sources) : \A t \in Spellings :
              n # x /\ Valid(f, t) => Of(f, say[n][t][f], r) = {}
    /\ \A t \in Spellings : \A n \in 1 .. Len(Sources) :
          Counts(say, f, t, x, n, r) => Of(f, say[n][t][f], r) = Of(f, v, r)

\* And on the value v of f as a whole.
Agree(say, f, v, x) ==
    /\ v = {} => Silent(say, f, x)
    /\ \A r \in Items : AgreeOn(say, f, v, x, r)

\* A value is somewhere in snake case.
Written(say, f, v) ==
    \A r \in Items : Of(f, v, r) # {} =>
        \E n \in 1 .. Len(Sources) : Of(f, say[n]["snake"][f], r) # {}

\* LocalConfig does not have f under another name, if that matters.
LocalPlain(say, f) ==
    f \notin Simple => \A n \in 1 .. Len(Sources) :
        Sources[n] = "local" => say[n]["alias"][f] = {}

\* The places of the two files that the installer writes.
SysPlace == 1
LocalPlace == 4

\* Inside the installer, and what it may lead to.
InstallerPCs ==
    {"ask", "saveCreate", "saveSys", "saveLocal", "confirm", "confTemp", "confWrite", "script"}

CourseInv ==
    \A p \in Procs :
        /\ idx[p] >= 1
        /\ pc[p] # "read" => src[p] = 1
        /\ pc[p] \in InstallerPCs => asking[p]
        /\ p \in saved => ~asking[p] /\ phase[p] = "install" /\ pc[p] # "idle"

\* What a run that is not disturbed has read still stands there.
SeenInv ==
    \A p \in Procs \ disturbed : pc[p] = "read" =>
        \A n \in 1 .. Len(Sources) : n < src[p] => seen[p][n] = Saying[n]

\* Field f of a run at l whose configuration has the value v there: the sources agree
\* on it, but for the file that is being written.
InFlight(l, say, f, v) ==
    /\ l \in {"ask", "saveCreate"} => Agree(say, f, v, 0) /\ LocalPlain(say, f)
    /\ l = "saveSys" => Agree(say, f, v, SysPlace)
    /\ l = "saveLocal" => Agree(say, f, v, LocalPlace)

\* The same when the answer is written: what is read again is the answer.
InForce(l, say, f, v, ans) ==
    /\ v = ans
    /\ l = "read" => Agree(say, f, ans, 0) /\ Written(say, f, ans)

\* The answers on their way: from the merged configuration through the file that is
\* written to the configuration that is applied.
AnswerInv ==
    \A p \in Procs \ disturbed : \A f \in alike[p] :
        /\ InFlight(pc[p], Saying, f, cfg[p][f])
        /\ p \in saved /\ f \notin InstallFields =>
              InForce(pc[p], Saying, f, cfg[p][f], answer[p][f])

IInv ==
    /\ TypeOK /\ MachineInv
    /\ NothingLeftBehind /\ KeysInv /\ EnvInv /\ ConfirmInv /\ ReadInv
    /\ CourseInv /\ SeenInv /\ AnswerInv

\* The parts of the type invariant.
ConfTypes ==
    /\ mode \in STRING /\ cmdline \in Seq([key : Fields, value : Items])
    /\ sysConf \in Raw \cup {Garbage} /\ localConf \in Raw \cup {Garbage}
    /\ service \in {"none", "server", "agent"}

FileTypes ==
    /\ auth \in SUBSET Items /\ authThere \in BOOLEAN
    /\ envFile \in SUBSET Items /\ envAll \in SUBSET Items /\ envLost \in BOOLEAN
    /\ temps \in SUBSET (Procs \X Kinds) /\ spilled \in SUBSET (Procs \X Kinds)

RunTypes ==
    /\ said \in SUBSET Procs /\ saved \in SUBSET Procs
    /\ disturbed \in SUBSET Procs /\ stale \in SUBSET Procs
    /\ alike \in [Procs -> SUBSET Fields]

PcTypes == pc \in [Procs -> PCs]

CourseTypes ==
    /\ phase \in [Procs -> Phases]
    /\ asking \in [Procs -> BOOLEAN]
    /\ idx \in [Procs -> Nat]
    /\ faults \in Nat

ReadTypes ==
    /\ src \in [Procs -> 1 .. Len(Sources) + 1]
    /\ seen \in [Procs -> [1 .. Len(Sources) -> Data]]
    /\ data \in [Procs -> Data]

CfgTypes == cfg \in [Procs -> Config] /\ answer \in [Procs -> Config]

WorkTypes ==
    /\ todo \in [Procs -> SUBSET Items]
    /\ key \in [Procs -> SUBSET Items]
    /\ tries \in [Procs -> 0 .. MaxTries]
    /\ buf \in [Procs -> SUBSET Items]

-----------------------------------------------------------------------------
(* The data.                                                               *)

\* normalizeData, mergeData, decodeToObj and yaml.Marshal keep the shape of what
\* they are given.
LEMMA NormalizeType ==
    ASSUME NEW raw \in Raw
    PROVE  normalizeData(raw) \in Data
  <1>1. raw["camel"] \in Config /\ raw["snake"] \in Config /\ raw["alias"] \in Config
    BY DEF Raw, Spellings
  <1>2. Over(raw["camel"], raw["snake"]) \in Config
    BY <1>1 DEF Over, Config
  <1> QED BY <1>1, <1>2 DEF normalizeData, Data, Spellings

\* The same of merging.
LEMMA MergeType ==
    ASSUME NEW dst \in Data, NEW new \in Data
    PROVE  mergeData(dst, new) \in Data
  <1>1. \A s \in Spellings : dst[s] \in Config /\ new[s] \in Config
    BY DEF Data
  <1>2. \A s \in Spellings : \A f \in Fields : dst[s][f] \in Values /\ new[s][f] \in Values
    BY <1>1 DEF Config
  <1>3. \A s \in Spellings : \A f \in Fields :
            new[s][f] \cup {x \in dst[s][f] : Of(f, new[s][f], x) = {}} \in Values
    BY <1>2 DEF Values
  <1> QED BY <1>3 DEF mergeData, Data, Config

\* The same of decoding.
LEMMA DecodeType ==
    ASSUME NEW d \in Data, NEW c \in Decodings(d)
    PROVE  c \in Config
  <1>1. d["snake"] \in Config /\ d["alias"] \in Config
    BY DEF Data, Spellings
  <1>2. PICK odd : c = Decoded(d, odd)
    BY DEF Decodings
  <1> QED BY <1>1, <1>2 DEF Decoded, Config

\* And of writing.
LEMMA MarshalType ==
    ASSUME NEW c \in Config
    PROVE  Marshal(c) \in Raw
  <1>1. Unset \in Config
    BY DEF Unset, Config, Values
  <1> QED BY <1>1 DEF Marshal, Raw

\* And of reading the kernel command line.
LEMMA ParseType ==
    ASSUME NEW tokens \in Seq([key : Fields, value : Items])
    PROVE  parseArgs(tokens) \in Raw
  <1>1. \A n \in DOMAIN tokens : tokens[n].value \in Items
    <2>1. \A n \in DOMAIN tokens : tokens[n] \in [key : Fields, value : Items]
      BY ElementOfSeq, LenProperties
    <2> QED BY <2>1
  <1>2. \A f \in Fields : Collected(tokens, f) \in Values
    BY <1>1 DEF Collected, Values
  <1>3. [f \in Fields |-> Collected(tokens, f)] \in Config
    BY <1>2 DEF Config
  <1> HIDE DEF Collected
  <1> QED BY <1>3, MarshalType DEF parseArgs

\* The members of a value.
LEMMA OfFacts ==
    ASSUME NEW f, NEW v, NEW r
    PROVE  /\ Of(f, v, r) \subseteq v
           /\ r \in v => r \in Of(f, v, r)
           /\ f \notin Maps => Of(f, v, r) = v
           /\ v = {} => Of(f, v, r) = {}
    BY DEF Of

\* A value is what it has of each of its members.
LEMMA OfAll ==
    ASSUME NEW f, NEW v \in Values, NEW w \in Values,
           \A r \in Items : Of(f, v, r) = Of(f, w, r)
    PROVE  v = w
  <1>1. \A r \in Items : r \in v <=> r \in w
    BY OfFacts
  <1> QED BY <1>1 DEF Values

\* Merging replaces, of every member, what is there.
LEMMA MergeOf ==
    ASSUME NEW dst \in Data, NEW new \in Data,
           NEW s \in Spellings, NEW f \in Fields, NEW r \in Items
    PROVE  Of(f, mergeData(dst, new)[s][f], r) =
              IF Of(f, new[s][f], r) # {} THEN Of(f, new[s][f], r) ELSE Of(f, dst[s][f], r)
  <1> DEFINE a == new[s][f]
             b == dst[s][f]
  <1>1. mergeData(dst, new)[s][f] = a \cup {x \in b : Of(f, a, x) = {}}
    BY DEF mergeData
  <1> HIDE DEF a, b
  <1>2. CASE Of(f, a, r) # {}
    BY <1>1, <1>2 DEF Of, a, b
  <1>3. CASE Of(f, a, r) = {}
    BY <1>1, <1>3 DEF Of, a, b
  <1> QED BY <1>2, <1>3 DEF a, b

\* A configuration that says nothing.
LEMMA NothingType == Unset \in Config /\ Nothing \in Data
    BY DEF Unset, Nothing, Config, Values, Data

\* An answer sets one field and leaves the others.
LEMMA AnsweredFacts ==
    ASSUME NEW c \in Config, NEW f \in AskFields
    PROVE  /\ Answered(c, f) \in Config
           /\ Has(Answered(c, f), f)
           /\ \A g \in Fields : ~Has(c, f) /\ Has(c, g) => Answered(c, f)[g] = c[g]
  <1>1. f \in Fields /\ {f} \in Values
    BY CloudAssumption DEF Values
  <1> QED BY <1>1 DEF Answered, Config, Has

\* The readers of ReadConfig, and those whose places are fixed.
Readers == {"cmdline", "flags"} \cup FileSources
FirstReaders == <<"system", "cmdline", "flags", "local", "cloud", "userdata">>

\* The two parts of Sources.
LEMMA ReaderParts == FirstReaders \in Seq(Readers) /\ ConfD \in Seq(Readers)
  <1>1. FirstReaders \in Seq(Readers)
    <2>1. /\ "system" \in Readers /\ "cmdline" \in Readers /\ "flags" \in Readers
          /\ "local" \in Readers /\ "cloud" \in Readers /\ "userdata" \in Readers
      BY DEF Readers, FileSources
    <2> QED BY <2>1 DEF FirstReaders
  <1>2. ConfD \in Seq(Readers)
    <2>1. ConfD \in Seq(STRING)
      BY CloudAssumption
    <2>2. Len(ConfD) \in Nat /\ DOMAIN ConfD = 1 .. Len(ConfD)
          /\ ConfD \in [1 .. Len(ConfD) -> STRING]
      BY <2>1, LenProperties
    <2>3. \A n \in 1 .. Len(ConfD) : ConfD[n] \in Readers
      BY <2>2 DEF FileSources, Readers
    <2>4. ConfD \in [1 .. Len(ConfD) -> Readers]
      BY <2>2, <2>3
    <2> QED BY <2>2, <2>4, SeqDef
  <1> QED BY <1>1, <1>2

\* The readers of ReadConfig.
LEMMA SourceFacts ==
    /\ Len(Sources) \in Nat
    /\ \A n \in 1 .. Len(Sources) : Sources[n] \in {"cmdline", "flags"} \cup FileSources
  <1>1. Sources \in Seq(Readers)
    BY ReaderParts, ConcatProperties DEF Sources, FirstReaders
  <1>2. Len(Sources) \in Nat /\ \A n \in 1 .. Len(Sources) : Sources[n] \in Readers
    BY <1>1, LenProperties, ElementOfSeq
  <1> QED BY <1>2 DEF Readers

\* What a reader returns, or a file that is not YAML.
LEMMA ContentType ==
    ASSUME IInv, NEW n \in 1 .. Len(Sources)
    PROVE  Content(Sources[n]) \in Raw \cup {Garbage}
  <1>1. sysConf \in Raw \cup {Garbage} /\ localConf \in Raw \cup {Garbage}
    BY DEF IInv, TypeOK
  <1>2. readCmdline \in Raw /\ readFlagsFile \in Raw
    BY CloudAssumption, ParseType DEF IInv, TypeOK, readCmdline, readFlagsFile
  <1>3. \A s \in FileSources : Given[s] \in Raw
    BY CloudAssumption
  <1>4. Sources[n] \in {"cmdline", "flags"} \cup FileSources
    BY SourceFacts
  <1>5. "cloud" \in FileSources /\ "userdata" \in FileSources
    BY DEF FileSources
  <1> QED BY <1>1, <1>2, <1>3, <1>4, <1>5 DEF Content, readCloudConfig, readUserData

-----------------------------------------------------------------------------
(* The questions.                                                          *)

\* A question yields a configuration that has at least what there was.
Extends(d, c) == d \in Config /\ \A g \in Fields : Has(c, g) => d[g] = c[g]

\* Questions one after the other.
LEMMA ExtendsTwice ==
    ASSUME NEW c, NEW d, NEW e, Extends(d, c), Extends(e, d)
    PROVE  Extends(e, c)
    BY DEF Extends, Has

\* The two kinds of questions.
LEMMA MayAskFacts ==
    ASSUME NEW c \in Config, NEW f \in AskFields, NEW d \in MayAsk(c, f)
    PROVE  Extends(d, c)
    BY AnsweredFacts DEF MayAsk, Extends

\* One that must be answered is.
LEMMA MustAskFacts ==
    ASSUME NEW c \in Config, NEW f \in AskFields, NEW d \in MustAsk(c, f)
    PROVE  Extends(d, c) /\ Has(d, f)
    BY AnsweredFacts DEF MustAsk, Extends

\* AskServerAgent and AskToken.
LEMMA ServerAnswers ==
    ASSUME NEW c \in Config, NEW d \in AskServerAgent(c)
    PROVE  Extends(d, c)
  <1>1. CASE Has(c, "url")
    BY <1>1 DEF AskServerAgent, Extends
  <1>2. CASE ~Has(c, "url")
    <2>1. PICK server \in isServer :
              d \in AskToken(IF server THEN c ELSE Answered(c, "url"), server)
      BY <1>2 DEF AskServerAgent
    <2> DEFINE e == IF server THEN c ELSE Answered(c, "url")
    <2>2. "url" \in AskFields /\ "token" \in AskFields
      BY DEF AskFields
    <2>3. Extends(e, c)
      BY <1>2, <2>2, AnsweredFacts DEF Extends
    <2>4. e \in Config
      BY <2>3 DEF Extends
    <2> HIDE DEF e
    <2>5. d \in MayAsk(e, "token") \/ d \in MustAsk(e, "token")
      BY <2>1 DEF AskToken, e
    <2>6. Extends(d, e)
      BY <2>2, <2>4, <2>5, MayAskFacts, MustAskFacts
    <2> QED BY <2>3, <2>6, ExtendsTwice
  <1> QED BY <1>1, <1>2

\* The questions that follow those for the device and the URL: somebody can log in.
LEMMA RestAnswers ==
    ASSUME NEW c \in Config, NEW d \in AskRest(c)
    PROVE  Extends(d, c) /\ Login(d)
  <1>1. PICK k \in AskGithub(c) :
            d \in UNION {UNION {AskServerAgent(e) : e \in AskWifi(a)} : a \in AskPassword(k)}
    BY DEF AskRest
  <1>a. PICK a \in AskPassword(k) : d \in UNION {AskServerAgent(e) : e \in AskWifi(a)}
    BY <1>1
  <1>w. PICK w \in AskWifi(a) : d \in AskServerAgent(w)
    BY <1>a
  <1>2. {"keys", "password", "wifi"} \subseteq AskFields /\ AskFields \subseteq Fields
    BY CloudAssumption DEF AskFields
  <1>3. Extends(k, c)
    BY <1>1, <1>2, MayAskFacts DEF AskGithub, Extends
  <1>4. k \in Config
    BY <1>3 DEF Extends
  <1>5. Extends(a, k) /\ Login(a)
    BY <1>a, <1>2, <1>4, AnsweredFacts DEF AskPassword, Extends, Login
  <1>6. a \in Config
    BY <1>5 DEF Extends
  <1>7. Extends(w, a)
    BY <1>w, <1>2, <1>6, MayAskFacts DEF AskWifi
  <1>8. w \in Config
    BY <1>7 DEF Extends
  <1>9. Extends(d, w)
    BY <1>w, <1>8, ServerAnswers
  <1>10. Extends(d, c) /\ Extends(d, a)
    BY <1>3, <1>5, <1>7, <1>9, ExtendsTwice
  <1> QED BY <1>2, <1>5, <1>10 DEF Extends, Login, Has

\* AskInstall ends with a device and a configuration to fetch or a way to log in,
\* unless it is to be silent.
LEMMA InstallAnswers ==
    ASSUME NEW c \in Config, NEW d \in AskInstall(c)
    PROVE  d \in Config /\ Asked(d)
  <1>1. CASE Has(c, "silent")
    BY <1>1 DEF AskInstall, Asked
  <1>2. CASE ~Has(c, "silent")
    <2>0. PICK u \in UNION {AskConfigURL(a) : a \in AskInstallDevice(c)} :
              d \in (IF Has(u, "configurl") THEN {u} ELSE AskRest(u))
      BY <1>2 DEF AskInstall
    <2>1. PICK a \in AskInstallDevice(c) : u \in AskConfigURL(a)
      BY <2>0
    <2>2. {"device", "configurl"} \subseteq AskFields /\ AskFields \subseteq Fields
      BY CloudAssumption DEF AskFields
    <2>3. Extends(a, c) /\ Has(a, "device")
      BY <2>1, <2>2, MustAskFacts DEF AskInstallDevice
    <2>4. a \in Config
      BY <2>3 DEF Extends
    <2>5. Extends(u, a)
      BY <2>1, <2>2, <2>4, MayAskFacts DEF AskConfigURL
    <2>6. u \in Config /\ Has(u, "device")
      BY <2>2, <2>3, <2>5 DEF Extends, Has
    <2>7. CASE Has(u, "configurl")
      BY <2>0, <2>6, <2>7 DEF Asked
    <2>8. CASE ~Has(u, "configurl")
      <3>1. Extends(d, u) /\ Login(d)
        BY <2>0, <2>6, <2>8, RestAnswers
      <3> QED BY <2>2, <2>6, <3>1 DEF Extends, Asked, Has
    <2> QED BY <2>7, <2>8
  <1> QED BY <1>1, <1>2

-----------------------------------------------------------------------------
(* The answers.                                                            *)

\* The two files that the installer writes are read at one place each.
LEMMA FilePlaces ==
    /\ Len(Sources) \in Nat
    /\ SysPlace \in 1 .. Len(Sources) /\ LocalPlace \in 1 .. Len(Sources)
    /\ \A n \in 1 .. Len(Sources) :
          /\ Sources[n] = "system" <=> n = SysPlace
          /\ Sources[n] = "local" <=> n = LocalPlace
  <1>1. Len(FirstReaders) = 6
    BY DEF FirstReaders
  <1>2. Len(ConfD) \in Nat /\ DOMAIN ConfD = 1 .. Len(ConfD)
    BY ReaderParts, LenProperties
  <1>3. \A i \in 1 .. Len(ConfD) : ConfD[i] # "system" /\ ConfD[i] # "local"
    BY <1>2, CloudAssumption
  <1>4. \A n \in 1 .. 6 :
            /\ FirstReaders[n] = "system" <=> n = 1
            /\ FirstReaders[n] = "local" <=> n = 4
    BY DEF FirstReaders
  <1>5. Len(Sources) = 6 + Len(ConfD)
    BY <1>1, ReaderParts, ConcatProperties DEF Sources, FirstReaders
  <1>6. \A n \in 1 .. Len(Sources) :
            Sources[n] = IF n <= 6 THEN FirstReaders[n] ELSE ConfD[n - 6]
    BY <1>1, ReaderParts, ConcatProperties DEF Sources, FirstReaders
  <1>7. ASSUME NEW n \in 1 .. Len(Sources)
        PROVE  (Sources[n] = "system" <=> n = 1) /\ (Sources[n] = "local" <=> n = 4)
    <2>1. CASE n <= 6
      BY <1>2, <1>4, <1>5, <1>6, <2>1
    <2>2. CASE ~(n <= 6)
      <3>1. n - 6 \in 1 .. Len(ConfD)
        BY <1>2, <1>5, <2>2
      <3>2. Sources[n] = ConfD[n - 6]
        BY <1>6, <2>2
      <3> QED BY <1>3, <2>2, <3>1, <3>2
    <2> QED BY <2>1, <2>2
  <1> QED BY <1>2, <1>5, <1>7 DEF SysPlace, LocalPlace

\* What a file says that the installer has written: c, in snake case.
SaysOnly(data_, c) ==
    \A f \in Fields : data_["snake"][f] = c[f] /\ data_["alias"][f] = {}

\* normalizeData undoes yaml.Marshal.
LEMMA MarshalSays ==
    ASSUME NEW c \in Config
    PROVE  SaysOnly(normalizeData(Marshal(c)), c)
  <1>1. Marshal(c)["snake"] = c /\ Marshal(c)["camel"] = Unset /\ Marshal(c)["alias"] = Unset
    BY DEF Marshal, Spellings
  <1> HIDE DEF Marshal
  <1>2. /\ normalizeData(Marshal(c))["snake"] = Over(Unset, c)
        /\ normalizeData(Marshal(c))["alias"] = Unset
    BY <1>1 DEF normalizeData, Spellings
  <1>3. \A f \in Fields : Over(Unset, c)[f] = c[f] /\ Unset[f] = {}
    BY DEF Over, Unset
  <1> QED BY <1>2, <1>3 DEF SaysOnly

\* The sources say the same as long as the files do.
LEMMA SayingKept ==
    ASSUME UNCHANGED <<cmdline, sysConf, localConf>>
    PROVE  Saying' = Saying
    BY DEF Saying, Content, readCmdline, readFlagsFile, readCloudConfig, readUserData

\* A file is written, and only that.
LEMMA SayingWritten ==
    ASSUME cmdline' = cmdline, NEW c \in Config, NEW x \in {SysPlace, LocalPlace},
           x = SysPlace => sysConf' = Marshal(c) /\ localConf' = localConf,
           x = LocalPlace => localConf' = Marshal(c) /\ sysConf' = sysConf
    PROVE  /\ SaysOnly(Saying'[x], c)
           /\ \A n \in 1 .. Len(Sources) : n # x => Saying'[n] = Saying[n]
  <1>1. x \in 1 .. Len(Sources) /\ SysPlace # LocalPlace
    BY FilePlaces DEF SysPlace, LocalPlace
  <1>2. Saying'[x] = normalizeData(Content(Sources[x])')
    BY <1>1 DEF Saying
  <1>3. Content(Sources[x])' = Marshal(c)
    <2>1. CASE x = SysPlace
      BY <1>1, <2>1, FilePlaces DEF Content
    <2>2. CASE x = LocalPlace
      BY <1>1, <2>2, FilePlaces DEF Content
    <2> QED BY <2>1, <2>2
  <1>4. SaysOnly(Saying'[x], c)
    BY <1>2, <1>3, MarshalSays
  <1>5. ASSUME NEW n \in 1 .. Len(Sources), n # x
        PROVE  Saying'[n] = Saying[n]
    <2>1. Content(Sources[n])' = Content(Sources[n])
      <3>1. CASE x = SysPlace
        BY <1>5, <3>1, FilePlaces DEF Content, readCmdline, readFlagsFile, readCloudConfig,
           readUserData
      <3>2. CASE x = LocalPlace
        BY <1>1, <1>5, <3>2, FilePlaces DEF Content, readCmdline, readFlagsFile,
           readCloudConfig, readUserData
      <3> QED BY <3>1, <3>2
    <2> QED BY <2>1 DEF Saying
  <1> QED BY <1>4, <1>5

\* A field that nobody sets may get any answer.
LEMMA AgreeAnswer ==
    ASSUME NEW say, NEW f, NEW v, Agree(say, f, {}, 0)
    PROVE  Agree(say, f, v, 0)
  <1>1. \A n \in 1 .. Len(Sources) : \A t \in Spellings : say[n][t][f] = {}
    BY FilePlaces DEF Agree, Silent
  <1>2. \A n \in 1 .. Len(Sources) : \A t \in Spellings : \A r \in Items :
            Of(f, say[n][t][f], r) = {}
    BY <1>1, OfFacts
  <1> QED BY <1>1, <1>2 DEF Agree, AgreeOn, Silent, Counts

\* One of the two files is truncated.
LEMMA AgreeCreate ==
    ASSUME NEW say, NEW now, NEW f, NEW v, NEW x \in {SysPlace, LocalPlace},
           Agree(say, f, v, 0), LocalPlain(say, f),
           \A n \in 1 .. Len(Sources) : n # x => now[n] = say[n]
    PROVE  Agree(now, f, v, x)
  <1>1. x \in 1 .. Len(Sources) /\ Len(Sources) \in Nat /\ SysPlace = 1
    BY FilePlaces DEF SysPlace
  <1>2. v = {} => Silent(now, f, x)
    BY <1>1 DEF Agree, Silent
  <1>3. ASSUME NEW r \in Items, NEW t \in Spellings, NEW n \in 1 .. Len(Sources),
               Counts(now, f, t, x, n, r)
        PROVE  Of(f, now[n][t][f], r) = Of(f, v, r)
    <2>1. n # x /\ now[n] = say[n] /\ Of(f, say[n][t][f], r) # {} /\ Valid(f, t)
      BY <1>3 DEF Counts, Valid
    <2>2. ~(n > x) => Of(f, say[x][t][f], r) = {}
      <3>1. ASSUME ~(n > x)
            PROVE  Of(f, say[x][t][f], r) = {}
        <4>1. t = "alias" /\ f \notin Simple
          BY <1>3, <3>1 DEF Counts, Valid
        <4>2. x = LocalPlace
          BY <1>1, <2>1, <3>1
        <4>3. say[x][t][f] = {}
          BY <1>1, <4>1, <4>2, FilePlaces DEF LocalPlain
        <4> QED BY <4>3, OfFacts
      <3> QED BY <3>1
    <2>3. \A m \in 1 .. Len(Sources) : Of(f, say[m][t][f], r) # {} => m <= n
      <3>1. \A m \in 1 .. Len(Sources) : m # x /\ Of(f, now[m][t][f], r) # {} => m <= n
        BY <1>3, Zenon DEF Counts
      <3>2. n > x => x <= n
        BY <1>1
      <3> QED BY <2>2, <3>1, <3>2, Zenon
    <2>4. Counts(say, f, t, 0, n, r)
      BY <1>1, <2>1, <2>3 DEF Counts, Valid
    <2> QED BY <2>1, <2>4 DEF Agree, AgreeOn
  <1>4. ASSUME NEW r \in Items, Of(f, v, r) = {},
               NEW n \in 1 .. Len(Sources), NEW t \in Spellings, n # x, Valid(f, t)
        PROVE  Of(f, now[n][t][f], r) = {}
    BY <1>1, <1>4 DEF Agree, AgreeOn
  <1> QED BY <1>2, <1>3, <1>4 DEF Agree, AgreeOn

\* And written.
LEMMA AgreeWrite ==
    ASSUME NEW say, NEW now, NEW f, NEW v, NEW x \in 1 .. Len(Sources),
           Agree(say, f, v, x),
           now[x]["snake"][f] = v, now[x]["alias"][f] = {},
           \A n \in 1 .. Len(Sources) : n # x => now[n] = say[n]
    PROVE  Agree(now, f, v, 0) /\ Written(now, f, v)
  <1>1. Len(Sources) \in Nat /\ "snake" \in Spellings /\ "alias" \in Spellings
    BY FilePlaces DEF Spellings
  <1>2. v = {} => Silent(now, f, 0)
    BY DEF Agree, Silent, Spellings
  <1>3. ASSUME NEW r \in Items, Of(f, v, r) = {},
               NEW n \in 1 .. Len(Sources), NEW t \in Spellings, Valid(f, t)
        PROVE  Of(f, now[n][t][f], r) = {}
    <2>1. CASE n = x
      <3>1. Of(f, now[x]["snake"][f], r) = {} /\ Of(f, now[x]["alias"][f], r) = {}
        BY <1>3, OfFacts
      <3> QED BY <2>1, <3>1 DEF Spellings
    <2>2. CASE n # x
      BY <1>3, <2>2 DEF Agree, AgreeOn
    <2> QED BY <2>1, <2>2
  <1>4. ASSUME NEW r \in Items, NEW t \in Spellings, NEW n \in 1 .. Len(Sources),
               Counts(now, f, t, 0, n, r)
        PROVE  Of(f, now[n][t][f], r) = Of(f, v, r)
    <2>a. Of(f, now[x]["alias"][f], r) = {} /\ Of(f, now[x]["snake"][f], r) = Of(f, v, r)
      BY OfFacts
    <2>b. Of(f, now[n][t][f], r) # {} /\ Valid(f, t)
      BY <1>4 DEF Counts, Valid
    <2>1. CASE n = x
      BY <2>1, <2>a, <2>b DEF Spellings
    <2>2. CASE n # x /\ (t = "alias" \/ n > x)
      <3>0. \A m \in 1 .. Len(Sources) : m # 0
        BY <1>1
      <3>1. Counts(say, f, t, x, n, r)
        BY <1>4, <2>2, <3>0, Zenon DEF Counts, Valid
      <3> QED BY <2>2, <3>1 DEF Agree, AgreeOn
    <2>3. CASE n < x /\ t = "snake"
      <3>1. Of(f, v, r) = {}
        BY <1>1, <1>4, <2>3, <2>a DEF Counts, Valid
      <3> QED BY <1>3, <2>b, <3>1
    <2> QED BY <1>1, <2>1, <2>2, <2>3 DEF Spellings
  <1>5. Written(now, f, v)
    BY DEF Written
  <1>6. ASSUME NEW r \in Items
        PROVE  AgreeOn(now, f, v, 0, r)
    BY <1>3, <1>4 DEF AgreeOn
  <1> QED BY <1>2, <1>5, <1>6 DEF Agree

\* What decodeToObj makes of a field.
LEMMA DecodedField ==
    ASSUME NEW d, NEW c \in Decodings(d), NEW f \in Fields
    PROVE  \/ c[f] = d["alias"][f] /\ d["snake"][f] = {}
           \/ c[f] = d["alias"][f] /\ d["alias"][f] # {} /\ f \notin Simple
           \/ c[f] = d["snake"][f] /\ d["snake"][f] # {}
  <1>1. PICK odd \in SUBSET Mixed(d) : c = Decoded(d, odd)
    BY DEF Decodings
  <1>2. f \in odd => f \notin Simple /\ d["alias"][f] # {}
    BY <1>1 DEF Mixed
  <1> QED BY <1>1, <1>2 DEF Decoded

\* Nothing is read and merged at first.
LEMMA MergedNothing == MergedFrom(1, NothingSeen, Nothing)
  <1>1. \A s \in Spellings : \A f \in Fields : Nothing[s][f] = {}
    BY DEF Nothing, Unset
  <1>2. \A n \in 1 .. Len(Sources) : NothingSeen[n] = Nothing
    BY DEF NothingSeen
  <1>3. ASSUME NEW s \in Spellings, NEW f \in Fields, NEW r \in Items
        PROVE  LastOf(NothingSeen, Nothing, s, f, r)
    <2>1. Of(f, Nothing[s][f], r) = {}
      BY <1>1, OfFacts
    <2> QED BY <1>2, <2>1 DEF LastOf
  <1> QED BY <1>2, <1>3 DEF MergedFrom, Merged

\* What is merged, in one spelling of one field.
LEMMA LastCounts ==
    ASSUME NEW all, NEW got, NEW t, NEW f, NEW r, LastOf(all, got, t, f, r),
           NEW k \in 1 .. Len(Sources), Counts(all, f, t, 0, k, r)
    PROVE  Of(f, got[t][f], r) = Of(f, all[k][t][f], r)
  <1>1. Len(Sources) \in Nat
    BY FilePlaces
  <1>2. /\ Of(f, all[k][t][f], r) # {}
        /\ \A m \in 1 .. Len(Sources) : Of(f, all[m][t][f], r) # {} => m <= k
    <2>1. \A m \in 1 .. Len(Sources) : m # 0
      BY <1>1
    <2> QED BY <2>1, Zenon DEF Counts
  <1>3. PICK i \in 1 .. Len(Sources) :
            /\ Of(f, got[t][f], r) = Of(f, all[i][t][f], r) /\ Of(f, all[i][t][f], r) # {}
            /\ \A j \in 1 .. Len(Sources) : Of(f, all[j][t][f], r) # {} => j <= i
    BY <1>2 DEF LastOf
  <1>4. k <= i /\ i <= k
    BY <1>2, <1>3
  <1>5. k = i
    BY <1>1, <1>4
  <1> QED BY <1>3, <1>5

\* A field for which nothing is merged is set nowhere, and the other way round.
LEMMA MergedEmpty ==
    ASSUME NEW all, NEW got, AllData(all, got), Merged(all, got),
           NEW t \in Spellings, NEW f \in Fields
    PROVE  got[t][f] = {} <=> \A i \in 1 .. Len(Sources) : all[i][t][f] = {}
  <1>1. got[t][f] \subseteq Items /\ \A i \in 1 .. Len(Sources) : all[i][t][f] \subseteq Items
    BY DEF AllData, Data, Config, Values
  <1>2. ASSUME got[t][f] = {}, NEW i \in 1 .. Len(Sources), NEW r \in all[i][t][f]
        PROVE  FALSE
    <2>1. r \in Items /\ r \in Of(f, all[i][t][f], r) /\ Of(f, got[t][f], r) = {}
      BY <1>1, <1>2, OfFacts
    <2>2. LastOf(all, got, t, f, r)
      BY <2>1 DEF MergedFrom, Merged
    <2> QED BY <1>2, <2>1, <2>2 DEF LastOf
  <1>3. ASSUME NEW r \in got[t][f], \A i \in 1 .. Len(Sources) : all[i][t][f] = {}
        PROVE  FALSE
    <2>1. r \in Items /\ r \in Of(f, got[t][f], r)
      BY <1>1, <1>3, OfFacts
    <2>2. \A i \in 1 .. Len(Sources) : Of(f, all[i][t][f], r) = {}
      BY <1>3, OfFacts
    <2>3. LastOf(all, got, t, f, r)
      BY <2>1 DEF MergedFrom, Merged
    <2> QED BY <2>1, <2>2, <2>3 DEF LastOf
  <1> QED BY <1>2, <1>3

\* The installer reads: a field that is spelled alike has the value that its sources
\* agree on.
LEMMA AgreeRead ==
    ASSUME NEW p \in Procs, AllData(seen[p], data[p]), Merged(seen[p], data[p]),
           NEW c \in Decodings(data[p]), NEW f \in Fields, f \in Alike(p)
    PROVE  Agree(seen[p], f, c[f], 0) /\ LocalPlain(seen[p], f)
  <1>1. "snake" \in Spellings /\ "alias" \in Spellings
    BY DEF Spellings
  <1>2. \A t \in Spellings : \A r \in Items : LastOf(seen[p], data[p], t, f, r)
    BY DEF MergedFrom, Merged
  <1>e. ASSUME NEW t \in Spellings
        PROVE  data[p][t][f] = {} <=> \A i \in 1 .. Len(Sources) : seen[p][i][t][f] = {}
    BY MergedEmpty
  <1>3. f \notin Simple => OneSpelling(p, f) /\ LocalPlain(seen[p], f) /\ f \notin Maps
    BY MergeAssumption DEF Alike, LocalPlain
  <1>4. f \notin Simple /\ data[p]["snake"][f] # {} => data[p]["alias"][f] = {}
    <2>1. ASSUME f \notin Simple, data[p]["snake"][f] # {}, data[p]["alias"][f] # {}
          PROVE  FALSE
      <3>1. /\ \E i \in 1 .. Len(Sources) : seen[p][i]["snake"][f] # {}
            /\ \E i \in 1 .. Len(Sources) : seen[p][i]["alias"][f] # {}
        BY <1>1, <1>e, <2>1
      <3> QED BY <1>1, <1>3, <2>1, <3>1 DEF OneSpelling
    <2> QED BY <2>1
  <1>5. \/ c[f] = data[p]["alias"][f] /\ data[p]["snake"][f] = {}
        \/ c[f] = data[p]["alias"][f] /\ data[p]["alias"][f] # {} /\ f \notin Simple
        \/ c[f] = data[p]["snake"][f] /\ data[p]["snake"][f] # {}
    BY DecodedField
  <1>6. c[f] = {} => Silent(seen[p], f, 0)
    BY <1>1, <1>e, <1>4, <1>5 DEF Silent, Spellings
  <1>7. ASSUME NEW r \in Items, NEW t \in Spellings, Of(f, data[p][t][f], r) # {}, Valid(f, t)
        PROVE  Of(f, data[p][t][f], r) = Of(f, c[f], r)
    <2>1. data[p][t][f] # {}
      BY <1>7, OfFacts
    <2>2. c[f] = data[p][t][f]
      <3>1. CASE t = "snake"
        BY <1>4, <1>5, <2>1, <3>1
      <3>2. CASE t = "alias"
        BY <1>4, <1>5, <1>7, <2>1, <3>2 DEF Valid
      <3> QED BY <3>1, <3>2 DEF Spellings
    <2> QED BY <2>2
  <1>8. LocalPlain(seen[p], f)
    BY <1>3 DEF LocalPlain
  <1>9. ASSUME NEW r \in Items
        PROVE  AgreeOn(seen[p], f, c[f], 0, r)
    <2>1. ASSUME Of(f, c[f], r) = {}, NEW n \in 1 .. Len(Sources), NEW t \in Spellings,
                 Valid(f, t)
          PROVE  Of(f, seen[p][n][t][f], r) = {}
      <3>1. Of(f, data[p][t][f], r) = {}
        BY <1>7, <2>1
      <3>2. LastOf(seen[p], data[p], t, f, r)
        BY <1>2
      <3> QED BY <3>1, <3>2 DEF LastOf
    <2>2. ASSUME NEW t \in Spellings, NEW n \in 1 .. Len(Sources),
                 Counts(seen[p], f, t, 0, n, r)
          PROVE  Of(f, seen[p][n][t][f], r) = Of(f, c[f], r)
      <3>1. Of(f, seen[p][n][t][f], r) # {} /\ Valid(f, t)
        BY <2>2 DEF Counts, Valid
      <3>2. Of(f, data[p][t][f], r) = Of(f, seen[p][n][t][f], r)
        BY <1>2, <2>2, LastCounts
      <3> QED BY <1>7, <3>1, <3>2
    <2> QED BY <2>1, <2>2 DEF AgreeOn
  <1> QED BY <1>6, <1>8, <1>9 DEF Agree

\* And reads again: what was written is what is applied.
LEMMA AgreeAgain ==
    ASSUME NEW all, NEW got, AllData(all, got), Merged(all, got),
           NEW c \in Decodings(got), NEW f \in Fields, NEW v \in Values,
           Agree(all, f, v, 0), Written(all, f, v)
    PROVE  c[f] = v
  <1>1. "snake" \in Spellings /\ "alias" \in Spellings /\ Len(Sources) \in Nat
    BY FilePlaces DEF Spellings
  <1>2. \/ c[f] = got["alias"][f] /\ got["snake"][f] = {}
        \/ c[f] = got["alias"][f] /\ got["alias"][f] # {} /\ f \notin Simple
        \/ c[f] = got["snake"][f] /\ got["snake"][f] # {}
    BY DecodedField
  <1>a. \A t \in Spellings : got[t][f] \in Values
    BY DEF AllData, Data, Config
  <1>3. ASSUME NEW t \in Spellings, Valid(f, t), NEW r \in Items, Of(f, got[t][f], r) # {}
        PROVE  Of(f, got[t][f], r) = Of(f, v, r)
    <2>0. LastOf(all, got, t, f, r)
      BY DEF MergedFrom, Merged
    <2>1. PICK i \in 1 .. Len(Sources) :
              /\ Of(f, got[t][f], r) = Of(f, all[i][t][f], r) /\ Of(f, all[i][t][f], r) # {}
              /\ \A j \in 1 .. Len(Sources) : Of(f, all[j][t][f], r) # {} => j <= i
      BY <1>3, <2>0 DEF LastOf
    <2>2. Counts(all, f, t, 0, i, r)
      <3>1. i > 0 /\ i # 0
        BY <1>1
      <3> QED BY <1>3, <2>1, <3>1, Zenon DEF Counts
    <2> QED BY <2>1, <2>2 DEF Agree, AgreeOn
  <1>4. ASSUME NEW r \in Items, Of(f, got["snake"][f], r) = {}
        PROVE  Of(f, v, r) = {}
    <2>1. \A i \in 1 .. Len(Sources) : Of(f, all[i]["snake"][f], r) = {}
      <3>1. LastOf(all, got, "snake", f, r)
        BY <1>1 DEF MergedFrom, Merged
      <3> QED BY <1>4, <3>1 DEF LastOf
    <2> QED BY <2>1 DEF Written
  <1>5. CASE got["snake"][f] = {}
    <2>1. \A r \in Items : Of(f, v, r) = {}
      BY <1>4, <1>5, OfFacts
    <2>2. v = {}
      BY <2>1, OfFacts DEF Values
    <2>3. \A i \in 1 .. Len(Sources) : all[i]["alias"][f] = {}
      BY <1>1, <2>2 DEF Agree, Silent
    <2>4. got["alias"][f] = {}
      BY <1>1, <2>3, MergedEmpty
    <2> QED BY <1>2, <1>5, <2>2, <2>4
  <1>6. CASE c[f] = got["snake"][f] /\ got["snake"][f] # {}
    <2>1. ASSUME NEW r \in Items
          PROVE  Of(f, got["snake"][f], r) = Of(f, v, r)
      BY <1>1, <1>3, <1>4 DEF Valid
    <2>2. got["snake"][f] = v
      BY <1>1, <1>a, <2>1, OfAll
    <2> QED BY <1>6, <2>2
  <1>7. CASE c[f] = got["alias"][f] /\ got["alias"][f] # {} /\ f \notin Simple
    <2>1. f \notin Maps
      BY <1>7, MergeAssumption
    <2>2. PICK r : r \in got["alias"][f]
      BY <1>7
    <2>3. r \in Items
      BY <1>1, <1>a, <2>2 DEF Values
    <2>4. Of(f, got["alias"][f], r) = got["alias"][f] /\ Of(f, v, r) = v
      BY <2>1, OfFacts
    <2>5. Of(f, got["alias"][f], r) = Of(f, v, r)
      BY <1>1, <1>3, <1>7, <2>3, <2>4 DEF Valid
    <2> QED BY <1>7, <2>4, <2>5
  <1> QED BY <1>2, <1>5, <1>6, <1>7

-----------------------------------------------------------------------------
(* The types.                                                              *)

\* The number of attempts to fetch a key.
LEMMA TriesNat == MaxTries \in Nat /\ 0 \in 0 .. MaxTries
  <1>1. MaxTries \in Nat
    BY CloudAssumption
  <1> QED BY <1>1

\* Where a temporary file is needed.
LEMMA TempFacts ==
    /\ TempPCs["shadow"] = {"pwRename"} /\ TempPCs["ssh"] = {"sshRename"}
    /\ TempPCs["file"] = {"fileRename"} /\ TempPCs["conf"] = {"confWrite", "script"}
    BY DEF TempPCs

\* The files of the machine keep their types.
LEMMA ConfTypesStep ==
    ASSUME IInv, NEW p \in Procs, Act(p)
    PROVE  ConfTypes'
  <1>a. ConfTypes
    BY DEF IInv, TypeOK, ConfTypes
  <1> USE NothingType, MarshalType, <1>a DEF ConfTypes, Goto, Then, Return, Finish,
     Works, Fault, KeyDone, EnvironmentDone, StopReading, Forget, Applier, confs,
     sshFile, environment, leftovers, reading, course, work, saving, frame
  <1>1. CASE Start(p)
    BY <1>1 DEF Start
  <1>2. CASE ReadSource(p)
    BY <1>2 DEF ReadSource
  <1>3. CASE ReadFails(p)
    BY <1>3 DEF ReadFails
  <1>4. CASE Decode(p)
    BY <1>4 DEF Decode
  <1>5. CASE ApplySettings(p)
    BY <1>5 DEF ApplySettings, Plain
  <1>6. CASE ApplyNetwork(p)
    BY <1>6 DEF ApplyNetwork, Plain
  <1>7. CASE ApplyCommands(p)
    BY <1>7 DEF ApplyCommands, Plain
  <1>8. CASE ApplyPassword(p)
    BY <1>8 DEF ApplyPassword
  <1>9. CASE RenameShadow(p)
    BY <1>9 DEF RenameShadow
  <1>10. CASE ApplySSHKeys(p)
    BY <1>10 DEF ApplySSHKeys
  <1>11. CASE NextKey(p)
    BY <1>11 DEF NextKey
  <1>12. CASE StatKeys(p)
    BY <1>12 DEF StatKeys
  <1>13. CASE CreateKeys(p)
    BY <1>13 DEF CreateKeys
  <1>14. CASE ReadKeys(p)
    BY <1>14 DEF ReadKeys
  <1>15. CASE RenameKeys(p)
    BY <1>15 DEF RenameKeys
  <1>16. CASE ApplyWriteFiles(p)
    BY <1>16 DEF ApplyWriteFiles
  <1>17. CASE NextFile(p)
    BY <1>17 DEF NextFile
  <1>18. CASE RenameFile(p)
    BY <1>18 DEF RenameFile
  <1>19. CASE ApplyEnvironment(p)
    BY <1>19 DEF ApplyEnvironment
  <1>20. CASE ReadEnvironment(p)
    BY <1>20 DEF ReadEnvironment
  <1>21. CASE TruncateEnvironment(p)
    BY <1>21 DEF TruncateEnvironment
  <1>22. CASE WriteEnvironment(p)
    BY <1>22 DEF WriteEnvironment
  <1>23. CASE ApplyInstall(p)
    BY <1>23 DEF ApplyInstall
  <1>24. CASE ApplyK3S(p)
    BY <1>24 DEF ApplyK3S
  <1>25. CASE CreateConfTemp(p)
    BY <1>25 DEF CreateConfTemp
  <1>26. CASE WriteConfTemp(p)
    BY <1>26 DEF WriteConfTemp
  <1>27. CASE SaveCreate(p)
    BY <1>27 DEF SaveCreate
  <1>28. CASE SaveWrite(p)
    <2>1. Saved(p) \in Config
      BY DEF IInv, TypeOK, Saved, Config, Values
    <2> QED BY <1>28, <2>1 DEF SaveWrite
  <1>29. CASE Ask(p)
    BY <1>29 DEF Ask
  <1>30. CASE Confirm(p)
    BY <1>30 DEF Confirm
  <1>31. CASE RunScript(p)
    BY <1>31 DEF RunScript
  <1>32. CASE Fetch(p)
    BY <1>32 DEF Fetch
  <1>33. CASE Exit(p)
    BY <1>33 DEF Exit
  <1>34. CASE Kill(p)
    BY <1>34 DEF Kill
  <1> QED BY <1>1, <1>2, <1>3, <1>4, <1>5, <1>6, <1>7, <1>8, <1>9, <1>10, <1>11, <1>12,
     <1>13, <1>14, <1>15, <1>16, <1>17, <1>18, <1>19, <1>20, <1>21, <1>22, <1>23, <1>24,
     <1>25, <1>26, <1>27, <1>28, <1>29, <1>30, <1>31, <1>32, <1>33, <1>34 DEF Act, Step,
     Prompt

\* So do the files that the appliers write.
LEMMA FileTypesStep ==
    ASSUME IInv, NEW p \in Procs, Act(p)
    PROVE  FileTypes'
  <1>a. FileTypes
    BY DEF IInv, TypeOK, FileTypes
  <1>b. WorkTypes
    BY DEF IInv, TypeOK, WorkTypes
  <1> USE <1>a, <1>b DEF FileTypes, WorkTypes, Kinds, Goto, Then, Return, Finish, Works,
     Fault, KeyDone, EnvironmentDone, StopReading, Forget, Applier, confs, sshFile,
     environment, leftovers, reading, course, work, saving, frame
  <1>1. CASE Start(p)
    BY <1>1 DEF Start
  <1>2. CASE ReadSource(p)
    BY <1>2 DEF ReadSource
  <1>3. CASE ReadFails(p)
    BY <1>3 DEF ReadFails
  <1>4. CASE Decode(p)
    BY <1>4 DEF Decode
  <1>5. CASE ApplySettings(p)
    BY <1>5 DEF ApplySettings, Plain
  <1>6. CASE ApplyNetwork(p)
    BY <1>6 DEF ApplyNetwork, Plain
  <1>7. CASE ApplyCommands(p)
    BY <1>7 DEF ApplyCommands, Plain
  <1>8. CASE ApplyPassword(p)
    BY <1>8 DEF ApplyPassword
  <1>9. CASE RenameShadow(p)
    BY <1>9 DEF RenameShadow
  <1>10. CASE ApplySSHKeys(p)
    BY <1>10 DEF ApplySSHKeys
  <1>11. CASE NextKey(p)
    BY <1>11 DEF NextKey
  <1>12. CASE StatKeys(p)
    BY <1>12 DEF StatKeys
  <1>13. CASE CreateKeys(p)
    BY <1>13 DEF CreateKeys
  <1>14. CASE ReadKeys(p)
    BY <1>14 DEF ReadKeys
  <1>15. CASE RenameKeys(p)
    BY <1>15 DEF RenameKeys
  <1>16. CASE ApplyWriteFiles(p)
    BY <1>16 DEF ApplyWriteFiles
  <1>17. CASE NextFile(p)
    BY <1>17 DEF NextFile
  <1>18. CASE RenameFile(p)
    BY <1>18 DEF RenameFile
  <1>19. CASE ApplyEnvironment(p)
    BY <1>19 DEF ApplyEnvironment
  <1>20. CASE ReadEnvironment(p)
    BY <1>20 DEF ReadEnvironment
  <1>21. CASE TruncateEnvironment(p)
    BY <1>21 DEF TruncateEnvironment
  <1>22. CASE WriteEnvironment(p)
    <2>1. Names(cfg[p]["env"]) \in SUBSET Items
      <3>1. cfg[p]["env"] \in SUBSET Items
        BY CloudAssumption DEF IInv, TypeOK, Config, Values
      <3> QED BY <3>1, MergeAssumption DEF Names
    <2> QED BY <1>22, <2>1 DEF WriteEnvironment
  <1>23. CASE ApplyInstall(p)
    BY <1>23 DEF ApplyInstall
  <1>24. CASE ApplyK3S(p)
    BY <1>24 DEF ApplyK3S
  <1>25. CASE CreateConfTemp(p)
    BY <1>25 DEF CreateConfTemp
  <1>26. CASE WriteConfTemp(p)
    BY <1>26 DEF WriteConfTemp
  <1>27. CASE SaveCreate(p)
    BY <1>27 DEF SaveCreate
  <1>28. CASE SaveWrite(p)
    BY <1>28 DEF SaveWrite
  <1>29. CASE Ask(p)
    BY <1>29 DEF Ask
  <1>30. CASE Confirm(p)
    BY <1>30 DEF Confirm
  <1>31. CASE RunScript(p)
    BY <1>31 DEF RunScript
  <1>32. CASE Fetch(p)
    BY <1>32 DEF Fetch
  <1>33. CASE Exit(p)
    BY <1>33 DEF Exit
  <1>34. CASE Kill(p)
    BY <1>34 DEF Kill
  <1> QED BY <1>1, <1>2, <1>3, <1>4, <1>5, <1>6, <1>7, <1>8, <1>9, <1>10, <1>11, <1>12,
     <1>13, <1>14, <1>15, <1>16, <1>17, <1>18, <1>19, <1>20, <1>21, <1>22, <1>23, <1>24,
     <1>25, <1>26, <1>27, <1>28, <1>29, <1>30, <1>31, <1>32, <1>33, <1>34 DEF Act, Step,
     Prompt

\* So do the sets of runs.
LEMMA RunTypesStep ==
    ASSUME IInv, NEW p \in Procs, Act(p)
    PROVE  RunTypes'
  <1>a. RunTypes
    BY DEF IInv, TypeOK, RunTypes
  <1> USE <1>a DEF RunTypes, Looking, Disturbs, Goto, Then, Return, Finish, Works,
     Fault, KeyDone, EnvironmentDone, StopReading, Forget, Applier, confs, sshFile,
     environment, leftovers, reading, course, work, saving, frame
  <1>1. CASE Start(p)
    BY <1>1 DEF Start
  <1>2. CASE ReadSource(p)
    BY <1>2 DEF ReadSource
  <1>3. CASE ReadFails(p)
    BY <1>3 DEF ReadFails
  <1>4. CASE Decode(p)
    <2>1. Alike(p) \in SUBSET Fields
      BY MergeAssumption DEF Alike
    <2> HIDE DEF Alike
    <2> QED BY <1>4, <2>1 DEF Decode
  <1>5. CASE ApplySettings(p)
    BY <1>5 DEF ApplySettings, Plain
  <1>6. CASE ApplyNetwork(p)
    BY <1>6 DEF ApplyNetwork, Plain
  <1>7. CASE ApplyCommands(p)
    BY <1>7 DEF ApplyCommands, Plain
  <1>8. CASE ApplyPassword(p)
    BY <1>8 DEF ApplyPassword
  <1>9. CASE RenameShadow(p)
    BY <1>9 DEF RenameShadow
  <1>10. CASE ApplySSHKeys(p)
    BY <1>10 DEF ApplySSHKeys
  <1>11. CASE NextKey(p)
    BY <1>11 DEF NextKey
  <1>12. CASE StatKeys(p)
    BY <1>12 DEF StatKeys
  <1>13. CASE CreateKeys(p)
    BY <1>13 DEF CreateKeys
  <1>14. CASE ReadKeys(p)
    BY <1>14 DEF ReadKeys
  <1>15. CASE RenameKeys(p)
    BY <1>15 DEF RenameKeys
  <1>16. CASE ApplyWriteFiles(p)
    BY <1>16 DEF ApplyWriteFiles
  <1>17. CASE NextFile(p)
    BY <1>17 DEF NextFile
  <1>18. CASE RenameFile(p)
    BY <1>18 DEF RenameFile
  <1>19. CASE ApplyEnvironment(p)
    BY <1>19 DEF ApplyEnvironment
  <1>20. CASE ReadEnvironment(p)
    BY <1>20 DEF ReadEnvironment
  <1>21. CASE TruncateEnvironment(p)
    BY <1>21 DEF TruncateEnvironment
  <1>22. CASE WriteEnvironment(p)
    BY <1>22 DEF WriteEnvironment
  <1>23. CASE ApplyInstall(p)
    BY <1>23 DEF ApplyInstall
  <1>24. CASE ApplyK3S(p)
    BY <1>24 DEF ApplyK3S
  <1>25. CASE CreateConfTemp(p)
    BY <1>25 DEF CreateConfTemp
  <1>26. CASE WriteConfTemp(p)
    BY <1>26 DEF WriteConfTemp
  <1>27. CASE SaveCreate(p)
    BY <1>27 DEF SaveCreate
  <1>28. CASE SaveWrite(p)
    BY <1>28 DEF SaveWrite
  <1>29. CASE Ask(p)
    BY <1>29 DEF Ask
  <1>30. CASE Confirm(p)
    BY <1>30 DEF Confirm
  <1>31. CASE RunScript(p)
    BY <1>31 DEF RunScript
  <1>32. CASE Fetch(p)
    BY <1>32 DEF Fetch
  <1>33. CASE Exit(p)
    BY <1>33 DEF Exit
  <1>34. CASE Kill(p)
    BY <1>34 DEF Kill
  <1> QED BY <1>1, <1>2, <1>3, <1>4, <1>5, <1>6, <1>7, <1>8, <1>9, <1>10, <1>11, <1>12,
     <1>13, <1>14, <1>15, <1>16, <1>17, <1>18, <1>19, <1>20, <1>21, <1>22, <1>23, <1>24,
     <1>25, <1>26, <1>27, <1>28, <1>29, <1>30, <1>31, <1>32, <1>33, <1>34 DEF Act, Step,
     Prompt

\* So does the position of a run.
LEMMA PcTypesStep ==
    ASSUME IInv, NEW p \in Procs, Act(p)
    PROVE  PcTypes'
  <1>a. PcTypes
    BY DEF IInv, TypeOK, PcTypes
  <1> USE <1>a DEF PcTypes, PCs, Confirmed, Goto, Then, Return, Finish, Works, Fault,
     KeyDone, EnvironmentDone, StopReading, Forget, Applier, confs, sshFile,
     environment, leftovers, reading, course, work, saving, frame
  <1>1. CASE Start(p)
    BY <1>1 DEF Start
  <1>2. CASE ReadSource(p)
    BY <1>2 DEF ReadSource
  <1>3. CASE ReadFails(p)
    BY <1>3 DEF ReadFails
  <1>4. CASE Decode(p)
    BY <1>4 DEF Decode
  <1>5. CASE ApplySettings(p)
    BY <1>5 DEF ApplySettings, Plain
  <1>6. CASE ApplyNetwork(p)
    BY <1>6 DEF ApplyNetwork, Plain
  <1>7. CASE ApplyCommands(p)
    BY <1>7 DEF ApplyCommands, Plain
  <1>8. CASE ApplyPassword(p)
    BY <1>8 DEF ApplyPassword
  <1>9. CASE RenameShadow(p)
    BY <1>9 DEF RenameShadow
  <1>10. CASE ApplySSHKeys(p)
    BY <1>10 DEF ApplySSHKeys
  <1>11. CASE NextKey(p)
    BY <1>11 DEF NextKey
  <1>12. CASE StatKeys(p)
    BY <1>12 DEF StatKeys
  <1>13. CASE CreateKeys(p)
    BY <1>13 DEF CreateKeys
  <1>14. CASE ReadKeys(p)
    BY <1>14 DEF ReadKeys
  <1>15. CASE RenameKeys(p)
    BY <1>15 DEF RenameKeys
  <1>16. CASE ApplyWriteFiles(p)
    BY <1>16 DEF ApplyWriteFiles
  <1>17. CASE NextFile(p)
    BY <1>17 DEF NextFile
  <1>18. CASE RenameFile(p)
    BY <1>18 DEF RenameFile
  <1>19. CASE ApplyEnvironment(p)
    BY <1>19 DEF ApplyEnvironment
  <1>20. CASE ReadEnvironment(p)
    BY <1>20 DEF ReadEnvironment
  <1>21. CASE TruncateEnvironment(p)
    BY <1>21 DEF TruncateEnvironment
  <1>22. CASE WriteEnvironment(p)
    BY <1>22 DEF WriteEnvironment
  <1>23. CASE ApplyInstall(p)
    BY <1>23 DEF ApplyInstall
  <1>24. CASE ApplyK3S(p)
    BY <1>24 DEF ApplyK3S
  <1>25. CASE CreateConfTemp(p)
    BY <1>25 DEF CreateConfTemp
  <1>26. CASE WriteConfTemp(p)
    BY <1>26 DEF WriteConfTemp
  <1>27. CASE SaveCreate(p)
    BY <1>27 DEF SaveCreate
  <1>28. CASE SaveWrite(p)
    BY <1>28 DEF SaveWrite
  <1>29. CASE Ask(p)
    BY <1>29 DEF Ask
  <1>30. CASE Confirm(p)
    BY <1>30 DEF Confirm
  <1>31. CASE RunScript(p)
    BY <1>31 DEF RunScript
  <1>32. CASE Fetch(p)
    BY <1>32 DEF Fetch
  <1>33. CASE Exit(p)
    BY <1>33 DEF Exit
  <1>34. CASE Kill(p)
    BY <1>34 DEF Kill
  <1> QED BY <1>1, <1>2, <1>3, <1>4, <1>5, <1>6, <1>7, <1>8, <1>9, <1>10, <1>11, <1>12,
     <1>13, <1>14, <1>15, <1>16, <1>17, <1>18, <1>19, <1>20, <1>21, <1>22, <1>23, <1>24,
     <1>25, <1>26, <1>27, <1>28, <1>29, <1>30, <1>31, <1>32, <1>33, <1>34 DEF Act, Step,
     Prompt

\* The position in the list of appliers is kept, goes on, or starts again.
LEMMA IdxStep ==
    ASSUME IInv, NEW p \in Procs, Act(p)
    PROVE  \/ idx' = idx
           \/ idx' = [idx EXCEPT ![p] = idx[p] + 1]
           \/ idx' = [idx EXCEPT ![p] = 1]
  <1> USE DEF Goto, Then, Return, Finish, Works, Fault, KeyDone, EnvironmentDone,
     StopReading, Forget, Applier, confs, sshFile, environment, leftovers, reading,
     course, work, saving, frame
  <1>1. CASE Start(p)
    BY <1>1 DEF Start
  <1>2. CASE ReadSource(p)
    BY <1>2 DEF ReadSource
  <1>3. CASE ReadFails(p)
    BY <1>3 DEF ReadFails
  <1>4. CASE Decode(p)
    BY <1>4 DEF Decode
  <1>5. CASE ApplySettings(p)
    BY <1>5 DEF ApplySettings, Plain
  <1>6. CASE ApplyNetwork(p)
    BY <1>6 DEF ApplyNetwork, Plain
  <1>7. CASE ApplyCommands(p)
    BY <1>7 DEF ApplyCommands, Plain
  <1>8. CASE ApplyPassword(p)
    BY <1>8 DEF ApplyPassword
  <1>9. CASE RenameShadow(p)
    BY <1>9 DEF RenameShadow
  <1>10. CASE ApplySSHKeys(p)
    BY <1>10 DEF ApplySSHKeys
  <1>11. CASE NextKey(p)
    BY <1>11 DEF NextKey
  <1>12. CASE StatKeys(p)
    BY <1>12 DEF StatKeys
  <1>13. CASE CreateKeys(p)
    BY <1>13 DEF CreateKeys
  <1>14. CASE ReadKeys(p)
    BY <1>14 DEF ReadKeys
  <1>15. CASE RenameKeys(p)
    BY <1>15 DEF RenameKeys
  <1>16. CASE ApplyWriteFiles(p)
    BY <1>16 DEF ApplyWriteFiles
  <1>17. CASE NextFile(p)
    BY <1>17 DEF NextFile
  <1>18. CASE RenameFile(p)
    BY <1>18 DEF RenameFile
  <1>19. CASE ApplyEnvironment(p)
    BY <1>19 DEF ApplyEnvironment
  <1>20. CASE ReadEnvironment(p)
    BY <1>20 DEF ReadEnvironment
  <1>21. CASE TruncateEnvironment(p)
    BY <1>21 DEF TruncateEnvironment
  <1>22. CASE WriteEnvironment(p)
    BY <1>22 DEF WriteEnvironment
  <1>23. CASE ApplyInstall(p)
    BY <1>23 DEF ApplyInstall
  <1>24. CASE ApplyK3S(p)
    BY <1>24 DEF ApplyK3S
  <1>25. CASE CreateConfTemp(p)
    BY <1>25 DEF CreateConfTemp
  <1>26. CASE WriteConfTemp(p)
    BY <1>26 DEF WriteConfTemp
  <1>27. CASE SaveCreate(p)
    BY <1>27 DEF SaveCreate
  <1>28. CASE SaveWrite(p)
    BY <1>28 DEF SaveWrite
  <1>29. CASE Ask(p)
    BY <1>29 DEF Ask
  <1>30. CASE Confirm(p)
    BY <1>30 DEF Confirm
  <1>31. CASE RunScript(p)
    BY <1>31 DEF RunScript
  <1>32. CASE Fetch(p)
    BY <1>32 DEF Fetch
  <1>33. CASE Exit(p)
    BY <1>33 DEF Exit
  <1>34. CASE Kill(p)
    BY <1>34 DEF Kill
  <1> QED BY <1>1, <1>2, <1>3, <1>4, <1>5, <1>6, <1>7, <1>8, <1>9, <1>10, <1>11, <1>12,
     <1>13, <1>14, <1>15, <1>16, <1>17, <1>18, <1>19, <1>20, <1>21, <1>22, <1>23, <1>24,
     <1>25, <1>26, <1>27, <1>28, <1>29, <1>30, <1>31, <1>32, <1>33, <1>34 DEF Act, Step,
     Prompt

\* Faults are counted.
LEMMA FaultsStep ==
    ASSUME IInv, NEW p \in Procs, Act(p)
    PROVE  faults' = faults \/ faults' = faults + 1
  <1> USE DEF Phases, Goto, Then, Return, Finish, Works, Fault, KeyDone,
     EnvironmentDone, StopReading, Forget, Applier, confs, sshFile, environment,
     leftovers, reading, course, work, saving, frame
  <1>1. CASE Start(p)
    BY <1>1 DEF Start
  <1>2. CASE ReadSource(p)
    BY <1>2 DEF ReadSource
  <1>3. CASE ReadFails(p)
    BY <1>3 DEF ReadFails
  <1>4. CASE Decode(p)
    BY <1>4 DEF Decode
  <1>5. CASE ApplySettings(p)
    BY <1>5 DEF ApplySettings, Plain
  <1>6. CASE ApplyNetwork(p)
    BY <1>6 DEF ApplyNetwork, Plain
  <1>7. CASE ApplyCommands(p)
    BY <1>7 DEF ApplyCommands, Plain
  <1>8. CASE ApplyPassword(p)
    BY <1>8 DEF ApplyPassword
  <1>9. CASE RenameShadow(p)
    BY <1>9 DEF RenameShadow
  <1>10. CASE ApplySSHKeys(p)
    BY <1>10 DEF ApplySSHKeys
  <1>11. CASE NextKey(p)
    BY <1>11 DEF NextKey
  <1>12. CASE StatKeys(p)
    BY <1>12 DEF StatKeys
  <1>13. CASE CreateKeys(p)
    BY <1>13 DEF CreateKeys
  <1>14. CASE ReadKeys(p)
    BY <1>14 DEF ReadKeys
  <1>15. CASE RenameKeys(p)
    BY <1>15 DEF RenameKeys
  <1>16. CASE ApplyWriteFiles(p)
    BY <1>16 DEF ApplyWriteFiles
  <1>17. CASE NextFile(p)
    BY <1>17 DEF NextFile
  <1>18. CASE RenameFile(p)
    BY <1>18 DEF RenameFile
  <1>19. CASE ApplyEnvironment(p)
    BY <1>19 DEF ApplyEnvironment
  <1>20. CASE ReadEnvironment(p)
    BY <1>20 DEF ReadEnvironment
  <1>21. CASE TruncateEnvironment(p)
    BY <1>21 DEF TruncateEnvironment
  <1>22. CASE WriteEnvironment(p)
    BY <1>22 DEF WriteEnvironment
  <1>23. CASE ApplyInstall(p)
    BY <1>23 DEF ApplyInstall
  <1>24. CASE ApplyK3S(p)
    BY <1>24 DEF ApplyK3S
  <1>25. CASE CreateConfTemp(p)
    BY <1>25 DEF CreateConfTemp
  <1>26. CASE WriteConfTemp(p)
    BY <1>26 DEF WriteConfTemp
  <1>27. CASE SaveCreate(p)
    BY <1>27 DEF SaveCreate
  <1>28. CASE SaveWrite(p)
    BY <1>28 DEF SaveWrite
  <1>29. CASE Ask(p)
    BY <1>29 DEF Ask
  <1>30. CASE Confirm(p)
    BY <1>30 DEF Confirm
  <1>31. CASE RunScript(p)
    BY <1>31 DEF RunScript
  <1>32. CASE Fetch(p)
    BY <1>32 DEF Fetch
  <1>33. CASE Exit(p)
    BY <1>33 DEF Exit
  <1>34. CASE Kill(p)
    BY <1>34 DEF Kill
  <1> QED BY <1>1, <1>2, <1>3, <1>4, <1>5, <1>6, <1>7, <1>8, <1>9, <1>10, <1>11, <1>12,
     <1>13, <1>14, <1>15, <1>16, <1>17, <1>18, <1>19, <1>20, <1>21, <1>22, <1>23, <1>24,
     <1>25, <1>26, <1>27, <1>28, <1>29, <1>30, <1>31, <1>32, <1>33, <1>34 DEF Act, Step,
     Prompt

\* A run is inside the installer or not.
LEMMA AskingStep ==
    ASSUME IInv, NEW p \in Procs, Act(p)
    PROVE  \/ asking' = asking
           \/ \E b \in BOOLEAN : asking' = [asking EXCEPT ![p] = b]
  <1> USE DEF Goto, Then, Return, Finish, Works, Fault, KeyDone, EnvironmentDone,
     StopReading, Forget, Applier, confs, sshFile, environment, leftovers, reading,
     course, work, saving, frame
  <1>1. CASE Start(p)
    BY <1>1 DEF Start
  <1>2. CASE ReadSource(p)
    BY <1>2 DEF ReadSource
  <1>3. CASE ReadFails(p)
    BY <1>3 DEF ReadFails
  <1>4. CASE Decode(p)
    BY <1>4 DEF Decode
  <1>5. CASE ApplySettings(p)
    BY <1>5 DEF ApplySettings, Plain
  <1>6. CASE ApplyNetwork(p)
    BY <1>6 DEF ApplyNetwork, Plain
  <1>7. CASE ApplyCommands(p)
    BY <1>7 DEF ApplyCommands, Plain
  <1>8. CASE ApplyPassword(p)
    BY <1>8 DEF ApplyPassword
  <1>9. CASE RenameShadow(p)
    BY <1>9 DEF RenameShadow
  <1>10. CASE ApplySSHKeys(p)
    BY <1>10 DEF ApplySSHKeys
  <1>11. CASE NextKey(p)
    BY <1>11 DEF NextKey
  <1>12. CASE StatKeys(p)
    BY <1>12 DEF StatKeys
  <1>13. CASE CreateKeys(p)
    BY <1>13 DEF CreateKeys
  <1>14. CASE ReadKeys(p)
    BY <1>14 DEF ReadKeys
  <1>15. CASE RenameKeys(p)
    BY <1>15 DEF RenameKeys
  <1>16. CASE ApplyWriteFiles(p)
    BY <1>16 DEF ApplyWriteFiles
  <1>17. CASE NextFile(p)
    BY <1>17 DEF NextFile
  <1>18. CASE RenameFile(p)
    BY <1>18 DEF RenameFile
  <1>19. CASE ApplyEnvironment(p)
    BY <1>19 DEF ApplyEnvironment
  <1>20. CASE ReadEnvironment(p)
    BY <1>20 DEF ReadEnvironment
  <1>21. CASE TruncateEnvironment(p)
    BY <1>21 DEF TruncateEnvironment
  <1>22. CASE WriteEnvironment(p)
    BY <1>22 DEF WriteEnvironment
  <1>23. CASE ApplyInstall(p)
    BY <1>23 DEF ApplyInstall
  <1>24. CASE ApplyK3S(p)
    BY <1>24 DEF ApplyK3S
  <1>25. CASE CreateConfTemp(p)
    BY <1>25 DEF CreateConfTemp
  <1>26. CASE WriteConfTemp(p)
    BY <1>26 DEF WriteConfTemp
  <1>27. CASE SaveCreate(p)
    BY <1>27 DEF SaveCreate
  <1>28. CASE SaveWrite(p)
    BY <1>28 DEF SaveWrite
  <1>29. CASE Ask(p)
    BY <1>29 DEF Ask
  <1>30. CASE Confirm(p)
    BY <1>30 DEF Confirm
  <1>31. CASE RunScript(p)
    BY <1>31 DEF RunScript
  <1>32. CASE Fetch(p)
    BY <1>32 DEF Fetch
  <1>33. CASE Exit(p)
    BY <1>33 DEF Exit
  <1>34. CASE Kill(p)
    BY <1>34 DEF Kill
  <1> QED BY <1>1, <1>2, <1>3, <1>4, <1>5, <1>6, <1>7, <1>8, <1>9, <1>10, <1>11, <1>12,
     <1>13, <1>14, <1>15, <1>16, <1>17, <1>18, <1>19, <1>20, <1>21, <1>22, <1>23, <1>24,
     <1>25, <1>26, <1>27, <1>28, <1>29, <1>30, <1>31, <1>32, <1>33, <1>34 DEF Act, Step,
     Prompt

\* The list of appliers.
LEMMA PhaseStep ==
    ASSUME IInv, NEW p \in Procs, Act(p)
    PROVE  \/ phase' = phase
           \/ phase' = [phase EXCEPT ![p] = "install"]
           \/ phase' = [phase EXCEPT ![p] = "none"]
  <1> USE DEF Goto, Then, Return, Finish, Works, Fault, KeyDone, EnvironmentDone,
     StopReading, Forget, Applier, confs, sshFile, environment, leftovers, reading,
     course, work, saving, frame
  <1>1. CASE Start(p)
    BY <1>1 DEF Start
  <1>2. CASE ReadSource(p)
    BY <1>2 DEF ReadSource
  <1>3. CASE ReadFails(p)
    BY <1>3 DEF ReadFails
  <1>4. CASE Decode(p)
    BY <1>4 DEF Decode
  <1>5. CASE ApplySettings(p)
    BY <1>5 DEF ApplySettings, Plain
  <1>6. CASE ApplyNetwork(p)
    BY <1>6 DEF ApplyNetwork, Plain
  <1>7. CASE ApplyCommands(p)
    BY <1>7 DEF ApplyCommands, Plain
  <1>8. CASE ApplyPassword(p)
    BY <1>8 DEF ApplyPassword
  <1>9. CASE RenameShadow(p)
    BY <1>9 DEF RenameShadow
  <1>10. CASE ApplySSHKeys(p)
    BY <1>10 DEF ApplySSHKeys
  <1>11. CASE NextKey(p)
    BY <1>11 DEF NextKey
  <1>12. CASE StatKeys(p)
    BY <1>12 DEF StatKeys
  <1>13. CASE CreateKeys(p)
    BY <1>13 DEF CreateKeys
  <1>14. CASE ReadKeys(p)
    BY <1>14 DEF ReadKeys
  <1>15. CASE RenameKeys(p)
    BY <1>15 DEF RenameKeys
  <1>16. CASE ApplyWriteFiles(p)
    BY <1>16 DEF ApplyWriteFiles
  <1>17. CASE NextFile(p)
    BY <1>17 DEF NextFile
  <1>18. CASE RenameFile(p)
    BY <1>18 DEF RenameFile
  <1>19. CASE ApplyEnvironment(p)
    BY <1>19 DEF ApplyEnvironment
  <1>20. CASE ReadEnvironment(p)
    BY <1>20 DEF ReadEnvironment
  <1>21. CASE TruncateEnvironment(p)
    BY <1>21 DEF TruncateEnvironment
  <1>22. CASE WriteEnvironment(p)
    BY <1>22 DEF WriteEnvironment
  <1>23. CASE ApplyInstall(p)
    BY <1>23 DEF ApplyInstall
  <1>24. CASE ApplyK3S(p)
    BY <1>24 DEF ApplyK3S
  <1>25. CASE CreateConfTemp(p)
    BY <1>25 DEF CreateConfTemp
  <1>26. CASE WriteConfTemp(p)
    BY <1>26 DEF WriteConfTemp
  <1>27. CASE SaveCreate(p)
    BY <1>27 DEF SaveCreate
  <1>28. CASE SaveWrite(p)
    BY <1>28 DEF SaveWrite
  <1>29. CASE Ask(p)
    BY <1>29 DEF Ask
  <1>30. CASE Confirm(p)
    BY <1>30 DEF Confirm
  <1>31. CASE RunScript(p)
    BY <1>31 DEF RunScript
  <1>32. CASE Fetch(p)
    BY <1>32 DEF Fetch
  <1>33. CASE Exit(p)
    BY <1>33 DEF Exit
  <1>34. CASE Kill(p)
    BY <1>34 DEF Kill
  <1> QED BY <1>1, <1>2, <1>3, <1>4, <1>5, <1>6, <1>7, <1>8, <1>9, <1>10, <1>11, <1>12,
     <1>13, <1>14, <1>15, <1>16, <1>17, <1>18, <1>19, <1>20, <1>21, <1>22, <1>23, <1>24,
     <1>25, <1>26, <1>27, <1>28, <1>29, <1>30, <1>31, <1>32, <1>33, <1>34 DEF Act, Step,
     Prompt

\* So the course of a run keeps its types.
LEMMA CourseTypesStep ==
    ASSUME IInv, NEW p \in Procs, Act(p)
    PROVE  CourseTypes'
  <1>a. CourseTypes
    BY DEF IInv, TypeOK, CourseTypes
  <1>1. idx' \in [Procs -> Nat]
    BY <1>a, IdxStep DEF CourseTypes
  <1>2. faults' \in Nat
    BY <1>a, FaultsStep DEF CourseTypes
  <1>3. asking' \in [Procs -> BOOLEAN]
    BY <1>a, AskingStep DEF CourseTypes
  <1>4. phase' \in [Procs -> Phases]
    BY <1>a, PhaseStep DEF CourseTypes, Phases
  <1> QED BY <1>1, <1>2, <1>3, <1>4 DEF CourseTypes

\* So does what is read.
LEMMA ReadTypesStep ==
    ASSUME IInv, NEW p \in Procs, Act(p)
    PROVE  ReadTypes'
  <1>a. ReadTypes
    BY DEF IInv, TypeOK, ReadTypes
  <1> USE NothingType, SourceFacts, <1>a DEF ReadTypes, NothingSeen, Goto, Then, Works,
     Fault, KeyDone, EnvironmentDone, StopReading, Forget, Applier, confs, sshFile,
     environment, leftovers, reading, course, work, saving, frame
  <1>1. CASE Start(p)
    BY <1>1 DEF Start
  <1>2. CASE ReadSource(p)
    <2> DEFINE n == src[p]
               new == normalizeData(Content(Sources[n]))
    <2>1. n \in 1 .. Len(Sources)
      BY <1>2 DEF ReadSource
    <2>2. new \in Data
      BY <1>2, <2>1, ContentType, NormalizeType DEF ReadSource
    <2>3. mergeData(data[p], new) \in Data
      BY <2>2, MergeType
    <2>4. /\ seen' = [seen EXCEPT ![p][n] = new]
          /\ data' = [data EXCEPT ![p] = mergeData(data[p], new)]
          /\ src' = [src EXCEPT ![p] = n + 1]
      BY <1>2 DEF ReadSource
    <2> HIDE DEF new, n
    <2>5. [seen[p] EXCEPT ![n] = new] \in [1 .. Len(Sources) -> Data]
      BY <2>1, <2>2
    <2>6. seen' \in [Procs -> [1 .. Len(Sources) -> Data]]
      BY <2>4, <2>5
    <2>7. data' \in [Procs -> Data]
      BY <2>3, <2>4
    <2>8. src' \in [Procs -> 1 .. Len(Sources) + 1]
      BY <2>1, <2>4
    <2> QED BY <2>6, <2>7, <2>8
  <1>3. CASE ReadFails(p)
    <2>1. CASE Sources[src[p]] = "cloud"
      <3>1. src[p] \in 1 .. Len(Sources) /\ src' = [src EXCEPT ![p] = src[p] + 1]
            /\ UNCHANGED <<seen, data>>
        BY <1>3, <2>1 DEF ReadFails
      <3>2. src' \in [Procs -> 1 .. Len(Sources) + 1]
        BY <3>1
      <3> QED BY <3>1, <3>2
    <2>2. CASE Sources[src[p]] # "cloud"
      <3>1. StopReading(p)
        BY <1>3, <2>2 DEF ReadFails
      <3> QED BY <3>1
    <2> QED BY <2>1, <2>2
  <1>4. CASE Decode(p)
    BY <1>4 DEF Decode
  <1>5. CASE ApplySettings(p)
    BY <1>5 DEF ApplySettings, Plain
  <1>6. CASE ApplyNetwork(p)
    BY <1>6 DEF ApplyNetwork, Plain
  <1>7. CASE ApplyCommands(p)
    BY <1>7 DEF ApplyCommands, Plain
  <1>8. CASE ApplyPassword(p)
    BY <1>8 DEF ApplyPassword
  <1>9. CASE RenameShadow(p)
    BY <1>9 DEF RenameShadow
  <1>10. CASE ApplySSHKeys(p)
    BY <1>10 DEF ApplySSHKeys
  <1>11. CASE NextKey(p)
    BY <1>11 DEF NextKey
  <1>12. CASE StatKeys(p)
    BY <1>12 DEF StatKeys
  <1>13. CASE CreateKeys(p)
    BY <1>13 DEF CreateKeys
  <1>14. CASE ReadKeys(p)
    BY <1>14 DEF ReadKeys
  <1>15. CASE RenameKeys(p)
    BY <1>15 DEF RenameKeys
  <1>16. CASE ApplyWriteFiles(p)
    BY <1>16 DEF ApplyWriteFiles
  <1>17. CASE NextFile(p)
    BY <1>17 DEF NextFile
  <1>18. CASE RenameFile(p)
    BY <1>18 DEF RenameFile
  <1>19. CASE ApplyEnvironment(p)
    BY <1>19 DEF ApplyEnvironment
  <1>20. CASE ReadEnvironment(p)
    BY <1>20 DEF ReadEnvironment
  <1>21. CASE TruncateEnvironment(p)
    BY <1>21 DEF TruncateEnvironment
  <1>22. CASE WriteEnvironment(p)
    BY <1>22 DEF WriteEnvironment
  <1>23. CASE ApplyInstall(p)
    BY <1>23 DEF ApplyInstall
  <1>24. CASE ApplyK3S(p)
    BY <1>24 DEF ApplyK3S
  <1>25. CASE CreateConfTemp(p)
    BY <1>25 DEF CreateConfTemp
  <1>26. CASE WriteConfTemp(p)
    BY <1>26 DEF WriteConfTemp
  <1>27. CASE SaveCreate(p)
    BY <1>27 DEF SaveCreate
  <1>28. CASE SaveWrite(p)
    BY <1>28 DEF SaveWrite
  <1>29. CASE Ask(p)
    BY <1>29 DEF Ask
  <1>30. CASE Confirm(p)
    BY <1>30 DEF Confirm
  <1>31. CASE RunScript(p)
    BY <1>31 DEF RunScript
  <1>32. CASE Fetch(p)
    BY <1>32 DEF Fetch
  <1>33. CASE Exit(p)
    BY <1>33 DEF Exit
  <1>34. CASE Kill(p)
    BY <1>34 DEF Kill
  <1> QED BY <1>1, <1>2, <1>3, <1>4, <1>5, <1>6, <1>7, <1>8, <1>9, <1>10, <1>11, <1>12,
     <1>13, <1>14, <1>15, <1>16, <1>17, <1>18, <1>19, <1>20, <1>21, <1>22, <1>23, <1>24,
     <1>25, <1>26, <1>27, <1>28, <1>29, <1>30, <1>31, <1>32, <1>33, <1>34 DEF Act, Step,
     Prompt

\* So does the configuration.
LEMMA CfgTypesStep ==
    ASSUME IInv, NEW p \in Procs, Act(p)
    PROVE  CfgTypes'
  <1>a. CfgTypes
    BY DEF IInv, TypeOK, CfgTypes
  <1> USE NothingType, <1>a DEF CfgTypes, Goto, Then, Return, Finish, Works, Fault,
     KeyDone, EnvironmentDone, StopReading, Forget, Applier, confs, sshFile,
     environment, leftovers, reading, course, work, saving, frame
  <1>1. CASE Start(p)
    BY <1>1 DEF Start
  <1>2. CASE ReadSource(p)
    BY <1>2 DEF ReadSource
  <1>3. CASE ReadFails(p)
    BY <1>3 DEF ReadFails
  <1>4. CASE Decode(p)
    <2>1. \A c \in Decodings(data[p]) : c \in Config
      BY DecodeType DEF IInv, TypeOK
    <2> QED BY <1>4, <2>1 DEF Decode
  <1>5. CASE ApplySettings(p)
    BY <1>5 DEF ApplySettings, Plain
  <1>6. CASE ApplyNetwork(p)
    BY <1>6 DEF ApplyNetwork, Plain
  <1>7. CASE ApplyCommands(p)
    BY <1>7 DEF ApplyCommands, Plain
  <1>8. CASE ApplyPassword(p)
    BY <1>8 DEF ApplyPassword
  <1>9. CASE RenameShadow(p)
    BY <1>9 DEF RenameShadow
  <1>10. CASE ApplySSHKeys(p)
    BY <1>10 DEF ApplySSHKeys
  <1>11. CASE NextKey(p)
    BY <1>11 DEF NextKey
  <1>12. CASE StatKeys(p)
    BY <1>12 DEF StatKeys
  <1>13. CASE CreateKeys(p)
    BY <1>13 DEF CreateKeys
  <1>14. CASE ReadKeys(p)
    BY <1>14 DEF ReadKeys
  <1>15. CASE RenameKeys(p)
    BY <1>15 DEF RenameKeys
  <1>16. CASE ApplyWriteFiles(p)
    BY <1>16 DEF ApplyWriteFiles
  <1>17. CASE NextFile(p)
    BY <1>17 DEF NextFile
  <1>18. CASE RenameFile(p)
    BY <1>18 DEF RenameFile
  <1>19. CASE ApplyEnvironment(p)
    BY <1>19 DEF ApplyEnvironment
  <1>20. CASE ReadEnvironment(p)
    BY <1>20 DEF ReadEnvironment
  <1>21. CASE TruncateEnvironment(p)
    BY <1>21 DEF TruncateEnvironment
  <1>22. CASE WriteEnvironment(p)
    BY <1>22 DEF WriteEnvironment
  <1>23. CASE ApplyInstall(p)
    BY <1>23 DEF ApplyInstall
  <1>24. CASE ApplyK3S(p)
    BY <1>24 DEF ApplyK3S
  <1>25. CASE CreateConfTemp(p)
    BY <1>25 DEF CreateConfTemp
  <1>26. CASE WriteConfTemp(p)
    BY <1>26 DEF WriteConfTemp
  <1>27. CASE SaveCreate(p)
    BY <1>27 DEF SaveCreate
  <1>28. CASE SaveWrite(p)
    <2>1. Saved(p) \in Config
      BY DEF Saved, Config, Values
    <2> QED BY <1>28, <2>1 DEF SaveWrite
  <1>29. CASE Ask(p)
    <2>1. \A c \in AskInstall(cfg[p]) \cup AskServerAgent(cfg[p]) : c \in Config
      BY InstallAnswers, ServerAnswers DEF Extends
    <2> QED BY <1>29, <2>1 DEF Ask
  <1>30. CASE Confirm(p)
    BY <1>30 DEF Confirm
  <1>31. CASE RunScript(p)
    BY <1>31 DEF RunScript
  <1>32. CASE Fetch(p)
    BY <1>32 DEF Fetch
  <1>33. CASE Exit(p)
    BY <1>33 DEF Exit
  <1>34. CASE Kill(p)
    BY <1>34 DEF Kill
  <1> QED BY <1>1, <1>2, <1>3, <1>4, <1>5, <1>6, <1>7, <1>8, <1>9, <1>10, <1>11, <1>12,
     <1>13, <1>14, <1>15, <1>16, <1>17, <1>18, <1>19, <1>20, <1>21, <1>22, <1>23, <1>24,
     <1>25, <1>26, <1>27, <1>28, <1>29, <1>30, <1>31, <1>32, <1>33, <1>34 DEF Act, Step,
     Prompt

\* So does what an applier is at.
LEMMA WorkTypesStep ==
    ASSUME IInv, NEW p \in Procs, Act(p)
    PROVE  WorkTypes'
  <1>a. WorkTypes
    BY DEF IInv, TypeOK, WorkTypes
  <1> USE TriesNat, <1>a DEF WorkTypes, Goto, Then, Works, Fault, KeyDone,
     EnvironmentDone, StopReading, Forget, Applier, confs, sshFile, environment,
     leftovers, reading, course, work, saving, frame
  <1>1. CASE Start(p)
    BY <1>1 DEF Start
  <1>2. CASE ReadSource(p)
    BY <1>2 DEF ReadSource
  <1>3. CASE ReadFails(p)
    BY <1>3 DEF ReadFails
  <1>4. CASE Decode(p)
    BY <1>4 DEF Decode
  <1>5. CASE ApplySettings(p)
    BY <1>5 DEF ApplySettings, Plain
  <1>6. CASE ApplyNetwork(p)
    BY <1>6 DEF ApplyNetwork, Plain
  <1>7. CASE ApplyCommands(p)
    BY <1>7 DEF ApplyCommands, Plain
  <1>8. CASE ApplyPassword(p)
    BY <1>8 DEF ApplyPassword
  <1>9. CASE RenameShadow(p)
    BY <1>9 DEF RenameShadow
  <1>10. CASE ApplySSHKeys(p)
    <2>1. cfg[p]["keys"] \in SUBSET Items
      BY CloudAssumption DEF IInv, TypeOK, Config, Values, AskFields
    <2> QED BY <1>10, <2>1 DEF ApplySSHKeys
  <1>11. CASE NextKey(p)
    <2>1. CASE todo[p] = {}
      BY <1>11, <2>1 DEF NextKey
    <2>2. CASE todo[p] # {}
      <3> DEFINE k == CHOOSE k \in todo[p] : TRUE
      <3>1. k \in todo[p]
        BY <2>2
      <3>2. {k} \in SUBSET Items /\ todo[p] \ {k} \in SUBSET Items
        BY <3>1
      <3>3. /\ todo' = [todo EXCEPT ![p] = todo[p] \ {k}]
            /\ key' = key \/ key' = [key EXCEPT ![p] = {k}]
            /\ UNCHANGED <<tries, buf>>
        BY <1>11, <2>2 DEF NextKey
      <3> HIDE DEF k
      <3>4. todo' \in [Procs -> SUBSET Items]
        BY <3>2, <3>3
      <3>5. key' \in [Procs -> SUBSET Items]
        BY <3>2, <3>3
      <3> QED BY <3>3, <3>4, <3>5
    <2> QED BY <2>1, <2>2
  <1>12. CASE StatKeys(p)
    BY <1>12 DEF StatKeys
  <1>13. CASE CreateKeys(p)
    BY <1>13 DEF CreateKeys
  <1>14. CASE ReadKeys(p)
    <2>1. auth \in SUBSET Items
      BY DEF IInv, TypeOK
    <2> QED BY <1>14, <2>1 DEF ReadKeys
  <1>15. CASE RenameKeys(p)
    BY <1>15 DEF RenameKeys
  <1>16. CASE ApplyWriteFiles(p)
    <2>1. cfg[p]["files"] \in SUBSET Items
      BY CloudAssumption DEF IInv, TypeOK, Config, Values
    <2> QED BY <1>16, <2>1 DEF ApplyWriteFiles
  <1>17. CASE NextFile(p)
    BY <1>17 DEF NextFile
  <1>18. CASE RenameFile(p)
    BY <1>18 DEF RenameFile
  <1>19. CASE ApplyEnvironment(p)
    BY <1>19 DEF ApplyEnvironment
  <1>20. CASE ReadEnvironment(p)
    <2>1. envFile \in SUBSET Items
      BY DEF IInv, TypeOK
    <2> QED BY <1>20, <2>1 DEF ReadEnvironment
  <1>21. CASE TruncateEnvironment(p)
    BY <1>21 DEF TruncateEnvironment
  <1>22. CASE WriteEnvironment(p)
    BY <1>22 DEF WriteEnvironment
  <1>23. CASE ApplyInstall(p)
    BY <1>23 DEF ApplyInstall
  <1>24. CASE ApplyK3S(p)
    BY <1>24 DEF ApplyK3S
  <1>25. CASE CreateConfTemp(p)
    BY <1>25 DEF CreateConfTemp
  <1>26. CASE WriteConfTemp(p)
    BY <1>26 DEF WriteConfTemp
  <1>27. CASE SaveCreate(p)
    BY <1>27 DEF SaveCreate
  <1>28. CASE SaveWrite(p)
    BY <1>28 DEF SaveWrite
  <1>29. CASE Ask(p)
    BY <1>29 DEF Ask
  <1>30. CASE Confirm(p)
    BY <1>30 DEF Confirm
  <1>31. CASE RunScript(p)
    BY <1>31 DEF RunScript
  <1>32. CASE Fetch(p)
    BY <1>32 DEF Fetch
  <1>33. CASE Exit(p)
    BY <1>33 DEF Exit
  <1>34. CASE Kill(p)
    BY <1>34 DEF Kill
  <1> QED BY <1>1, <1>2, <1>3, <1>4, <1>5, <1>6, <1>7, <1>8, <1>9, <1>10, <1>11, <1>12,
     <1>13, <1>14, <1>15, <1>16, <1>17, <1>18, <1>19, <1>20, <1>21, <1>22, <1>23, <1>24,
     <1>25, <1>26, <1>27, <1>28, <1>29, <1>30, <1>31, <1>32, <1>33, <1>34 DEF Act, Step,
     Prompt

-----------------------------------------------------------------------------
(* The properties.                                                         *)

\* No step changes the machine.
LEMMA MachineStep ==
    ASSUME IInv, NEW p \in Procs, Act(p)
    PROVE  MachineInv'
  <1> USE DEF IInv, MachineInv, Goto, Then, Return, Finish, Works, Fault, KeyDone,
     EnvironmentDone, StopReading, Forget, Applier, confs, sshFile, environment,
     leftovers, reading, course, work, saving, frame
  <1>1. CASE Start(p)
    BY <1>1 DEF Start
  <1>2. CASE ReadSource(p)
    BY <1>2 DEF ReadSource
  <1>3. CASE ReadFails(p)
    BY <1>3 DEF ReadFails
  <1>4. CASE Decode(p)
    BY <1>4 DEF Decode
  <1>5. CASE ApplySettings(p)
    BY <1>5 DEF ApplySettings, Plain
  <1>6. CASE ApplyNetwork(p)
    BY <1>6 DEF ApplyNetwork, Plain
  <1>7. CASE ApplyCommands(p)
    BY <1>7 DEF ApplyCommands, Plain
  <1>8. CASE ApplyPassword(p)
    BY <1>8 DEF ApplyPassword
  <1>9. CASE RenameShadow(p)
    BY <1>9 DEF RenameShadow
  <1>10. CASE ApplySSHKeys(p)
    BY <1>10 DEF ApplySSHKeys
  <1>11. CASE NextKey(p)
    BY <1>11 DEF NextKey
  <1>12. CASE StatKeys(p)
    BY <1>12 DEF StatKeys
  <1>13. CASE CreateKeys(p)
    BY <1>13 DEF CreateKeys
  <1>14. CASE ReadKeys(p)
    BY <1>14 DEF ReadKeys
  <1>15. CASE RenameKeys(p)
    BY <1>15 DEF RenameKeys
  <1>16. CASE ApplyWriteFiles(p)
    BY <1>16 DEF ApplyWriteFiles
  <1>17. CASE NextFile(p)
    BY <1>17 DEF NextFile
  <1>18. CASE RenameFile(p)
    BY <1>18 DEF RenameFile
  <1>19. CASE ApplyEnvironment(p)
    BY <1>19 DEF ApplyEnvironment
  <1>20. CASE ReadEnvironment(p)
    BY <1>20 DEF ReadEnvironment
  <1>21. CASE TruncateEnvironment(p)
    BY <1>21 DEF TruncateEnvironment
  <1>22. CASE WriteEnvironment(p)
    BY <1>22 DEF WriteEnvironment
  <1>23. CASE ApplyInstall(p)
    BY <1>23 DEF ApplyInstall
  <1>24. CASE ApplyK3S(p)
    BY <1>24 DEF ApplyK3S
  <1>25. CASE CreateConfTemp(p)
    BY <1>25 DEF CreateConfTemp
  <1>26. CASE WriteConfTemp(p)
    BY <1>26 DEF WriteConfTemp
  <1>27. CASE SaveCreate(p)
    BY <1>27 DEF SaveCreate
  <1>28. CASE SaveWrite(p)
    BY <1>28 DEF SaveWrite
  <1>29. CASE Ask(p)
    BY <1>29 DEF Ask
  <1>30. CASE Confirm(p)
    BY <1>30 DEF Confirm
  <1>31. CASE RunScript(p)
    BY <1>31 DEF RunScript
  <1>32. CASE Fetch(p)
    BY <1>32 DEF Fetch
  <1>33. CASE Exit(p)
    BY <1>33 DEF Exit
  <1>34. CASE Kill(p)
    BY <1>34 DEF Kill
  <1> QED BY <1>1, <1>2, <1>3, <1>4, <1>5, <1>6, <1>7, <1>8, <1>9, <1>10, <1>11, <1>12,
     <1>13, <1>14, <1>15, <1>16, <1>17, <1>18, <1>19, <1>20, <1>21, <1>22, <1>23, <1>24,
     <1>25, <1>26, <1>27, <1>28, <1>29, <1>30, <1>31, <1>32, <1>33, <1>34 DEF Act, Step,
     Prompt

\* A temporary file goes with its step, is told of, or its run was killed.
LEMMA TempsStep ==
    ASSUME IInv, NEW p \in Procs, Act(p)
    PROVE  NothingLeftBehind'
  <1>a. PcTypes
    BY DEF IInv, TypeOK, PcTypes
  <1> USE TempFacts, <1>a DEF PcTypes, NothingLeftBehind, Kinds, Confirmed, IInv, Goto,
     Then, Return, Finish, Works, Fault, KeyDone, EnvironmentDone, StopReading, Forget,
     Applier, confs, sshFile, environment, leftovers, reading, course, work, saving,
     frame
  <1>1. CASE Start(p)
    BY <1>1 DEF Start
  <1>2. CASE ReadSource(p)
    BY <1>2 DEF ReadSource
  <1>3. CASE ReadFails(p)
    BY <1>3 DEF ReadFails
  <1>4. CASE Decode(p)
    BY <1>4 DEF Decode
  <1>5. CASE ApplySettings(p)
    BY <1>5 DEF ApplySettings, Plain
  <1>6. CASE ApplyNetwork(p)
    BY <1>6 DEF ApplyNetwork, Plain
  <1>7. CASE ApplyCommands(p)
    BY <1>7 DEF ApplyCommands, Plain
  <1>8. CASE ApplyPassword(p)
    <2>1. CASE UNCHANGED temps
      BY <1>8, <2>1 DEF ApplyPassword
    <2>2. CASE temps' = temps \cup {<<p, "shadow">>} /\ pc' = [pc EXCEPT ![p] = "pwRename"]
      <3>1. pc'[p] = "pwRename" /\ \A q \in Procs \ {p} : pc'[q] = pc[q]
        BY <2>2
      <3>2. pc[p] # "pwRename" /\ UNCHANGED spilled
        BY <1>8 DEF ApplyPassword
      <3>3. SUFFICES ASSUME NEW q \in Procs, NEW k \in Kinds, <<q, k>> \in temps'
                     PROVE  \/ pc'[q] \in TempPCs[k] \cup {"killed"}
                            \/ k \in {"file", "conf"} /\ <<q, k>> \in spilled'
        BY DEF NothingLeftBehind
      <3>4. CASE q = p /\ k = "shadow"
        BY <3>1, <3>4
      <3>5. CASE <<q, k>> \in temps
        BY <1>8, <3>1, <3>2, <3>5 DEF ApplyPassword
      <3> QED BY <2>2, <3>3, <3>4, <3>5
    <2> QED BY <1>8, <2>1, <2>2 DEF ApplyPassword
  <1>9. CASE RenameShadow(p)
    BY <1>9 DEF RenameShadow
  <1>10. CASE ApplySSHKeys(p)
    BY <1>10 DEF ApplySSHKeys
  <1>11. CASE NextKey(p)
    BY <1>11 DEF NextKey
  <1>12. CASE StatKeys(p)
    BY <1>12 DEF StatKeys
  <1>13. CASE CreateKeys(p)
    BY <1>13 DEF CreateKeys
  <1>14. CASE ReadKeys(p)
    <2>1. CASE UNCHANGED temps
      BY <1>14, <2>1 DEF ReadKeys
    <2>2. CASE temps' = temps \cup {<<p, "ssh">>} /\ pc' = [pc EXCEPT ![p] = "sshRename"]
      <3>1. pc'[p] = "sshRename" /\ \A q \in Procs \ {p} : pc'[q] = pc[q]
        BY <2>2
      <3>2. pc[p] # "sshRename" /\ UNCHANGED spilled
        BY <1>14 DEF ReadKeys
      <3>3. SUFFICES ASSUME NEW q \in Procs, NEW k \in Kinds, <<q, k>> \in temps'
                     PROVE  \/ pc'[q] \in TempPCs[k] \cup {"killed"}
                            \/ k \in {"file", "conf"} /\ <<q, k>> \in spilled'
        BY DEF NothingLeftBehind
      <3>4. CASE q = p /\ k = "ssh"
        BY <3>1, <3>4
      <3>5. CASE <<q, k>> \in temps
        BY <1>14, <3>1, <3>2, <3>5 DEF ReadKeys
      <3> QED BY <2>2, <3>3, <3>4, <3>5
    <2> QED BY <1>14, <2>1, <2>2 DEF ReadKeys
  <1>15. CASE RenameKeys(p)
    BY <1>15 DEF RenameKeys
  <1>16. CASE ApplyWriteFiles(p)
    BY <1>16 DEF ApplyWriteFiles
  <1>17. CASE NextFile(p)
    <2>1. CASE UNCHANGED temps
      BY <1>17, <2>1 DEF NextFile
    <2>2. CASE temps' = temps \cup {<<p, "file">>} /\ pc' = [pc EXCEPT ![p] = "fileRename"]
      <3>1. pc'[p] = "fileRename" /\ \A q \in Procs \ {p} : pc'[q] = pc[q]
        BY <2>2
      <3>2. pc[p] # "fileRename" /\ UNCHANGED spilled
        BY <1>17 DEF NextFile
      <3>3. SUFFICES ASSUME NEW q \in Procs, NEW k \in Kinds, <<q, k>> \in temps'
                     PROVE  \/ pc'[q] \in TempPCs[k] \cup {"killed"}
                            \/ k \in {"file", "conf"} /\ <<q, k>> \in spilled'
        BY DEF NothingLeftBehind
      <3>4. CASE q = p /\ k = "file"
        BY <3>1, <3>4
      <3>5. CASE <<q, k>> \in temps
        BY <1>17, <3>1, <3>2, <3>5 DEF NextFile
      <3> QED BY <2>2, <3>3, <3>4, <3>5
    <2> QED BY <1>17, <2>1, <2>2 DEF NextFile
  <1>18. CASE RenameFile(p)
    BY <1>18 DEF RenameFile
  <1>19. CASE ApplyEnvironment(p)
    BY <1>19 DEF ApplyEnvironment
  <1>20. CASE ReadEnvironment(p)
    BY <1>20 DEF ReadEnvironment
  <1>21. CASE TruncateEnvironment(p)
    BY <1>21 DEF TruncateEnvironment
  <1>22. CASE WriteEnvironment(p)
    BY <1>22 DEF WriteEnvironment
  <1>23. CASE ApplyInstall(p)
    BY <1>23 DEF ApplyInstall
  <1>24. CASE ApplyK3S(p)
    BY <1>24 DEF ApplyK3S
  <1>25. CASE CreateConfTemp(p)
    <2>1. CASE UNCHANGED temps
      BY <1>25, <2>1 DEF CreateConfTemp
    <2>2. CASE temps' = temps \cup {<<p, "conf">>} /\ pc' = [pc EXCEPT ![p] = "confWrite"]
      <3>1. pc'[p] = "confWrite" /\ \A q \in Procs \ {p} : pc'[q] = pc[q]
        BY <2>2
      <3>2. pc[p] # "confWrite" /\ UNCHANGED spilled
        BY <1>25 DEF CreateConfTemp
      <3>3. SUFFICES ASSUME NEW q \in Procs, NEW k \in Kinds, <<q, k>> \in temps'
                     PROVE  \/ pc'[q] \in TempPCs[k] \cup {"killed"}
                            \/ k \in {"file", "conf"} /\ <<q, k>> \in spilled'
        BY DEF NothingLeftBehind
      <3>4. CASE q = p /\ k = "conf"
        BY <3>1, <3>4
      <3>5. CASE <<q, k>> \in temps
        BY <1>25, <3>1, <3>2, <3>5 DEF CreateConfTemp
      <3> QED BY <2>2, <3>3, <3>4, <3>5
    <2> QED BY <1>25, <2>1, <2>2 DEF CreateConfTemp
  <1>26. CASE WriteConfTemp(p)
    BY <1>26 DEF WriteConfTemp
  <1>27. CASE SaveCreate(p)
    BY <1>27 DEF SaveCreate
  <1>28. CASE SaveWrite(p)
    BY <1>28 DEF SaveWrite
  <1>29. CASE Ask(p)
    BY <1>29 DEF Ask
  <1>30. CASE Confirm(p)
    BY <1>30 DEF Confirm
  <1>31. CASE RunScript(p)
    BY <1>31 DEF RunScript
  <1>32. CASE Fetch(p)
    BY <1>32 DEF Fetch
  <1>33. CASE Exit(p)
    BY <1>33 DEF Exit
  <1>34. CASE Kill(p)
    BY <1>34 DEF Kill
  <1> QED BY <1>1, <1>2, <1>3, <1>4, <1>5, <1>6, <1>7, <1>8, <1>9, <1>10, <1>11, <1>12,
     <1>13, <1>14, <1>15, <1>16, <1>17, <1>18, <1>19, <1>20, <1>21, <1>22, <1>23, <1>24,
     <1>25, <1>26, <1>27, <1>28, <1>29, <1>30, <1>31, <1>32, <1>33, <1>34 DEF Act, Step,
     Prompt

\* What a run knows of authorized_keys stays true, or the run becomes stale.
LEMMA KeysStep ==
    ASSUME IInv, NEW p \in Procs, Act(p)
    PROVE  KeysInv'
  <1>a. PcTypes
    BY DEF IInv, TypeOK, PcTypes
  <1>b. WorkTypes
    BY DEF IInv, TypeOK, WorkTypes
  <1>c. RunTypes
    BY DEF IInv, TypeOK, RunTypes
  <1> USE <1>a, <1>b, <1>c DEF PcTypes, WorkTypes, RunTypes, KeysInv, Looking,
     Confirmed, IInv, Goto, Then, Return, Finish, Works, Fault, KeyDone,
     EnvironmentDone, StopReading, Forget, Applier, confs, sshFile, environment,
     leftovers, reading, course, work, saving, frame
  <1>1. CASE Start(p)
    BY <1>1 DEF Start
  <1>2. CASE ReadSource(p)
    BY <1>2 DEF ReadSource
  <1>3. CASE ReadFails(p)
    BY <1>3 DEF ReadFails
  <1>4. CASE Decode(p)
    BY <1>4 DEF Decode
  <1>5. CASE ApplySettings(p)
    BY <1>5 DEF ApplySettings, Plain
  <1>6. CASE ApplyNetwork(p)
    BY <1>6 DEF ApplyNetwork, Plain
  <1>7. CASE ApplyCommands(p)
    BY <1>7 DEF ApplyCommands, Plain
  <1>8. CASE ApplyPassword(p)
    BY <1>8 DEF ApplyPassword
  <1>9. CASE RenameShadow(p)
    BY <1>9 DEF RenameShadow
  <1>10. CASE ApplySSHKeys(p)
    BY <1>10 DEF ApplySSHKeys
  <1>11. CASE NextKey(p)
    BY <1>11 DEF NextKey
  <1>12. CASE StatKeys(p)
    BY <1>12 DEF StatKeys
  <1>13. CASE CreateKeys(p)
    BY <1>13 DEF CreateKeys
  <1>14. CASE ReadKeys(p)
    BY <1>14 DEF ReadKeys
  <1>15. CASE RenameKeys(p)
    BY <1>15 DEF RenameKeys
  <1>16. CASE ApplyWriteFiles(p)
    BY <1>16 DEF ApplyWriteFiles
  <1>17. CASE NextFile(p)
    BY <1>17 DEF NextFile
  <1>18. CASE RenameFile(p)
    BY <1>18 DEF RenameFile
  <1>19. CASE ApplyEnvironment(p)
    BY <1>19 DEF ApplyEnvironment
  <1>20. CASE ReadEnvironment(p)
    BY <1>20 DEF ReadEnvironment
  <1>21. CASE TruncateEnvironment(p)
    BY <1>21 DEF TruncateEnvironment
  <1>22. CASE WriteEnvironment(p)
    BY <1>22 DEF WriteEnvironment
  <1>23. CASE ApplyInstall(p)
    BY <1>23 DEF ApplyInstall
  <1>24. CASE ApplyK3S(p)
    BY <1>24 DEF ApplyK3S
  <1>25. CASE CreateConfTemp(p)
    BY <1>25 DEF CreateConfTemp
  <1>26. CASE WriteConfTemp(p)
    BY <1>26 DEF WriteConfTemp
  <1>27. CASE SaveCreate(p)
    BY <1>27 DEF SaveCreate
  <1>28. CASE SaveWrite(p)
    BY <1>28 DEF SaveWrite
  <1>29. CASE Ask(p)
    BY <1>29 DEF Ask
  <1>30. CASE Confirm(p)
    BY <1>30 DEF Confirm
  <1>31. CASE RunScript(p)
    BY <1>31 DEF RunScript
  <1>32. CASE Fetch(p)
    BY <1>32 DEF Fetch
  <1>33. CASE Exit(p)
    BY <1>33 DEF Exit
  <1>34. CASE Kill(p)
    BY <1>34 DEF Kill
  <1> QED BY <1>1, <1>2, <1>3, <1>4, <1>5, <1>6, <1>7, <1>8, <1>9, <1>10, <1>11, <1>12,
     <1>13, <1>14, <1>15, <1>16, <1>17, <1>18, <1>19, <1>20, <1>21, <1>22, <1>23, <1>24,
     <1>25, <1>26, <1>27, <1>28, <1>29, <1>30, <1>31, <1>32, <1>33, <1>34 DEF Act, Step,
     Prompt

\* A step loses a key only if the view of its run is out of date.
LEMMA KeysLost ==
    ASSUME IInv, NEW p \in Procs, Act(p)
    PROVE  \/ auth \subseteq auth'
           \/ \E q \in stale : pc[q] \in {"sshCreate", "sshRename"} /\ pc'[q] # pc[q]
  <1>a. PcTypes
    BY DEF IInv, TypeOK, PcTypes
  <1>b. WorkTypes
    BY DEF IInv, TypeOK, WorkTypes
  <1> USE <1>a, <1>b DEF PcTypes, WorkTypes, KeysInv, Looking, sshFile, KeyDone, Goto,
     Forget, frame
  <1>1. CASE Start(p)
    BY <1>1 DEF Start
  <1>2. CASE ReadSource(p)
    BY <1>2 DEF ReadSource
  <1>3. CASE ReadFails(p)
    BY <1>3 DEF ReadFails
  <1>4. CASE Decode(p)
    BY <1>4 DEF Decode
  <1>5. CASE ApplySettings(p)
    BY <1>5 DEF ApplySettings, Plain
  <1>6. CASE ApplyNetwork(p)
    BY <1>6 DEF ApplyNetwork, Plain
  <1>7. CASE ApplyCommands(p)
    BY <1>7 DEF ApplyCommands, Plain
  <1>8. CASE ApplyPassword(p)
    BY <1>8 DEF ApplyPassword
  <1>9. CASE RenameShadow(p)
    BY <1>9 DEF RenameShadow
  <1>10. CASE ApplySSHKeys(p)
    BY <1>10 DEF ApplySSHKeys
  <1>11. CASE NextKey(p)
    BY <1>11 DEF NextKey
  <1>12. CASE StatKeys(p)
    BY <1>12 DEF StatKeys
  <1>13. CASE CreateKeys(p)
    <2>1. p \notin stale => auth = {}
      BY <1>13 DEF CreateKeys, IInv
    <2>2. pc[p] = "sshCreate" /\ pc'[p] # pc[p]
      BY <1>13 DEF CreateKeys
    <2> QED BY <2>1, <2>2
  <1>14. CASE ReadKeys(p)
    BY <1>14 DEF ReadKeys
  <1>15. CASE RenameKeys(p)
    <2>1. p \notin stale => auth \subseteq buf[p]
      BY <1>15 DEF RenameKeys, IInv
    <2>2. pc[p] = "sshRename" /\ pc'[p] # pc[p]
      BY <1>15 DEF RenameKeys
    <2>3. auth' = auth \/ auth' = buf[p] \cup key[p]
      BY <1>15 DEF RenameKeys
    <2> QED BY <2>1, <2>2, <2>3
  <1>16. CASE ApplyWriteFiles(p)
    BY <1>16 DEF ApplyWriteFiles
  <1>17. CASE NextFile(p)
    BY <1>17 DEF NextFile
  <1>18. CASE RenameFile(p)
    BY <1>18 DEF RenameFile
  <1>19. CASE ApplyEnvironment(p)
    BY <1>19 DEF ApplyEnvironment
  <1>20. CASE ReadEnvironment(p)
    BY <1>20 DEF ReadEnvironment
  <1>21. CASE TruncateEnvironment(p)
    BY <1>21 DEF TruncateEnvironment
  <1>22. CASE WriteEnvironment(p)
    BY <1>22 DEF WriteEnvironment
  <1>23. CASE ApplyInstall(p)
    BY <1>23 DEF ApplyInstall
  <1>24. CASE ApplyK3S(p)
    BY <1>24 DEF ApplyK3S
  <1>25. CASE CreateConfTemp(p)
    BY <1>25 DEF CreateConfTemp
  <1>26. CASE WriteConfTemp(p)
    BY <1>26 DEF WriteConfTemp
  <1>27. CASE SaveCreate(p)
    BY <1>27 DEF SaveCreate
  <1>28. CASE SaveWrite(p)
    BY <1>28 DEF SaveWrite
  <1>29. CASE Ask(p)
    BY <1>29 DEF Ask
  <1>30. CASE Confirm(p)
    BY <1>30 DEF Confirm
  <1>31. CASE RunScript(p)
    BY <1>31 DEF RunScript
  <1>32. CASE Fetch(p)
    BY <1>32 DEF Fetch
  <1>33. CASE Exit(p)
    BY <1>33 DEF Exit
  <1>34. CASE Kill(p)
    BY <1>34 DEF Kill
  <1> QED BY <1>1, <1>2, <1>3, <1>4, <1>5, <1>6, <1>7, <1>8, <1>9, <1>10, <1>11, <1>12,
     <1>13, <1>14, <1>15, <1>16, <1>17, <1>18, <1>19, <1>20, <1>21, <1>22, <1>23, <1>24,
     <1>25, <1>26, <1>27, <1>28, <1>29, <1>30, <1>31, <1>32, <1>33, <1>34 DEF Act, Step,
     Prompt

\* One run at a time has all of /etc/environment.
LEMMA EnvStep ==
    ASSUME IInv, NEW p \in Procs, Act(p)
    PROVE  EnvInv'
  <1>a. PcTypes
    BY DEF IInv, TypeOK, PcTypes
  <1>b. WorkTypes
    BY DEF IInv, TypeOK, WorkTypes
  <1> USE <1>a, <1>b DEF PcTypes, WorkTypes, EnvInv, EnvPCs, Confirmed, IInv, Goto,
     Then, Return, Finish, Works, Fault, KeyDone, EnvironmentDone, StopReading, Forget,
     Applier, confs, sshFile, environment, leftovers, reading, course, work, saving,
     frame
  <1>1. CASE Start(p)
    BY <1>1 DEF Start
  <1>2. CASE ReadSource(p)
    BY <1>2 DEF ReadSource
  <1>3. CASE ReadFails(p)
    BY <1>3 DEF ReadFails
  <1>4. CASE Decode(p)
    BY <1>4 DEF Decode
  <1>5. CASE ApplySettings(p)
    BY <1>5 DEF ApplySettings, Plain
  <1>6. CASE ApplyNetwork(p)
    BY <1>6 DEF ApplyNetwork, Plain
  <1>7. CASE ApplyCommands(p)
    BY <1>7 DEF ApplyCommands, Plain
  <1>8. CASE ApplyPassword(p)
    BY <1>8 DEF ApplyPassword
  <1>9. CASE RenameShadow(p)
    BY <1>9 DEF RenameShadow
  <1>10. CASE ApplySSHKeys(p)
    BY <1>10 DEF ApplySSHKeys
  <1>11. CASE NextKey(p)
    BY <1>11 DEF NextKey
  <1>12. CASE StatKeys(p)
    BY <1>12 DEF StatKeys
  <1>13. CASE CreateKeys(p)
    BY <1>13 DEF CreateKeys
  <1>14. CASE ReadKeys(p)
    BY <1>14 DEF ReadKeys
  <1>15. CASE RenameKeys(p)
    BY <1>15 DEF RenameKeys
  <1>16. CASE ApplyWriteFiles(p)
    BY <1>16 DEF ApplyWriteFiles
  <1>17. CASE NextFile(p)
    BY <1>17 DEF NextFile
  <1>18. CASE RenameFile(p)
    BY <1>18 DEF RenameFile
  <1>19. CASE ApplyEnvironment(p)
    BY <1>19 DEF ApplyEnvironment
  <1>20. CASE ReadEnvironment(p)
    BY <1>20 DEF ReadEnvironment
  <1>21. CASE TruncateEnvironment(p)
    BY <1>21 DEF TruncateEnvironment
  <1>22. CASE WriteEnvironment(p)
    BY <1>22 DEF WriteEnvironment
  <1>23. CASE ApplyInstall(p)
    BY <1>23 DEF ApplyInstall
  <1>24. CASE ApplyK3S(p)
    BY <1>24 DEF ApplyK3S
  <1>25. CASE CreateConfTemp(p)
    BY <1>25 DEF CreateConfTemp
  <1>26. CASE WriteConfTemp(p)
    BY <1>26 DEF WriteConfTemp
  <1>27. CASE SaveCreate(p)
    BY <1>27 DEF SaveCreate
  <1>28. CASE SaveWrite(p)
    BY <1>28 DEF SaveWrite
  <1>29. CASE Ask(p)
    BY <1>29 DEF Ask
  <1>30. CASE Confirm(p)
    BY <1>30 DEF Confirm
  <1>31. CASE RunScript(p)
    BY <1>31 DEF RunScript
  <1>32. CASE Fetch(p)
    BY <1>32 DEF Fetch
  <1>33. CASE Exit(p)
    BY <1>33 DEF Exit
  <1>34. CASE Kill(p)
    BY <1>34 DEF Kill
  <1> QED BY <1>1, <1>2, <1>3, <1>4, <1>5, <1>6, <1>7, <1>8, <1>9, <1>10, <1>11, <1>12,
     <1>13, <1>14, <1>15, <1>16, <1>17, <1>18, <1>19, <1>20, <1>21, <1>22, <1>23, <1>24,
     <1>25, <1>26, <1>27, <1>28, <1>29, <1>30, <1>31, <1>32, <1>33, <1>34 DEF Act, Step,
     Prompt

\* What is confirmed was asked for.
LEMMA ConfirmStep ==
    ASSUME IInv, NEW p \in Procs, Act(p)
    PROVE  ConfirmInv'
  <1>a. PcTypes
    BY DEF IInv, TypeOK, PcTypes
  <1>b. CfgTypes
    BY DEF IInv, TypeOK, CfgTypes
  <1> USE <1>a, <1>b DEF PcTypes, CfgTypes, ConfirmInv, Confirmed, IInv, Goto, Then,
     Return, Finish, Works, Fault, KeyDone, EnvironmentDone, StopReading, Forget,
     Applier, confs, sshFile, environment, leftovers, reading, course, work, saving,
     frame
  <1>1. CASE Start(p)
    BY <1>1 DEF Start
  <1>2. CASE ReadSource(p)
    BY <1>2 DEF ReadSource
  <1>3. CASE ReadFails(p)
    BY <1>3 DEF ReadFails
  <1>4. CASE Decode(p)
    BY <1>4 DEF Decode
  <1>5. CASE ApplySettings(p)
    BY <1>5 DEF ApplySettings, Plain
  <1>6. CASE ApplyNetwork(p)
    BY <1>6 DEF ApplyNetwork, Plain
  <1>7. CASE ApplyCommands(p)
    BY <1>7 DEF ApplyCommands, Plain
  <1>8. CASE ApplyPassword(p)
    BY <1>8 DEF ApplyPassword
  <1>9. CASE RenameShadow(p)
    BY <1>9 DEF RenameShadow
  <1>10. CASE ApplySSHKeys(p)
    BY <1>10 DEF ApplySSHKeys
  <1>11. CASE NextKey(p)
    BY <1>11 DEF NextKey
  <1>12. CASE StatKeys(p)
    BY <1>12 DEF StatKeys
  <1>13. CASE CreateKeys(p)
    BY <1>13 DEF CreateKeys
  <1>14. CASE ReadKeys(p)
    BY <1>14 DEF ReadKeys
  <1>15. CASE RenameKeys(p)
    BY <1>15 DEF RenameKeys
  <1>16. CASE ApplyWriteFiles(p)
    BY <1>16 DEF ApplyWriteFiles
  <1>17. CASE NextFile(p)
    BY <1>17 DEF NextFile
  <1>18. CASE RenameFile(p)
    BY <1>18 DEF RenameFile
  <1>19. CASE ApplyEnvironment(p)
    BY <1>19 DEF ApplyEnvironment
  <1>20. CASE ReadEnvironment(p)
    BY <1>20 DEF ReadEnvironment
  <1>21. CASE TruncateEnvironment(p)
    BY <1>21 DEF TruncateEnvironment
  <1>22. CASE WriteEnvironment(p)
    BY <1>22 DEF WriteEnvironment
  <1>23. CASE ApplyInstall(p)
    BY <1>23 DEF ApplyInstall
  <1>24. CASE ApplyK3S(p)
    BY <1>24 DEF ApplyK3S
  <1>25. CASE CreateConfTemp(p)
    BY <1>25 DEF CreateConfTemp
  <1>26. CASE WriteConfTemp(p)
    BY <1>26 DEF WriteConfTemp
  <1>27. CASE SaveCreate(p)
    BY <1>27 DEF SaveCreate
  <1>28. CASE SaveWrite(p)
    BY <1>28 DEF SaveWrite
  <1>29. CASE Ask(p)
    <2>1. CASE UNCHANGED cfg /\ Finish(p, TRUE)
      BY <1>29, <2>1 DEF Ask
    <2>2. CASE \E c \in AskInstall(cfg[p]) : cfg' = [cfg EXCEPT ![p] = c]
               /\ pc' = [pc EXCEPT ![p] = "confirm"]
      <3>1. PICK c \in AskInstall(cfg[p]) :
                cfg' = [cfg EXCEPT ![p] = c] /\ pc' = [pc EXCEPT ![p] = "confirm"]
        BY <2>2
      <3>2. Asked(c)
        BY InstallAnswers
      <3>3. UNCHANGED said
        BY <1>29 DEF Ask
      <3> HIDE DEF Asked
      <3> QED BY <3>1, <3>2, <3>3
    <2>3. CASE \E c \in AskServerAgent(cfg[p]) : cfg' = [cfg EXCEPT ![p] = c]
               /\ pc' = [pc EXCEPT ![p] = "saveCreate"]
      BY <1>29, <2>3 DEF Ask
    <2> QED BY <1>29, <2>1, <2>2, <2>3 DEF Ask
  <1>30. CASE Confirm(p)
    BY <1>30 DEF Confirm
  <1>31. CASE RunScript(p)
    BY <1>31 DEF RunScript
  <1>32. CASE Fetch(p)
    BY <1>32 DEF Fetch
  <1>33. CASE Exit(p)
    BY <1>33 DEF Exit
  <1>34. CASE Kill(p)
    BY <1>34 DEF Kill
  <1> QED BY <1>1, <1>2, <1>3, <1>4, <1>5, <1>6, <1>7, <1>8, <1>9, <1>10, <1>11, <1>12,
     <1>13, <1>14, <1>15, <1>16, <1>17, <1>18, <1>19, <1>20, <1>21, <1>22, <1>23, <1>24,
     <1>25, <1>26, <1>27, <1>28, <1>29, <1>30, <1>31, <1>32, <1>33, <1>34 DEF Act, Step,
     Prompt

\* A reader is passed over.
Skips(p) ==
    src[p] <= Len(Sources) /\ src' = [src EXCEPT ![p] = src[p] + 1] /\ UNCHANGED <<seen, data>>

\* The same, and its data is merged.
Merges(p, new) ==
    /\ src[p] \in 1 .. Len(Sources)
    /\ src' = [src EXCEPT ![p] = src[p] + 1]
    /\ seen' = [seen EXCEPT ![p][src[p]] = new]
    /\ data' = [data EXCEPT ![p] = mergeData(data[p], new)]

\* What a step does to the reading of p: nothing, an end, a reader that is
\* passed over, or one whose data is merged.
LEMMA ReadingStep ==
    ASSUME IInv, NEW p \in Procs, Act(p)
    PROVE  \/ UNCHANGED reading
           \/ StopReading(p)
           \/ Skips(p)
           \/ \E new \in Data : Merges(p, new)
  <1> USE DEF reading, StopReading, Forget, course, confs, work, saving, sshFile,
     environment, leftovers, frame
  <1>1. CASE Start(p)
    BY <1>1 DEF Start
  <1>2. CASE ReadSource(p)
    <2> DEFINE new == normalizeData(Content(Sources[src[p]]))
    <2>1. src[p] \in 1 .. Len(Sources)
      BY <1>2, SourceFacts DEF ReadSource, IInv, TypeOK
    <2>2. new \in Data
      BY <1>2, <2>1, ContentType, NormalizeType DEF ReadSource
    <2> HIDE DEF new
    <2>3. Merges(p, new)
      BY <1>2, <2>1 DEF ReadSource, Merges, new
    <2> QED BY <2>2, <2>3
  <1>3. CASE ReadFails(p)
    BY <1>3 DEF ReadFails, Skips
  <1>4. CASE Decode(p)
    BY <1>4 DEF Decode
  <1>5. CASE ApplySettings(p)
    BY <1>5 DEF ApplySettings, Plain
  <1>6. CASE ApplyNetwork(p)
    BY <1>6 DEF ApplyNetwork, Plain
  <1>7. CASE ApplyCommands(p)
    BY <1>7 DEF ApplyCommands, Plain
  <1>8. CASE ApplyPassword(p)
    BY <1>8 DEF ApplyPassword
  <1>9. CASE RenameShadow(p)
    BY <1>9 DEF RenameShadow
  <1>10. CASE ApplySSHKeys(p)
    BY <1>10 DEF ApplySSHKeys
  <1>11. CASE NextKey(p)
    BY <1>11 DEF NextKey
  <1>12. CASE StatKeys(p)
    BY <1>12 DEF StatKeys
  <1>13. CASE CreateKeys(p)
    BY <1>13 DEF CreateKeys
  <1>14. CASE ReadKeys(p)
    BY <1>14 DEF ReadKeys
  <1>15. CASE RenameKeys(p)
    BY <1>15 DEF RenameKeys
  <1>16. CASE ApplyWriteFiles(p)
    BY <1>16 DEF ApplyWriteFiles
  <1>17. CASE NextFile(p)
    BY <1>17 DEF NextFile
  <1>18. CASE RenameFile(p)
    BY <1>18 DEF RenameFile
  <1>19. CASE ApplyEnvironment(p)
    BY <1>19 DEF ApplyEnvironment
  <1>20. CASE ReadEnvironment(p)
    BY <1>20 DEF ReadEnvironment
  <1>21. CASE TruncateEnvironment(p)
    BY <1>21 DEF TruncateEnvironment
  <1>22. CASE WriteEnvironment(p)
    BY <1>22 DEF WriteEnvironment
  <1>23. CASE ApplyInstall(p)
    BY <1>23 DEF ApplyInstall
  <1>24. CASE ApplyK3S(p)
    BY <1>24 DEF ApplyK3S
  <1>25. CASE CreateConfTemp(p)
    BY <1>25 DEF CreateConfTemp
  <1>26. CASE WriteConfTemp(p)
    BY <1>26 DEF WriteConfTemp
  <1>27. CASE SaveCreate(p)
    BY <1>27 DEF SaveCreate
  <1>28. CASE SaveWrite(p)
    BY <1>28 DEF SaveWrite
  <1>29. CASE Ask(p)
    BY <1>29 DEF Ask
  <1>30. CASE Confirm(p)
    BY <1>30 DEF Confirm
  <1>31. CASE RunScript(p)
    BY <1>31 DEF RunScript
  <1>32. CASE Fetch(p)
    BY <1>32 DEF Fetch
  <1>33. CASE Exit(p)
    BY <1>33 DEF Exit
  <1>34. CASE Kill(p)
    BY <1>34 DEF Kill
  <1> QED BY <1>1, <1>2, <1>3, <1>4, <1>5, <1>6, <1>7, <1>8, <1>9, <1>10, <1>11, <1>12,
     <1>13, <1>14, <1>15, <1>16, <1>17, <1>18, <1>19, <1>20, <1>21, <1>22, <1>23, <1>24,
     <1>25, <1>26, <1>27, <1>28, <1>29, <1>30, <1>31, <1>32, <1>33, <1>34 DEF Act, Step,
     Prompt

\* What has been merged is what the last reader that said something said.
LEMMA ReadStep ==
    ASSUME IInv, NEW p \in Procs, Act(p)
    PROVE  ReadInv'
  <1>a. ReadTypes
    BY DEF IInv, TypeOK, ReadTypes
  <1>b. Len(Sources) \in Nat
    BY SourceFacts
  <1>c. ReadInv
    BY DEF IInv
  <1>1. CASE UNCHANGED reading
    BY <1>1, <1>c DEF reading, ReadInv
  <1>2. CASE StopReading(p)
    <2>1. MergedFrom(1, NothingSeen, Nothing)
      BY MergedNothing
    <2>2. /\ src'[p] = 1 /\ seen'[p] = NothingSeen /\ data'[p] = Nothing
          /\ \A q \in Procs \ {p} :
                src'[q] = src[q] /\ seen'[q] = seen[q] /\ data'[q] = data[q]
      BY <1>2, <1>a DEF StopReading, ReadTypes
    <2> QED BY <1>c, <2>1, <2>2 DEF ReadInv
  <1>3. CASE Skips(p)
    <2>1. /\ src'[p] = src[p] + 1 /\ src[p] \in Nat
          /\ \A q \in Procs \ {p} : src'[q] = src[q]
          /\ seen' = seen /\ data' = data
      BY <1>3, <1>a, <1>b DEF Skips, ReadTypes
    <2>2. MergedFrom(src[p], seen[p], data[p])
      BY <1>c DEF ReadInv
    <2>3. MergedFrom(src[p] + 1, seen[p], data[p])
      BY <1>b, <2>1, <2>2 DEF MergedFrom, Merged
    <2> QED BY <1>c, <2>1, <2>3 DEF ReadInv
  <1>4. ASSUME NEW new \in Data, Merges(p, new)
        PROVE  ReadInv'
    <2> DEFINE i == src[p]
               all == [seen[p] EXCEPT ![i] = new]
               got == mergeData(data[p], new)
    <2>1. /\ i \in 1 .. Len(Sources)
          /\ src'[p] = i + 1 /\ seen'[p] = all /\ data'[p] = got
          /\ \A q \in Procs \ {p} :
                src'[q] = src[q] /\ seen'[q] = seen[q] /\ data'[q] = data[q]
      BY <1>4, <1>a DEF Merges, ReadTypes
    <2>2. seen[p] \in [1 .. Len(Sources) -> Data]
      BY <1>a DEF ReadTypes
    <2>3. all[i] = new /\ \A n \in 1 .. Len(Sources) : n # i => all[n] = seen[p][n]
      BY <2>1, <2>2
    <2>4. MergedFrom(i, seen[p], data[p])
      BY <1>c DEF ReadInv
    <2>5. seen[p][i] = Nothing
      BY <1>b, <2>1, <2>4 DEF MergedFrom, Merged
    <2>6. \A n \in 1 .. Len(Sources) : n > i => seen[p][n] = Nothing
      BY <1>b, <2>1, <2>4 DEF MergedFrom, Merged
    <2>7. \A s \in Spellings : \A f \in Fields : \A r \in Items :
              Of(f, got[s][f], r) = IF Of(f, new[s][f], r) # {} THEN Of(f, new[s][f], r)
                                    ELSE Of(f, data[p][s][f], r)
      <3>1. data[p] \in Data
        BY <1>a DEF ReadTypes
      <3> QED BY <1>4, <3>1, MergeOf
    <2> HIDE DEF i, all, got
    <2>8. \A n \in 1 .. Len(Sources) : n >= i + 1 => all[n] = Nothing
      BY <1>b, <2>1, <2>3, <2>6
    <2>9. ASSUME NEW s \in Spellings, NEW f \in Fields, NEW r \in Items
          PROVE  LastOf(all, got, s, f, r)
      <3>1. Of(f, got[s][f], r) = IF Of(f, new[s][f], r) # {} THEN Of(f, new[s][f], r)
                                  ELSE Of(f, data[p][s][f], r)
        BY <2>7
      <3>2. Of(f, Nothing[s][f], r) = {}
        BY DEF Nothing, Unset, Of
      <3>3. CASE Of(f, new[s][f], r) # {}
        <4>1. \A m \in 1 .. Len(Sources) : Of(f, all[m][s][f], r) # {} => m <= i
          BY <1>b, <2>1, <2>8, <3>2
        <4>2. Of(f, got[s][f], r) = Of(f, all[i][s][f], r) /\ Of(f, all[i][s][f], r) # {}
          BY <2>3, <3>1, <3>3
        <4> QED BY <2>1, <4>1, <4>2 DEF LastOf
      <3>4. CASE Of(f, new[s][f], r) = {}
        <4>1. \A n \in 1 .. Len(Sources) : Of(f, all[n][s][f], r) = Of(f, seen[p][n][s][f], r)
          BY <2>3, <2>5, <3>2, <3>4
        <4>2. LastOf(seen[p], data[p], s, f, r)
          BY <2>4 DEF MergedFrom, Merged
        <4>3. Of(f, got[s][f], r) = Of(f, data[p][s][f], r)
          BY <3>1, <3>4
        <4> QED BY <4>1, <4>2, <4>3 DEF LastOf
      <3> QED BY <3>3, <3>4
    <2>10. MergedFrom(i + 1, all, got)
      BY <2>8, <2>9 DEF MergedFrom, Merged
    <2> QED BY <1>c, <2>1, <2>10 DEF ReadInv
  <1> QED BY <1>1, <1>2, <1>3, <1>4, ReadingStep

\* ReadConfig returns a configuration only where it decodes what it has read.
LEMMA DecodeOnly ==
    ASSUME IInv, NEW p \in Procs, Act(p), NEW q \in Procs,
           pc[q] = "read", pc'[q] = (IF asking[q] THEN "ask" ELSE "apply")
    PROVE  q = p /\ \E c \in Decodings(data[p]) : cfg' = [cfg EXCEPT ![p] = c]
  <1>a. PcTypes
    BY DEF IInv, TypeOK, PcTypes
  <1>b. CourseTypes
    BY DEF IInv, TypeOK, CourseTypes
  <1> USE <1>a, <1>b DEF PcTypes, CourseTypes, PCs, Confirmed, Goto, Then, Return,
     Finish, Works, Fault, KeyDone, EnvironmentDone, StopReading, Forget, Applier,
     confs, sshFile, environment, leftovers, reading, course, work, saving, frame
  <1>1. CASE Start(p)
    BY <1>1 DEF Start
  <1>2. CASE ReadSource(p)
    BY <1>2 DEF ReadSource
  <1>3. CASE ReadFails(p)
    BY <1>3 DEF ReadFails
  <1>4. CASE Decode(p)
    BY <1>4 DEF Decode
  <1>5. CASE ApplySettings(p)
    BY <1>5 DEF ApplySettings, Plain
  <1>6. CASE ApplyNetwork(p)
    BY <1>6 DEF ApplyNetwork, Plain
  <1>7. CASE ApplyCommands(p)
    BY <1>7 DEF ApplyCommands, Plain
  <1>8. CASE ApplyPassword(p)
    BY <1>8 DEF ApplyPassword
  <1>9. CASE RenameShadow(p)
    BY <1>9 DEF RenameShadow
  <1>10. CASE ApplySSHKeys(p)
    BY <1>10 DEF ApplySSHKeys
  <1>11. CASE NextKey(p)
    BY <1>11 DEF NextKey
  <1>12. CASE StatKeys(p)
    BY <1>12 DEF StatKeys
  <1>13. CASE CreateKeys(p)
    BY <1>13 DEF CreateKeys
  <1>14. CASE ReadKeys(p)
    BY <1>14 DEF ReadKeys
  <1>15. CASE RenameKeys(p)
    BY <1>15 DEF RenameKeys
  <1>16. CASE ApplyWriteFiles(p)
    BY <1>16 DEF ApplyWriteFiles
  <1>17. CASE NextFile(p)
    BY <1>17 DEF NextFile
  <1>18. CASE RenameFile(p)
    BY <1>18 DEF RenameFile
  <1>19. CASE ApplyEnvironment(p)
    BY <1>19 DEF ApplyEnvironment
  <1>20. CASE ReadEnvironment(p)
    BY <1>20 DEF ReadEnvironment
  <1>21. CASE TruncateEnvironment(p)
    BY <1>21 DEF TruncateEnvironment
  <1>22. CASE WriteEnvironment(p)
    BY <1>22 DEF WriteEnvironment
  <1>23. CASE ApplyInstall(p)
    BY <1>23 DEF ApplyInstall
  <1>24. CASE ApplyK3S(p)
    BY <1>24 DEF ApplyK3S
  <1>25. CASE CreateConfTemp(p)
    BY <1>25 DEF CreateConfTemp
  <1>26. CASE WriteConfTemp(p)
    BY <1>26 DEF WriteConfTemp
  <1>27. CASE SaveCreate(p)
    BY <1>27 DEF SaveCreate
  <1>28. CASE SaveWrite(p)
    BY <1>28 DEF SaveWrite
  <1>29. CASE Ask(p)
    BY <1>29 DEF Ask
  <1>30. CASE Confirm(p)
    BY <1>30 DEF Confirm
  <1>31. CASE RunScript(p)
    BY <1>31 DEF RunScript
  <1>32. CASE Fetch(p)
    BY <1>32 DEF Fetch
  <1>33. CASE Exit(p)
    BY <1>33 DEF Exit
  <1>34. CASE Kill(p)
    BY <1>34 DEF Kill
  <1> QED BY <1>1, <1>2, <1>3, <1>4, <1>5, <1>6, <1>7, <1>8, <1>9, <1>10, <1>11, <1>12,
     <1>13, <1>14, <1>15, <1>16, <1>17, <1>18, <1>19, <1>20, <1>21, <1>22, <1>23, <1>24,
     <1>25, <1>26, <1>27, <1>28, <1>29, <1>30, <1>31, <1>32, <1>33, <1>34 DEF Act, Step,
     Prompt

\* A decoding has what the sources agree to spell in one way.
LEMMA LastWins ==
    ASSUME IInv, NEW p \in Procs, NEW c \in Decodings(data[p]),
           NEW f \in Fields, OneSpelling(p, f)
    PROVE  c[f] = {x \in Items : \E n \in 1 .. Len(Sources) : Stands(p, f, n, x)}
  <1>1. PICK s \in Spellings : \A n \in 1 .. Len(Sources) : \A t \in Spellings :
            seen[p][n][t][f] # {} => t = s
    BY DEF OneSpelling
  <1>2. \A t \in Spellings : \A r \in Items : LastOf(seen[p], data[p], t, f, r)
    BY DEF IInv, ReadInv, MergedFrom, Merged
  <1>a. data[p] \in Data /\ c \in Config
    <2>1. data[p] \in Data
      BY DEF IInv, TypeOK
    <2> QED BY <2>1, DecodeType
  <1>3. \A t \in Spellings : t # s => data[p][t][f] = {}
    <2>1. ASSUME NEW t \in Spellings, t # s, NEW r \in data[p][t][f]
          PROVE  FALSE
      <3>1. r \in Items /\ r \in Of(f, data[p][t][f], r)
        BY <1>a, <2>1, OfFacts DEF Data, Config, Values
      <3>2. \A n \in 1 .. Len(Sources) : Of(f, seen[p][n][t][f], r) = {}
        BY <1>1, <2>1, OfFacts
      <3> QED BY <1>2, <2>1, <3>1, <3>2 DEF LastOf
    <2> QED BY <2>1
  <1>4. c[f] = data[p][s][f]
    <2>1. PICK odd \in SUBSET Mixed(data[p]) : c = Decoded(data[p], odd)
      BY DEF Decodings
    <2>2. f \in odd => data[p]["snake"][f] # {} /\ data[p]["alias"][f] # {}
      BY <2>1 DEF Mixed
    <2>3. c[f] = IF data[p]["snake"][f] = {} \/ f \in odd THEN data[p]["alias"][f]
                                                          ELSE data[p]["snake"][f]
      BY <2>1 DEF Decoded
    <2> QED BY <1>3, <2>2, <2>3 DEF Spellings
  <1>5. ASSUME NEW x \in Items
        PROVE  x \in c[f] <=> \E n \in 1 .. Len(Sources) : Stands(p, f, n, x)
    <2>1. LastOf(seen[p], data[p], s, f, x)
      BY <1>2
    <2>2. \A n \in 1 .. Len(Sources) : \A t \in Spellings :
              t # s => Of(f, seen[p][n][t][f], x) = {} /\ x \notin seen[p][n][t][f]
      BY <1>1, OfFacts
    <2>3. Len(Sources) \in Nat
      BY SourceFacts
    <2>4. ASSUME x \in c[f]
          PROVE  \E n \in 1 .. Len(Sources) : Stands(p, f, n, x)
      <3>1. x \in Of(f, data[p][s][f], x)
        BY <1>4, <2>4, OfFacts
      <3>2. PICK i \in 1 .. Len(Sources) :
                /\ Of(f, data[p][s][f], x) = Of(f, seen[p][i][s][f], x)
                /\ \A j \in 1 .. Len(Sources) : Of(f, seen[p][j][s][f], x) # {} => j <= i
        BY <2>1, <3>1 DEF LastOf
      <3>3. x \in seen[p][i][s][f]
        BY <3>1, <3>2, OfFacts
      <3>4. \A m \in 1 .. Len(Sources) : m > i => Of(f, seen[p][m][s][f], x) = {}
        <4>1. \A m \in 1 .. Len(Sources) : ~(m > i /\ m <= i)
          BY <2>3
        <4> QED BY <3>2, <4>1, Zenon
      <3> QED BY <2>2, <3>3, <3>4 DEF Stands
    <2>5. ASSUME NEW n \in 1 .. Len(Sources), Stands(p, f, n, x)
          PROVE  x \in c[f]
      <3>1. x \in seen[p][n][s][f]
        BY <2>2, <2>5 DEF Stands
      <3>2. x \in Of(f, seen[p][n][s][f], x)
        BY <3>1, OfFacts
      <3>3. PICK i \in 1 .. Len(Sources) :
                /\ Of(f, data[p][s][f], x) = Of(f, seen[p][i][s][f], x)
                /\ Of(f, seen[p][i][s][f], x) # {}
                /\ \A j \in 1 .. Len(Sources) : Of(f, seen[p][j][s][f], x) # {} => j <= i
        BY <2>1, <3>2 DEF LastOf
      <3>4. ~(i > n)
        BY <2>5, <3>3 DEF Stands
      <3>5. i = n
        <4>1. n <= i
          BY <3>2, <3>3
        <4> QED BY <2>3, <3>4, <4>1
      <3> QED BY <1>4, <3>2, <3>3, <3>5, OfFacts
    <2> QED BY <2>4, <2>5
  <1>6. c[f] \subseteq Items
    BY <1>a DEF Config, Values
  <1> QED BY <1>5, <1>6

-----------------------------------------------------------------------------
(* The answers.                                                            *)

\* A run does not move another one.
LEMMA OthersPc ==
    ASSUME IInv, NEW p \in Procs, Act(p)
    PROVE  \A q \in Procs \ {p} : pc'[q] = pc[q]
  <1>a. PcTypes
    BY DEF IInv, TypeOK, PcTypes
  <1> USE <1>a DEF PcTypes, Goto, Then, Return, Finish, Works, Fault, KeyDone,
     EnvironmentDone, StopReading, Forget, Applier, confs, sshFile, environment,
     leftovers, reading, course, work, saving, frame
  <1>1. CASE Start(p)
    BY <1>1 DEF Start
  <1>2. CASE ReadSource(p)
    BY <1>2 DEF ReadSource
  <1>3. CASE ReadFails(p)
    BY <1>3 DEF ReadFails
  <1>4. CASE Decode(p)
    BY <1>4 DEF Decode
  <1>5. CASE ApplySettings(p)
    BY <1>5 DEF ApplySettings, Plain
  <1>6. CASE ApplyNetwork(p)
    BY <1>6 DEF ApplyNetwork, Plain
  <1>7. CASE ApplyCommands(p)
    BY <1>7 DEF ApplyCommands, Plain
  <1>8. CASE ApplyPassword(p)
    BY <1>8 DEF ApplyPassword
  <1>9. CASE RenameShadow(p)
    BY <1>9 DEF RenameShadow
  <1>10. CASE ApplySSHKeys(p)
    BY <1>10 DEF ApplySSHKeys
  <1>11. CASE NextKey(p)
    BY <1>11 DEF NextKey
  <1>12. CASE StatKeys(p)
    BY <1>12 DEF StatKeys
  <1>13. CASE CreateKeys(p)
    BY <1>13 DEF CreateKeys
  <1>14. CASE ReadKeys(p)
    BY <1>14 DEF ReadKeys
  <1>15. CASE RenameKeys(p)
    BY <1>15 DEF RenameKeys
  <1>16. CASE ApplyWriteFiles(p)
    BY <1>16 DEF ApplyWriteFiles
  <1>17. CASE NextFile(p)
    BY <1>17 DEF NextFile
  <1>18. CASE RenameFile(p)
    BY <1>18 DEF RenameFile
  <1>19. CASE ApplyEnvironment(p)
    BY <1>19 DEF ApplyEnvironment
  <1>20. CASE ReadEnvironment(p)
    BY <1>20 DEF ReadEnvironment
  <1>21. CASE TruncateEnvironment(p)
    BY <1>21 DEF TruncateEnvironment
  <1>22. CASE WriteEnvironment(p)
    BY <1>22 DEF WriteEnvironment
  <1>23. CASE ApplyInstall(p)
    BY <1>23 DEF ApplyInstall
  <1>24. CASE ApplyK3S(p)
    BY <1>24 DEF ApplyK3S
  <1>25. CASE CreateConfTemp(p)
    BY <1>25 DEF CreateConfTemp
  <1>26. CASE WriteConfTemp(p)
    BY <1>26 DEF WriteConfTemp
  <1>27. CASE SaveCreate(p)
    BY <1>27 DEF SaveCreate
  <1>28. CASE SaveWrite(p)
    BY <1>28 DEF SaveWrite
  <1>29. CASE Ask(p)
    BY <1>29 DEF Ask
  <1>30. CASE Confirm(p)
    BY <1>30 DEF Confirm
  <1>31. CASE RunScript(p)
    BY <1>31 DEF RunScript
  <1>32. CASE Fetch(p)
    BY <1>32 DEF Fetch
  <1>33. CASE Exit(p)
    BY <1>33 DEF Exit
  <1>34. CASE Kill(p)
    BY <1>34 DEF Kill
  <1> QED BY <1>1, <1>2, <1>3, <1>4, <1>5, <1>6, <1>7, <1>8, <1>9, <1>10, <1>11, <1>12,
     <1>13, <1>14, <1>15, <1>16, <1>17, <1>18, <1>19, <1>20, <1>21, <1>22, <1>23, <1>24,
     <1>25, <1>26, <1>27, <1>28, <1>29, <1>30, <1>31, <1>32, <1>33, <1>34 DEF Act, Step,
     Prompt

\* Nor does it touch what another one has read, asked for or written.
LEMMA OthersCfg ==
    ASSUME IInv, NEW p \in Procs, Act(p)
    PROVE  \A q \in Procs \ {p} :
               /\ cfg'[q] = cfg[q] /\ answer'[q] = answer[q] /\ alike'[q] = alike[q]
               /\ q \in saved' <=> q \in saved
               /\ q \in disturbed => q \in disturbed'
  <1>a. CfgTypes
    BY DEF IInv, TypeOK, CfgTypes
  <1>b. RunTypes
    BY DEF IInv, TypeOK, RunTypes
  <1> USE <1>a, <1>b DEF CfgTypes, RunTypes, Disturbs, Goto, Works, Fault, KeyDone,
     EnvironmentDone, StopReading, Forget, Applier, confs, sshFile, environment,
     leftovers, reading, course, work, saving, frame
  <1>1. CASE Start(p)
    BY <1>1 DEF Start
  <1>2. CASE ReadSource(p)
    BY <1>2 DEF ReadSource
  <1>3. CASE ReadFails(p)
    BY <1>3 DEF ReadFails
  <1>4. CASE Decode(p)
    BY <1>4 DEF Decode
  <1>5. CASE ApplySettings(p)
    BY <1>5 DEF ApplySettings, Plain
  <1>6. CASE ApplyNetwork(p)
    BY <1>6 DEF ApplyNetwork, Plain
  <1>7. CASE ApplyCommands(p)
    BY <1>7 DEF ApplyCommands, Plain
  <1>8. CASE ApplyPassword(p)
    BY <1>8 DEF ApplyPassword
  <1>9. CASE RenameShadow(p)
    BY <1>9 DEF RenameShadow
  <1>10. CASE ApplySSHKeys(p)
    BY <1>10 DEF ApplySSHKeys
  <1>11. CASE NextKey(p)
    BY <1>11 DEF NextKey
  <1>12. CASE StatKeys(p)
    BY <1>12 DEF StatKeys
  <1>13. CASE CreateKeys(p)
    BY <1>13 DEF CreateKeys
  <1>14. CASE ReadKeys(p)
    BY <1>14 DEF ReadKeys
  <1>15. CASE RenameKeys(p)
    BY <1>15 DEF RenameKeys
  <1>16. CASE ApplyWriteFiles(p)
    BY <1>16 DEF ApplyWriteFiles
  <1>17. CASE NextFile(p)
    BY <1>17 DEF NextFile
  <1>18. CASE RenameFile(p)
    BY <1>18 DEF RenameFile
  <1>19. CASE ApplyEnvironment(p)
    BY <1>19 DEF ApplyEnvironment
  <1>20. CASE ReadEnvironment(p)
    BY <1>20 DEF ReadEnvironment
  <1>21. CASE TruncateEnvironment(p)
    BY <1>21 DEF TruncateEnvironment
  <1>22. CASE WriteEnvironment(p)
    BY <1>22 DEF WriteEnvironment
  <1>23. CASE ApplyInstall(p)
    BY <1>23 DEF ApplyInstall
  <1>24. CASE ApplyK3S(p)
    BY <1>24 DEF ApplyK3S
  <1>25. CASE CreateConfTemp(p)
    BY <1>25 DEF CreateConfTemp
  <1>26. CASE WriteConfTemp(p)
    BY <1>26 DEF WriteConfTemp
  <1>27. CASE SaveCreate(p)
    BY <1>27 DEF SaveCreate
  <1>28. CASE SaveWrite(p)
    BY <1>28 DEF SaveWrite
  <1>29. CASE Ask(p)
    BY <1>29 DEF Ask
  <1>30. CASE Confirm(p)
    BY <1>30 DEF Confirm
  <1>31. CASE RunScript(p)
    BY <1>31 DEF RunScript
  <1>32. CASE Fetch(p)
    BY <1>32 DEF Fetch
  <1>33. CASE Exit(p)
    BY <1>33 DEF Exit
  <1>34. CASE Kill(p)
    BY <1>34 DEF Kill
  <1> QED BY <1>1, <1>2, <1>3, <1>4, <1>5, <1>6, <1>7, <1>8, <1>9, <1>10, <1>11, <1>12,
     <1>13, <1>14, <1>15, <1>16, <1>17, <1>18, <1>19, <1>20, <1>21, <1>22, <1>23, <1>24,
     <1>25, <1>26, <1>27, <1>28, <1>29, <1>30, <1>31, <1>32, <1>33, <1>34 DEF Act, Step,
     Prompt

\* Only the installer changes a source.
LEMMA FilesStep ==
    ASSUME IInv, NEW p \in Procs, Act(p)
    PROVE  UNCHANGED <<cmdline, sysConf, localConf>> \/ SaveCreate(p) \/ SaveWrite(p)
  <1> USE DEF confs, frame
  <1>1. CASE Start(p)
    BY <1>1 DEF Start
  <1>2. CASE ReadSource(p)
    BY <1>2 DEF ReadSource
  <1>3. CASE ReadFails(p)
    BY <1>3 DEF ReadFails
  <1>4. CASE Decode(p)
    BY <1>4 DEF Decode
  <1>5. CASE ApplySettings(p)
    BY <1>5 DEF ApplySettings, Plain
  <1>6. CASE ApplyNetwork(p)
    BY <1>6 DEF ApplyNetwork, Plain
  <1>7. CASE ApplyCommands(p)
    BY <1>7 DEF ApplyCommands, Plain
  <1>8. CASE ApplyPassword(p)
    BY <1>8 DEF ApplyPassword
  <1>9. CASE RenameShadow(p)
    BY <1>9 DEF RenameShadow
  <1>10. CASE ApplySSHKeys(p)
    BY <1>10 DEF ApplySSHKeys
  <1>11. CASE NextKey(p)
    BY <1>11 DEF NextKey
  <1>12. CASE StatKeys(p)
    BY <1>12 DEF StatKeys
  <1>13. CASE CreateKeys(p)
    BY <1>13 DEF CreateKeys
  <1>14. CASE ReadKeys(p)
    BY <1>14 DEF ReadKeys
  <1>15. CASE RenameKeys(p)
    BY <1>15 DEF RenameKeys
  <1>16. CASE ApplyWriteFiles(p)
    BY <1>16 DEF ApplyWriteFiles
  <1>17. CASE NextFile(p)
    BY <1>17 DEF NextFile
  <1>18. CASE RenameFile(p)
    BY <1>18 DEF RenameFile
  <1>19. CASE ApplyEnvironment(p)
    BY <1>19 DEF ApplyEnvironment
  <1>20. CASE ReadEnvironment(p)
    BY <1>20 DEF ReadEnvironment
  <1>21. CASE TruncateEnvironment(p)
    BY <1>21 DEF TruncateEnvironment
  <1>22. CASE WriteEnvironment(p)
    BY <1>22 DEF WriteEnvironment
  <1>23. CASE ApplyInstall(p)
    BY <1>23 DEF ApplyInstall
  <1>24. CASE ApplyK3S(p)
    BY <1>24 DEF ApplyK3S
  <1>25. CASE CreateConfTemp(p)
    BY <1>25 DEF CreateConfTemp
  <1>26. CASE WriteConfTemp(p)
    BY <1>26 DEF WriteConfTemp
  <1>27. CASE SaveCreate(p)
    BY <1>27 DEF SaveCreate
  <1>28. CASE SaveWrite(p)
    BY <1>28 DEF SaveWrite
  <1>29. CASE Ask(p)
    BY <1>29 DEF Ask
  <1>30. CASE Confirm(p)
    BY <1>30 DEF Confirm
  <1>31. CASE RunScript(p)
    BY <1>31 DEF RunScript
  <1>32. CASE Fetch(p)
    BY <1>32 DEF Fetch
  <1>33. CASE Exit(p)
    BY <1>33 DEF Exit
  <1>34. CASE Kill(p)
    BY <1>34 DEF Kill
  <1> QED BY <1>1, <1>2, <1>3, <1>4, <1>5, <1>6, <1>7, <1>8, <1>9, <1>10, <1>11, <1>12,
     <1>13, <1>14, <1>15, <1>16, <1>17, <1>18, <1>19, <1>20, <1>21, <1>22, <1>23, <1>24,
     <1>25, <1>26, <1>27, <1>28, <1>29, <1>30, <1>31, <1>32, <1>33, <1>34 DEF Act, Step,
     Prompt

\* ApplyInstall is an applier of RunApply only.
LEMMA InstallIsRun ==
    ASSUME IInv, NEW p \in Procs, Applier(p, "install")
    PROVE  phase[p] = "run" /\ p \notin saved
  <1>1. phase[p] \in Phases /\ idx[p] \in Nat /\ idx[p] >= 1
    BY DEF IInv, TypeOK, CourseInv
  <1>2. idx[p] <= Len(Appliers[phase[p]]) /\ Appliers[phase[p]][idx[p]] = "install"
    BY DEF Applier
  <1>3. phase[p] # "install"
    <2>1. Appliers["install"] = <<"k3s">>
      BY DEF Appliers
    <2> QED BY <1>1, <1>2, <2>1
  <1>4. phase[p] # "initrd"
    <2>1. Appliers["initrd"] = <<"settings", "files", "env", "cmds">>
      BY DEF Appliers
    <2> QED BY <1>1, <1>2, <2>1
  <1>5. phase[p] # "boot"
    <2>1. Appliers["boot"] =
              <<"settings", "network", "password", "ssh", "k3s", "files", "env", "cmds">>
      BY DEF Appliers
    <2> QED BY <1>1, <1>2, <2>1
  <1>6. phase[p] \notin {"ask", "none"}
    <2>1. Appliers["ask"] = <<>> /\ Appliers["none"] = <<>>
      BY DEF Appliers
    <2> QED BY <1>1, <1>2, <2>1
  <1>7. phase[p] = "run"
    BY <1>1, <1>3, <1>4, <1>5, <1>6 DEF Phases
  <1> QED BY <1>7 DEF IInv, CourseInv

\* A step after which the answers of p are where they were.
Quiet(p) ==
    /\ UNCHANGED <<cmdline, sysConf, localConf, cfg, alike, answer, saved>>
    /\ disturbed \subseteq disturbed'
    /\ pc'[p] \notin {"ask", "saveCreate", "saveSys", "saveLocal"}
    /\ p \in saved /\ pc'[p] = "read" => pc[p] = "read"

\* Few steps are not of that kind.
LEMMA QuietStep ==
    ASSUME IInv, NEW p \in Procs, Act(p)
    PROVE  \/ Quiet(p) \/ Decode(p) \/ Ask(p) \/ SaveCreate(p) \/ SaveWrite(p)
           \/ Exit(p) \/ Kill(p)
  <1>a. PcTypes
    BY DEF IInv, TypeOK, PcTypes
  <1> USE <1>a DEF PcTypes, Quiet, Confirmed, CourseInv, IInv, Goto, Then, Return,
     Finish, Works, Fault, KeyDone, EnvironmentDone, StopReading, Forget, Applier,
     confs, sshFile, environment, leftovers, reading, course, work, saving, frame
  <1>1. CASE Start(p)
    BY <1>1 DEF Start
  <1>2. CASE ReadSource(p)
    BY <1>2 DEF ReadSource
  <1>3. CASE ReadFails(p)
    BY <1>3 DEF ReadFails
  <1>4. CASE Decode(p)
    BY <1>4 DEF Decode
  <1>5. CASE ApplySettings(p)
    BY <1>5 DEF ApplySettings, Plain
  <1>6. CASE ApplyNetwork(p)
    BY <1>6 DEF ApplyNetwork, Plain
  <1>7. CASE ApplyCommands(p)
    BY <1>7 DEF ApplyCommands, Plain
  <1>8. CASE ApplyPassword(p)
    BY <1>8 DEF ApplyPassword
  <1>9. CASE RenameShadow(p)
    BY <1>9 DEF RenameShadow
  <1>10. CASE ApplySSHKeys(p)
    BY <1>10 DEF ApplySSHKeys
  <1>11. CASE NextKey(p)
    BY <1>11 DEF NextKey
  <1>12. CASE StatKeys(p)
    BY <1>12 DEF StatKeys
  <1>13. CASE CreateKeys(p)
    BY <1>13 DEF CreateKeys
  <1>14. CASE ReadKeys(p)
    BY <1>14 DEF ReadKeys
  <1>15. CASE RenameKeys(p)
    BY <1>15 DEF RenameKeys
  <1>16. CASE ApplyWriteFiles(p)
    BY <1>16 DEF ApplyWriteFiles
  <1>17. CASE NextFile(p)
    BY <1>17 DEF NextFile
  <1>18. CASE RenameFile(p)
    BY <1>18 DEF RenameFile
  <1>19. CASE ApplyEnvironment(p)
    BY <1>19 DEF ApplyEnvironment
  <1>20. CASE ReadEnvironment(p)
    BY <1>20 DEF ReadEnvironment
  <1>21. CASE TruncateEnvironment(p)
    BY <1>21 DEF TruncateEnvironment
  <1>22. CASE WriteEnvironment(p)
    BY <1>22 DEF WriteEnvironment
  <1>23. CASE ApplyInstall(p)
    <2>1. p \in saved => ~Applier(p, "install")
      BY InstallIsRun
    <2> QED BY <1>23, <2>1 DEF ApplyInstall
  <1>24. CASE ApplyK3S(p)
    BY <1>24 DEF ApplyK3S
  <1>25. CASE CreateConfTemp(p)
    BY <1>25 DEF CreateConfTemp
  <1>26. CASE WriteConfTemp(p)
    BY <1>26 DEF WriteConfTemp
  <1>27. CASE SaveCreate(p)
    BY <1>27 DEF SaveCreate
  <1>28. CASE SaveWrite(p)
    BY <1>28 DEF SaveWrite
  <1>29. CASE Ask(p)
    BY <1>29 DEF Ask
  <1>30. CASE Confirm(p)
    BY <1>30 DEF Confirm
  <1>31. CASE RunScript(p)
    BY <1>31 DEF RunScript
  <1>32. CASE Fetch(p)
    BY <1>32 DEF Fetch
  <1>33. CASE Exit(p)
    BY <1>33 DEF Exit
  <1>34. CASE Kill(p)
    BY <1>34 DEF Kill
  <1> QED BY <1>1, <1>2, <1>3, <1>4, <1>5, <1>6, <1>7, <1>8, <1>9, <1>10, <1>11, <1>12,
     <1>13, <1>14, <1>15, <1>16, <1>17, <1>18, <1>19, <1>20, <1>21, <1>22, <1>23, <1>24,
     <1>25, <1>26, <1>27, <1>28, <1>29, <1>30, <1>31, <1>32, <1>33, <1>34 DEF Act, Step,
     Prompt

\* A run does not read for another one.
LEMMA OthersReading ==
    ASSUME IInv, NEW p \in Procs, Act(p)
    PROVE  \A q \in Procs \ {p} : src'[q] = src[q] /\ seen'[q] = seen[q]
  <1>a. ReadTypes
    BY DEF IInv, TypeOK, ReadTypes
  <1>1. CASE UNCHANGED reading
    BY <1>1 DEF reading
  <1>2. CASE StopReading(p)
    BY <1>2, <1>a DEF StopReading, ReadTypes
  <1>3. CASE Skips(p)
    BY <1>3, <1>a DEF Skips, ReadTypes
  <1>4. ASSUME NEW new \in Data, Merges(p, new)
        PROVE  \A q \in Procs \ {p} : src'[q] = src[q] /\ seen'[q] = seen[q]
    <2>1. \A q \in Procs \ {p} : src'[q] = src[q]
      BY <1>4, <1>a DEF Merges, ReadTypes
    <2>2. \A q \in Procs \ {p} : seen'[q] = seen[q]
      BY <1>4, <1>a DEF Merges, ReadTypes
    <2> QED BY <2>1, <2>2
  <1> QED BY <1>1, <1>2, <1>3, <1>4, ReadingStep

\* Outside of ReadConfig there is nothing to go on with.
LEMMA SelfSrc ==
    ASSUME IInv, NEW p \in Procs, Act(p)
    PROVE  pc'[p] # "read" => src'[p] = 1
  <1>a. PcTypes
    BY DEF IInv, TypeOK, PcTypes
  <1>b. ReadTypes
    BY DEF IInv, TypeOK, ReadTypes
  <1> USE <1>a, <1>b DEF PcTypes, ReadTypes, CourseInv, IInv, Confirmed, Goto, Then,
     Return, Finish, Works, Fault, KeyDone, EnvironmentDone, StopReading, Forget,
     Applier, confs, sshFile, environment, leftovers, reading, course, work, saving,
     frame
  <1>1. CASE Start(p)
    BY <1>1 DEF Start
  <1>2. CASE ReadSource(p)
    BY <1>2 DEF ReadSource
  <1>3. CASE ReadFails(p)
    BY <1>3 DEF ReadFails
  <1>4. CASE Decode(p)
    BY <1>4 DEF Decode
  <1>5. CASE ApplySettings(p)
    BY <1>5 DEF ApplySettings, Plain
  <1>6. CASE ApplyNetwork(p)
    BY <1>6 DEF ApplyNetwork, Plain
  <1>7. CASE ApplyCommands(p)
    BY <1>7 DEF ApplyCommands, Plain
  <1>8. CASE ApplyPassword(p)
    BY <1>8 DEF ApplyPassword
  <1>9. CASE RenameShadow(p)
    BY <1>9 DEF RenameShadow
  <1>10. CASE ApplySSHKeys(p)
    BY <1>10 DEF ApplySSHKeys
  <1>11. CASE NextKey(p)
    BY <1>11 DEF NextKey
  <1>12. CASE StatKeys(p)
    BY <1>12 DEF StatKeys
  <1>13. CASE CreateKeys(p)
    BY <1>13 DEF CreateKeys
  <1>14. CASE ReadKeys(p)
    BY <1>14 DEF ReadKeys
  <1>15. CASE RenameKeys(p)
    BY <1>15 DEF RenameKeys
  <1>16. CASE ApplyWriteFiles(p)
    BY <1>16 DEF ApplyWriteFiles
  <1>17. CASE NextFile(p)
    BY <1>17 DEF NextFile
  <1>18. CASE RenameFile(p)
    BY <1>18 DEF RenameFile
  <1>19. CASE ApplyEnvironment(p)
    BY <1>19 DEF ApplyEnvironment
  <1>20. CASE ReadEnvironment(p)
    BY <1>20 DEF ReadEnvironment
  <1>21. CASE TruncateEnvironment(p)
    BY <1>21 DEF TruncateEnvironment
  <1>22. CASE WriteEnvironment(p)
    BY <1>22 DEF WriteEnvironment
  <1>23. CASE ApplyInstall(p)
    BY <1>23 DEF ApplyInstall
  <1>24. CASE ApplyK3S(p)
    BY <1>24 DEF ApplyK3S
  <1>25. CASE CreateConfTemp(p)
    BY <1>25 DEF CreateConfTemp
  <1>26. CASE WriteConfTemp(p)
    BY <1>26 DEF WriteConfTemp
  <1>27. CASE SaveCreate(p)
    BY <1>27 DEF SaveCreate
  <1>28. CASE SaveWrite(p)
    BY <1>28 DEF SaveWrite
  <1>29. CASE Ask(p)
    BY <1>29 DEF Ask
  <1>30. CASE Confirm(p)
    BY <1>30 DEF Confirm
  <1>31. CASE RunScript(p)
    BY <1>31 DEF RunScript
  <1>32. CASE Fetch(p)
    BY <1>32 DEF Fetch
  <1>33. CASE Exit(p)
    BY <1>33 DEF Exit
  <1>34. CASE Kill(p)
    BY <1>34 DEF Kill
  <1> QED BY <1>1, <1>2, <1>3, <1>4, <1>5, <1>6, <1>7, <1>8, <1>9, <1>10, <1>11, <1>12,
     <1>13, <1>14, <1>15, <1>16, <1>17, <1>18, <1>19, <1>20, <1>21, <1>22, <1>23, <1>24,
     <1>25, <1>26, <1>27, <1>28, <1>29, <1>30, <1>31, <1>32, <1>33, <1>34 DEF Act, Step,
     Prompt

\* What the installer does happens inside it.
LEMMA SelfAsking ==
    ASSUME IInv, NEW p \in Procs, Act(p)
    PROVE  pc'[p] \in InstallerPCs => asking'[p]
  <1>a. PcTypes
    BY DEF IInv, TypeOK, PcTypes
  <1>b. CourseTypes
    BY DEF IInv, TypeOK, CourseTypes
  <1> USE <1>a, <1>b DEF PcTypes, CourseTypes, CourseInv, IInv, Confirmed, InstallerPCs,
     Goto, Then, Return, Finish, Works, Fault, KeyDone, EnvironmentDone, StopReading,
     Forget, Applier, confs, sshFile, environment, leftovers, reading, course, work,
     saving, frame
  <1>1. CASE Start(p)
    BY <1>1 DEF Start
  <1>2. CASE ReadSource(p)
    BY <1>2 DEF ReadSource
  <1>3. CASE ReadFails(p)
    BY <1>3 DEF ReadFails
  <1>4. CASE Decode(p)
    BY <1>4 DEF Decode
  <1>5. CASE ApplySettings(p)
    BY <1>5 DEF ApplySettings, Plain
  <1>6. CASE ApplyNetwork(p)
    BY <1>6 DEF ApplyNetwork, Plain
  <1>7. CASE ApplyCommands(p)
    BY <1>7 DEF ApplyCommands, Plain
  <1>8. CASE ApplyPassword(p)
    BY <1>8 DEF ApplyPassword
  <1>9. CASE RenameShadow(p)
    BY <1>9 DEF RenameShadow
  <1>10. CASE ApplySSHKeys(p)
    BY <1>10 DEF ApplySSHKeys
  <1>11. CASE NextKey(p)
    BY <1>11 DEF NextKey
  <1>12. CASE StatKeys(p)
    BY <1>12 DEF StatKeys
  <1>13. CASE CreateKeys(p)
    BY <1>13 DEF CreateKeys
  <1>14. CASE ReadKeys(p)
    BY <1>14 DEF ReadKeys
  <1>15. CASE RenameKeys(p)
    BY <1>15 DEF RenameKeys
  <1>16. CASE ApplyWriteFiles(p)
    BY <1>16 DEF ApplyWriteFiles
  <1>17. CASE NextFile(p)
    BY <1>17 DEF NextFile
  <1>18. CASE RenameFile(p)
    BY <1>18 DEF RenameFile
  <1>19. CASE ApplyEnvironment(p)
    BY <1>19 DEF ApplyEnvironment
  <1>20. CASE ReadEnvironment(p)
    BY <1>20 DEF ReadEnvironment
  <1>21. CASE TruncateEnvironment(p)
    BY <1>21 DEF TruncateEnvironment
  <1>22. CASE WriteEnvironment(p)
    BY <1>22 DEF WriteEnvironment
  <1>23. CASE ApplyInstall(p)
    BY <1>23 DEF ApplyInstall
  <1>24. CASE ApplyK3S(p)
    BY <1>24 DEF ApplyK3S
  <1>25. CASE CreateConfTemp(p)
    BY <1>25 DEF CreateConfTemp
  <1>26. CASE WriteConfTemp(p)
    BY <1>26 DEF WriteConfTemp
  <1>27. CASE SaveCreate(p)
    BY <1>27 DEF SaveCreate
  <1>28. CASE SaveWrite(p)
    BY <1>28 DEF SaveWrite
  <1>29. CASE Ask(p)
    BY <1>29 DEF Ask
  <1>30. CASE Confirm(p)
    BY <1>30 DEF Confirm
  <1>31. CASE RunScript(p)
    BY <1>31 DEF RunScript
  <1>32. CASE Fetch(p)
    BY <1>32 DEF Fetch
  <1>33. CASE Exit(p)
    BY <1>33 DEF Exit
  <1>34. CASE Kill(p)
    BY <1>34 DEF Kill
  <1> QED BY <1>1, <1>2, <1>3, <1>4, <1>5, <1>6, <1>7, <1>8, <1>9, <1>10, <1>11, <1>12,
     <1>13, <1>14, <1>15, <1>16, <1>17, <1>18, <1>19, <1>20, <1>21, <1>22, <1>23, <1>24,
     <1>25, <1>26, <1>27, <1>28, <1>29, <1>30, <1>31, <1>32, <1>33, <1>34 DEF Act, Step,
     Prompt

\* A run that wrote the configuration has left the installer.
LEMMA SelfSaved ==
    ASSUME IInv, NEW p \in Procs, Act(p)
    PROVE  p \in saved' => ~asking'[p] /\ phase'[p] = "install" /\ pc'[p] # "idle"
  <1>a. PcTypes
    BY DEF IInv, TypeOK, PcTypes
  <1>b. CourseTypes
    BY DEF IInv, TypeOK, CourseTypes
  <1> USE <1>a, <1>b DEF PcTypes, CourseTypes, CourseInv, IInv, Confirmed, Goto, Then,
     Return, Finish, Works, Fault, KeyDone, EnvironmentDone, StopReading, Forget,
     Applier, confs, sshFile, environment, leftovers, reading, course, work, saving,
     frame
  <1>1. CASE Start(p)
    BY <1>1 DEF Start
  <1>2. CASE ReadSource(p)
    BY <1>2 DEF ReadSource
  <1>3. CASE ReadFails(p)
    BY <1>3 DEF ReadFails
  <1>4. CASE Decode(p)
    BY <1>4 DEF Decode
  <1>5. CASE ApplySettings(p)
    BY <1>5 DEF ApplySettings, Plain
  <1>6. CASE ApplyNetwork(p)
    BY <1>6 DEF ApplyNetwork, Plain
  <1>7. CASE ApplyCommands(p)
    BY <1>7 DEF ApplyCommands, Plain
  <1>8. CASE ApplyPassword(p)
    BY <1>8 DEF ApplyPassword
  <1>9. CASE RenameShadow(p)
    BY <1>9 DEF RenameShadow
  <1>10. CASE ApplySSHKeys(p)
    BY <1>10 DEF ApplySSHKeys
  <1>11. CASE NextKey(p)
    BY <1>11 DEF NextKey
  <1>12. CASE StatKeys(p)
    BY <1>12 DEF StatKeys
  <1>13. CASE CreateKeys(p)
    BY <1>13 DEF CreateKeys
  <1>14. CASE ReadKeys(p)
    BY <1>14 DEF ReadKeys
  <1>15. CASE RenameKeys(p)
    BY <1>15 DEF RenameKeys
  <1>16. CASE ApplyWriteFiles(p)
    BY <1>16 DEF ApplyWriteFiles
  <1>17. CASE NextFile(p)
    BY <1>17 DEF NextFile
  <1>18. CASE RenameFile(p)
    BY <1>18 DEF RenameFile
  <1>19. CASE ApplyEnvironment(p)
    BY <1>19 DEF ApplyEnvironment
  <1>20. CASE ReadEnvironment(p)
    BY <1>20 DEF ReadEnvironment
  <1>21. CASE TruncateEnvironment(p)
    BY <1>21 DEF TruncateEnvironment
  <1>22. CASE WriteEnvironment(p)
    BY <1>22 DEF WriteEnvironment
  <1>23. CASE ApplyInstall(p)
    <2>1. Applier(p, "install")
      BY <1>23 DEF ApplyInstall
    <2>2. p \notin saved
      BY <2>1, InstallIsRun
    <2> QED BY <1>23, <2>2 DEF ApplyInstall
  <1>24. CASE ApplyK3S(p)
    BY <1>24 DEF ApplyK3S
  <1>25. CASE CreateConfTemp(p)
    BY <1>25 DEF CreateConfTemp
  <1>26. CASE WriteConfTemp(p)
    BY <1>26 DEF WriteConfTemp
  <1>27. CASE SaveCreate(p)
    BY <1>27 DEF SaveCreate
  <1>28. CASE SaveWrite(p)
    BY <1>28 DEF SaveWrite
  <1>29. CASE Ask(p)
    BY <1>29 DEF Ask
  <1>30. CASE Confirm(p)
    BY <1>30 DEF Confirm
  <1>31. CASE RunScript(p)
    BY <1>31 DEF RunScript
  <1>32. CASE Fetch(p)
    BY <1>32 DEF Fetch
  <1>33. CASE Exit(p)
    BY <1>33 DEF Exit
  <1>34. CASE Kill(p)
    BY <1>34 DEF Kill
  <1> QED BY <1>1, <1>2, <1>3, <1>4, <1>5, <1>6, <1>7, <1>8, <1>9, <1>10, <1>11, <1>12,
     <1>13, <1>14, <1>15, <1>16, <1>17, <1>18, <1>19, <1>20, <1>21, <1>22, <1>23, <1>24,
     <1>25, <1>26, <1>27, <1>28, <1>29, <1>30, <1>31, <1>32, <1>33, <1>34 DEF Act, Step,
     Prompt

\* So the course of a run is as it should be.
LEMMA CourseStep ==
    ASSUME IInv, NEW p \in Procs, Act(p)
    PROVE  CourseInv'
  <1>a. CourseTypes /\ ReadTypes
    BY DEF IInv, TypeOK, CourseTypes, ReadTypes
  <1>b. CourseInv
    BY DEF IInv
  <1>1. \A q \in Procs : idx'[q] >= 1
    BY <1>a, <1>b, IdxStep DEF CourseInv, CourseTypes
  <1>2. ASSUME NEW q \in Procs \ {p}
        PROVE  /\ pc'[q] # "read" => src'[q] = 1
               /\ pc'[q] \in InstallerPCs => asking'[q]
               /\ q \in saved' => ~asking'[q] /\ phase'[q] = "install" /\ pc'[q] # "idle"
    <2>1. pc'[q] = pc[q] /\ (q \in saved' <=> q \in saved)
      BY OthersPc, OthersCfg
    <2>2. src'[q] = src[q]
      BY OthersReading
    <2>3. asking'[q] = asking[q]
      BY <1>a, AskingStep DEF CourseTypes
    <2>4. phase'[q] = phase[q]
      BY <1>a, PhaseStep DEF CourseTypes
    <2> QED BY <1>b, <2>1, <2>2, <2>3, <2>4 DEF CourseInv
  <1> QED BY <1>1, <1>2, SelfSrc, SelfAsking, SelfSaved DEF CourseInv

\* Only the readers go on in ReadConfig.
LEMMA ReadersOnly ==
    ASSUME IInv, NEW p \in Procs, Act(p)
    PROVE  \/ UNCHANGED reading
           \/ StopReading(p)
           \/ ReadSource(p) \/ ReadFails(p)
  <1> USE DEF reading, StopReading, Forget, course, confs, work, saving, sshFile,
     environment, leftovers, frame
  <1>1. CASE Start(p)
    BY <1>1 DEF Start
  <1>2. CASE ReadSource(p)
    BY <1>2
  <1>3. CASE ReadFails(p)
    BY <1>3
  <1>4. CASE Decode(p)
    BY <1>4 DEF Decode
  <1>5. CASE ApplySettings(p)
    BY <1>5 DEF ApplySettings, Plain
  <1>6. CASE ApplyNetwork(p)
    BY <1>6 DEF ApplyNetwork, Plain
  <1>7. CASE ApplyCommands(p)
    BY <1>7 DEF ApplyCommands, Plain
  <1>8. CASE ApplyPassword(p)
    BY <1>8 DEF ApplyPassword
  <1>9. CASE RenameShadow(p)
    BY <1>9 DEF RenameShadow
  <1>10. CASE ApplySSHKeys(p)
    BY <1>10 DEF ApplySSHKeys
  <1>11. CASE NextKey(p)
    BY <1>11 DEF NextKey
  <1>12. CASE StatKeys(p)
    BY <1>12 DEF StatKeys
  <1>13. CASE CreateKeys(p)
    BY <1>13 DEF CreateKeys
  <1>14. CASE ReadKeys(p)
    BY <1>14 DEF ReadKeys
  <1>15. CASE RenameKeys(p)
    BY <1>15 DEF RenameKeys
  <1>16. CASE ApplyWriteFiles(p)
    BY <1>16 DEF ApplyWriteFiles
  <1>17. CASE NextFile(p)
    BY <1>17 DEF NextFile
  <1>18. CASE RenameFile(p)
    BY <1>18 DEF RenameFile
  <1>19. CASE ApplyEnvironment(p)
    BY <1>19 DEF ApplyEnvironment
  <1>20. CASE ReadEnvironment(p)
    BY <1>20 DEF ReadEnvironment
  <1>21. CASE TruncateEnvironment(p)
    BY <1>21 DEF TruncateEnvironment
  <1>22. CASE WriteEnvironment(p)
    BY <1>22 DEF WriteEnvironment
  <1>23. CASE ApplyInstall(p)
    BY <1>23 DEF ApplyInstall
  <1>24. CASE ApplyK3S(p)
    BY <1>24 DEF ApplyK3S
  <1>25. CASE CreateConfTemp(p)
    BY <1>25 DEF CreateConfTemp
  <1>26. CASE WriteConfTemp(p)
    BY <1>26 DEF WriteConfTemp
  <1>27. CASE SaveCreate(p)
    BY <1>27 DEF SaveCreate
  <1>28. CASE SaveWrite(p)
    BY <1>28 DEF SaveWrite
  <1>29. CASE Ask(p)
    BY <1>29 DEF Ask
  <1>30. CASE Confirm(p)
    BY <1>30 DEF Confirm
  <1>31. CASE RunScript(p)
    BY <1>31 DEF RunScript
  <1>32. CASE Fetch(p)
    BY <1>32 DEF Fetch
  <1>33. CASE Exit(p)
    BY <1>33 DEF Exit
  <1>34. CASE Kill(p)
    BY <1>34 DEF Kill
  <1> QED BY <1>1, <1>2, <1>3, <1>4, <1>5, <1>6, <1>7, <1>8, <1>9, <1>10, <1>11, <1>12,
     <1>13, <1>14, <1>15, <1>16, <1>17, <1>18, <1>19, <1>20, <1>21, <1>22, <1>23, <1>24,
     <1>25, <1>26, <1>27, <1>28, <1>29, <1>30, <1>31, <1>32, <1>33, <1>34 DEF Act, Step,
     Prompt

\* What a run has read still stands there, or it is known to be disturbed.
LEMMA SeenStep ==
    ASSUME IInv, NEW p \in Procs, Act(p)
    PROVE  SeenInv'
  <1>a. ReadTypes /\ PcTypes /\ RunTypes
    BY DEF IInv, TypeOK, ReadTypes, PcTypes, RunTypes
  <1>b. SeenInv /\ CourseInv /\ Len(Sources) \in Nat
    BY SourceFacts DEF IInv
  <1>1. ASSUME NEW q \in Procs \ {p}, q \notin disturbed', pc'[q] = "read"
        PROVE  \A n \in 1 .. Len(Sources) : n < src'[q] => seen'[q][n] = Saying'[n]
    <2>1. pc[q] = "read" /\ q \notin disturbed
      BY <1>1, OthersPc, OthersCfg
    <2>2. src'[q] = src[q] /\ seen'[q] = seen[q]
      BY OthersReading
    <2>3. ~SaveCreate(p) /\ ~SaveWrite(p)
      BY <1>1, <2>1 DEF SaveCreate, SaveWrite, Disturbs, PCs
    <2>4. Saying' = Saying
      BY <2>3, FilesStep, SayingKept
    <2> QED BY <1>b, <2>1, <2>2, <2>4 DEF SeenInv
  <1>2. ASSUME p \notin disturbed', pc'[p] = "read", NEW n \in 1 .. Len(Sources), n < src'[p]
        PROVE  seen'[p][n] = Saying'[n]
    <2>1. src'[p] # 1
      BY <1>2
    <2>2. CASE UNCHANGED reading
      <3>1. src'[p] = src[p] /\ seen'[p] = seen[p] /\ pc[p] = "read"
        BY <1>b, <2>1, <2>2 DEF reading, CourseInv
      <3>2. Quiet(p)
        <4>1. ~Decode(p)
          BY <1>2, <2>1, <2>2, <1>a DEF Decode, StopReading, reading, ReadTypes
        <4>2. ~Ask(p) /\ ~SaveCreate(p) /\ ~SaveWrite(p)
          BY <3>1 DEF Ask, SaveCreate, SaveWrite
        <4>3. ~Exit(p) /\ ~Kill(p)
          BY <1>2, <1>a DEF Exit, Kill, Goto, PcTypes
        <4> QED BY <4>1, <4>2, <4>3, QuietStep
      <3>3. p \notin disturbed /\ Saying' = Saying
        BY <1>2, <3>2, SayingKept DEF Quiet
      <3> QED BY <1>2, <1>b, <3>1, <3>3 DEF SeenInv
    <2>3. CASE StopReading(p)
      BY <1>a, <2>1, <2>3 DEF StopReading, ReadTypes
    <2>4. CASE ReadSource(p)
      <3>1. /\ UNCHANGED <<cmdline, sysConf, localConf, disturbed>> /\ pc[p] = "read"
            /\ src[p] \in 1 .. Len(Sources)
            /\ seen' = [seen EXCEPT ![p][src[p]] = normalizeData(Content(Sources[src[p]]))]
            /\ src' = [src EXCEPT ![p] = src[p] + 1]
        BY <1>a, <2>4 DEF ReadSource, ReadTypes, confs, saving
      <3>2. Saying' = Saying
        BY <3>1, SayingKept
      <3>3. Saying[src[p]] = normalizeData(Content(Sources[src[p]]))
        BY <3>1 DEF Saying
      <3>4. src'[p] = src[p] + 1
        BY <1>a, <3>1 DEF ReadTypes
      <3>5. CASE n = src[p]
        BY <1>a, <3>1, <3>2, <3>3, <3>5 DEF ReadTypes
      <3>6. CASE n < src[p]
        <4>1. seen'[p][n] = seen[p][n]
          BY <1>a, <3>1, <3>6 DEF ReadTypes
        <4> QED BY <1>2, <1>b, <3>1, <3>2, <3>6, <4>1 DEF SeenInv
      <3> QED BY <1>2, <3>1, <3>4, <3>5, <3>6
    <2>5. CASE ReadFails(p) /\ Sources[src[p]] = "cloud"
      BY <1>2, <2>5 DEF ReadFails
    <2>6. CASE ReadFails(p) /\ Sources[src[p]] # "cloud"
      BY <2>3, <2>6 DEF ReadFails
    <2> QED BY <2>2, <2>3, <2>4, <2>5, <2>6, ReadersOnly
  <1> QED BY <1>1, <1>2 DEF SeenInv

\* Where the installer ends.
LEMMA FinishEnds ==
    ASSUME PcTypes, NEW p \in Procs, NEW err, Finish(p, err)
    PROVE  pc'[p] \in {"apply", "ended"}
    BY DEF Finish, Return, Goto, PcTypes

\* Another run, whose position, configuration and answer stay as they were: either so
\* do the sources, or it is disturbed or at its end.
LEMMA AnswerOthers ==
    ASSUME IInv, NEW p \in Procs, Act(p), NEW q \in Procs \ {p}, q \notin disturbed',
           NEW f \in alike'[q]
    PROVE  /\ InFlight(pc'[q], Saying', f, cfg'[q][f])
           /\ q \in saved' /\ f \notin InstallFields =>
                 InForce(pc'[q], Saying', f, cfg'[q][f], answer'[q][f])
  <1>1. /\ pc'[q] = pc[q] /\ cfg'[q] = cfg[q] /\ answer'[q] = answer[q] /\ alike'[q] = alike[q]
        /\ (q \in saved' <=> q \in saved) /\ q \notin disturbed
    BY OthersPc, OthersCfg
  <1>2. /\ InFlight(pc[q], Saying, f, cfg[q][f])
        /\ q \in saved /\ f \notin InstallFields =>
              InForce(pc[q], Saying, f, cfg[q][f], answer[q][f])
    BY <1>1 DEF IInv, AnswerInv
  <1>3. CASE UNCHANGED <<cmdline, sysConf, localConf>>
    BY <1>1, <1>2, <1>3, SayingKept
  <1>4. CASE SaveCreate(p) \/ SaveWrite(p)
    <2>1. pc[q] \in {"idle", "ended", "gone", "killed"}
      BY <1>4 DEF SaveCreate, SaveWrite, Disturbs, IInv, TypeOK
    <2> QED BY <1>1, <1>2, <2>1 DEF InFlight, InForce
  <1> QED BY <1>3, <1>4, FilesStep

\* What has been read when ReadConfig comes to its end.
LEMMA AllSeen ==
    ASSUME IInv, NEW p \in Procs, Decode(p), p \notin disturbed
    PROVE  seen[p] = Saying /\ MergedFrom(src[p], seen[p], data[p])
  <1>1. pc[p] = "read" /\ src[p] > Len(Sources)
    BY DEF Decode
  <1>2. seen[p] \in [1 .. Len(Sources) -> Data]
    BY DEF IInv, TypeOK
  <1>3. \A n \in 1 .. Len(Sources) : seen[p][n] = Saying[n]
    <2>1. \A n \in 1 .. Len(Sources) : n < src[p]
      BY <1>1, SourceFacts DEF IInv, TypeOK
    <2> QED BY <1>1, <2>1 DEF IInv, SeenInv
  <1>4. seen[p] = Saying
    BY <1>2, <1>3 DEF Saying
  <1> QED BY <1>4 DEF IInv, ReadInv

\* ReadConfig returns to the installer, or to RunInstall.
LEMMA AnswerDecode ==
    ASSUME IInv, NEW p \in Procs, Decode(p), p \notin disturbed, NEW f \in alike'[p]
    PROVE  /\ InFlight(pc'[p], Saying', f, cfg'[p][f])
           /\ p \in saved /\ f \notin InstallFields =>
                 InForce(pc'[p], Saying', f, cfg'[p][f], answer'[p][f])
  <1>a. PcTypes /\ CfgTypes /\ RunTypes
    BY DEF IInv, TypeOK, PcTypes, CfgTypes, RunTypes
  <1>b. f \in Fields
    BY <1>a, MergeAssumption DEF Decode, RunTypes, Alike
  <1>1. seen[p] = Saying /\ MergedFrom(src[p], seen[p], data[p])
    BY AllSeen
  <1>c. AllData(seen[p], data[p]) /\ Merged(seen[p], data[p])
    BY <1>1 DEF IInv, TypeOK, AllData, MergedFrom
  <1>2. Saying' = Saying /\ answer' = answer
    BY SayingKept DEF Decode, confs
  <1>3. PICK c \in Decodings(data[p]) :
            \/ /\ cfg' = [cfg EXCEPT ![p] = c]
               /\ Goto(p, IF asking[p] THEN "ask" ELSE "apply")
            \/ Finish(p, TRUE) /\ UNCHANGED cfg
    BY DEF Decode
  <1>4. CASE asking[p]
    <2>1. p \notin saved
      BY <1>4 DEF IInv, CourseInv
    <2>2. f \in Alike(p)
      BY <1>4, <1>a DEF Decode, RunTypes
    <2>3. Agree(Saying, f, c[f], 0) /\ LocalPlain(Saying, f)
      BY <1>1, <1>b, <1>c, <2>2, AgreeRead
    <2>4. CASE cfg' = [cfg EXCEPT ![p] = c] /\ Goto(p, IF asking[p] THEN "ask" ELSE "apply")
      <3>1. pc'[p] = "ask" /\ cfg'[p] = c
        BY <1>4, <1>a, <2>4 DEF Goto, PcTypes, CfgTypes
      <3> QED BY <1>2, <2>1, <2>3, <3>1 DEF InFlight
    <2>5. CASE Finish(p, TRUE) /\ UNCHANGED cfg
      <3>1. pc'[p] \in {"apply", "ended"}
        BY <1>a, <2>5, FinishEnds
      <3> QED BY <2>1, <3>1 DEF InFlight
    <2> QED BY <1>3, <2>4, <2>5
  <1>5. CASE ~asking[p]
    <2>1. f \in alike[p]
      BY <1>5 DEF Decode
    <2>2. pc'[p] \in {"apply", "ended"}
      BY <1>3, <1>5, <1>a, FinishEnds DEF Goto, PcTypes
    <2>3. ASSUME p \in saved, f \notin InstallFields
          PROVE  cfg'[p][f] = answer[p][f]
      <3>1. InForce("read", Saying, f, cfg[p][f], answer[p][f])
        BY <2>1, <2>3 DEF IInv, AnswerInv, Decode
      <3>0. answer[p][f] \in Values
        BY <1>a, <1>b DEF CfgTypes, Config
      <3>2. c[f] = answer[p][f]
        <4>1. Agree(seen[p], f, answer[p][f], 0) /\ Written(seen[p], f, answer[p][f])
          BY <1>1, <3>1 DEF InForce
        <4> QED BY <1>b, <1>c, <3>0, <4>1, AgreeAgain
      <3>3. cfg'[p] = c \/ cfg'[p] = cfg[p]
        BY <1>3, <1>a DEF CfgTypes
      <3> QED BY <3>1, <3>2, <3>3 DEF InForce
    <2> QED BY <1>2, <2>2, <2>3 DEF InFlight, InForce
  <1> QED BY <1>4, <1>5

\* The questions are answered.
LEMMA AnswerAsk ==
    ASSUME IInv, NEW p \in Procs, Ask(p), p \notin disturbed, NEW f \in alike[p]
    PROVE  InFlight(pc'[p], Saying', f, cfg'[p][f])
  <1>a. PcTypes /\ CfgTypes /\ RunTypes
    BY DEF IInv, TypeOK, PcTypes, CfgTypes, RunTypes
  <1>b. f \in Fields /\ cfg[p] \in Config
    BY <1>a DEF RunTypes, CfgTypes
  <1>1. Agree(Saying, f, cfg[p][f], 0) /\ LocalPlain(Saying, f)
    BY DEF IInv, AnswerInv, InFlight, Ask
  <1>2. Saying' = Saying
    BY SayingKept DEF Ask, confs
  <1>3. CASE pc'[p] # "saveCreate"
    <2>1. pc'[p] \in {"confirm", "apply", "ended"}
      <3>1. Finish(p, TRUE) \/ pc' = [pc EXCEPT ![p] = "confirm"]
            \/ pc' = [pc EXCEPT ![p] = "saveCreate"]
        BY DEF Ask, Then, Goto
      <3> QED BY <1>3, <1>a, <3>1, FinishEnds DEF PcTypes
    <2> QED BY <2>1 DEF InFlight
  <1>4. CASE pc'[p] = "saveCreate"
    <2>1. ~Finish(p, TRUE)
      BY <1>4, <1>a, FinishEnds
    <2>2. PICK disk \in isInstall :
              /\ \E c \in (IF disk THEN AskInstall(cfg[p]) ELSE AskServerAgent(cfg[p])) :
                    cfg' = [cfg EXCEPT ![p] = c]
              /\ pc' = [pc EXCEPT ![p] = IF disk THEN "confirm" ELSE "saveCreate"]
      BY <2>1 DEF Ask, Then, Goto
    <2>3. ~disk
      BY <1>4, <1>a, <2>2 DEF PcTypes
    <2>4. PICK c \in AskServerAgent(cfg[p]) : cfg' = [cfg EXCEPT ![p] = c]
      BY <2>2, <2>3
    <2>5. cfg'[p] = c /\ Extends(c, cfg[p])
      BY <1>a, <1>b, <2>4, ServerAnswers DEF CfgTypes
    <2>6. Agree(Saying, f, c[f], 0)
      <3>1. CASE Has(cfg[p], f)
        BY <1>1, <1>b, <2>5, <3>1 DEF Extends
      <3>2. CASE ~Has(cfg[p], f)
        BY <1>1, <3>2, AgreeAnswer DEF Has
      <3> QED BY <3>1, <3>2
    <2> QED BY <1>1, <1>2, <1>4, <2>5, <2>6 DEF InFlight
  <1> QED BY <1>3, <1>4

\* A file is created.
LEMMA AnswerCreate ==
    ASSUME IInv, NEW p \in Procs, SaveCreate(p), p \notin disturbed, NEW f \in alike[p]
    PROVE  InFlight(pc'[p], Saying', f, cfg'[p][f])
  <1>a. PcTypes /\ Unset \in Config /\ cmdline' = cmdline /\ cfg' = cfg
    BY NothingType DEF IInv, TypeOK, PcTypes, SaveCreate
  <1>b. SysPlace # LocalPlace
    BY DEF SysPlace, LocalPlace
  <1>1. Agree(Saying, f, cfg[p][f], 0) /\ LocalPlain(Saying, f)
    BY DEF IInv, AnswerInv, InFlight, SaveCreate
  <1>2. CASE sysConf' = Marshal(Unset) /\ localConf' = localConf /\ Then(p, "saveSys")
    <2>1. \A n \in 1 .. Len(Sources) : n # SysPlace => Saying'[n] = Saying[n]
      BY <1>2, <1>a, <1>b, SayingWritten
    <2>2. Agree(Saying', f, cfg[p][f], SysPlace)
      BY <1>1, <2>1, AgreeCreate
    <2>3. pc'[p] = "saveSys"
      BY <1>2, <1>a DEF Then, Goto, PcTypes
    <2> QED BY <1>a, <2>2, <2>3 DEF InFlight
  <1>3. CASE localConf' = Marshal(Unset) /\ sysConf' = sysConf /\ Then(p, "saveLocal")
    <2>1. \A n \in 1 .. Len(Sources) : n # LocalPlace => Saying'[n] = Saying[n]
      BY <1>3, <1>a, <1>b, SayingWritten
    <2>2. Agree(Saying', f, cfg[p][f], LocalPlace)
      BY <1>1, <2>1, AgreeCreate
    <2>3. pc'[p] = "saveLocal"
      BY <1>3, <1>a DEF Then, Goto, PcTypes
    <2> QED BY <1>a, <2>2, <2>3 DEF InFlight
  <1>4. CASE Finish(p, TRUE)
    <2>1. pc'[p] \in {"apply", "ended"}
      BY <1>4, <1>a, FinishEnds
    <2> QED BY <2>1 DEF InFlight
  <1> QED BY <1>2, <1>3, <1>4 DEF SaveCreate

\* And written, and everything is read again.
LEMMA AnswerWrite ==
    ASSUME IInv, NEW p \in Procs, SaveWrite(p), p \notin disturbed, NEW f \in alike[p]
    PROVE  /\ InFlight(pc'[p], Saying', f, cfg'[p][f])
           /\ p \in saved' /\ f \notin InstallFields =>
                 InForce(pc'[p], Saying', f, cfg'[p][f], answer'[p][f])
  <1>a. /\ PcTypes /\ CfgTypes /\ RunTypes /\ cmdline' = cmdline /\ cfg' = cfg
    BY DEF IInv, TypeOK, PcTypes, CfgTypes, RunTypes, SaveWrite
  <1>b. f \in Fields /\ Saved(p) \in Config /\ SysPlace # LocalPlace
    BY <1>a DEF RunTypes, CfgTypes, Saved, Config, Values, SysPlace, LocalPlace
  <1>c. pc[p] \in {"saveSys", "saveLocal"} /\ p \notin saved
    BY DEF SaveWrite, IInv, CourseInv, InstallerPCs
  <1> DEFINE x == IF pc[p] = "saveSys" THEN SysPlace ELSE LocalPlace
  <1>1. CASE Finish(p, TRUE) /\ saved' = saved
    <2>1. pc'[p] \in {"apply", "ended"}
      BY <1>1, <1>a, FinishEnds
    <2> QED BY <1>1, <1>c, <2>1 DEF InFlight
  <1>2. CASE /\ IF pc[p] = "saveSys"
                THEN sysConf' = Marshal(Saved(p)) /\ UNCHANGED localConf
                ELSE localConf' = Marshal(Saved(p)) /\ UNCHANGED sysConf
             /\ answer' = [answer EXCEPT ![p] = Saved(p)]
             /\ Goto(p, "read")
    <2>1. x \in {SysPlace, LocalPlace} /\ x \in 1 .. Len(Sources)
      BY FilePlaces
    <2>2. Agree(Saying, f, cfg[p][f], x)
      BY <1>c DEF IInv, AnswerInv, InFlight
    <2>3. /\ x = SysPlace => sysConf' = Marshal(Saved(p)) /\ localConf' = localConf
          /\ x = LocalPlace => localConf' = Marshal(Saved(p)) /\ sysConf' = sysConf
      BY <1>2, <1>b
    <2> HIDE DEF x
    <2>4. /\ SaysOnly(Saying'[x], Saved(p))
          /\ \A n \in 1 .. Len(Sources) : n # x => Saying'[n] = Saying[n]
      BY <1>a, <1>b, <2>1, <2>3, SayingWritten
    <2>5. pc'[p] = "read" /\ answer'[p] = Saved(p)
      BY <1>2, <1>a DEF Goto, PcTypes, CfgTypes
    <2>6. ASSUME f \notin InstallFields
          PROVE  InForce("read", Saying', f, cfg[p][f], Saved(p)[f])
      <3>1. Saved(p)[f] = cfg[p][f]
        BY <1>b, <2>6 DEF Saved
      <3>2. Saying'[x]["snake"][f] = cfg[p][f] /\ Saying'[x]["alias"][f] = {}
        BY <1>b, <2>4, <3>1 DEF SaysOnly
      <3>3. Agree(Saying', f, cfg[p][f], 0) /\ Written(Saying', f, cfg[p][f])
        BY <2>1, <2>2, <2>4, <3>2, AgreeWrite
      <3> QED BY <3>1, <3>3 DEF InForce
    <2> QED BY <1>a, <2>5, <2>6 DEF InFlight
  <1> QED BY <1>1, <1>2 DEF SaveWrite

\* The answers of all runs stay on their way.
LEMMA AnswerStep ==
    ASSUME IInv, NEW p \in Procs, Act(p)
    PROVE  AnswerInv'
  <1>a. RunTypes
    BY DEF IInv, TypeOK, RunTypes
  <1>1. ASSUME p \notin disturbed', NEW f \in alike'[p]
        PROVE  /\ InFlight(pc'[p], Saying', f, cfg'[p][f])
               /\ p \in saved' /\ f \notin InstallFields =>
                     InForce(pc'[p], Saying', f, cfg'[p][f], answer'[p][f])
    <2>1. CASE Quiet(p)
      <3>1. /\ p \notin disturbed /\ f \in alike[p] /\ cfg' = cfg /\ answer' = answer
            /\ saved' = saved /\ Saying' = Saying
        BY <1>1, <2>1, SayingKept DEF Quiet
      <3>2. p \in saved /\ f \notin InstallFields =>
                InForce(pc[p], Saying, f, cfg[p][f], answer[p][f])
        BY <3>1 DEF IInv, AnswerInv
      <3> QED BY <2>1, <3>1, <3>2 DEF Quiet, InFlight, InForce
    <2>2. CASE Decode(p)
      <3>1. p \notin disturbed /\ saved' = saved
        BY <1>1, <2>2 DEF Decode
      <3> QED BY <1>1, <2>2, <3>1, AnswerDecode
    <2>3. CASE Ask(p)
      <3>1. p \notin disturbed /\ saved' = saved /\ alike' = alike /\ p \notin saved
        BY <1>1, <2>3 DEF Ask, saving, IInv, CourseInv, InstallerPCs
      <3> QED BY <1>1, <2>3, <3>1, AnswerAsk
    <2>4. CASE SaveCreate(p)
      <3>1. p \notin disturbed /\ saved' = saved /\ alike' = alike /\ p \notin saved
        BY <1>1, <2>4 DEF SaveCreate, Disturbs, IInv, CourseInv, InstallerPCs
      <3> QED BY <1>1, <2>4, <3>1, AnswerCreate
    <2>5. CASE SaveWrite(p)
      <3>1. p \notin disturbed /\ alike' = alike
        BY <1>1, <2>5 DEF SaveWrite, Disturbs
      <3> QED BY <1>1, <2>5, <3>1, AnswerWrite
    <2>6. CASE Exit(p) \/ Kill(p)
      <3>1. alike' = [alike EXCEPT ![p] = {}]
        BY <2>6 DEF Exit, Kill, Forget
      <3> QED BY <1>1, <1>a, <3>1 DEF RunTypes
    <2> QED BY <2>1, <2>2, <2>3, <2>4, <2>5, <2>6, QuietStep
  <1> QED BY <1>1, AnswerOthers DEF AnswerInv

-----------------------------------------------------------------------------
(* The invariant.                                                          *)

\* The machine as it comes up.
LEMMA InitIInv == ASSUME Init PROVE IInv
  <1>1. Variables \in SUBSET Items /\ Given["system"] \in Raw /\ Given["local"] \in Raw
    BY CloudAssumption DEF FileSources
  <1>2. PICK m \in Machines : mode = m.mode /\ cmdline = m.cmdline /\ phase = m.phase
    BY DEF Init
  <1>3. mode \in STRING /\ cmdline \in Seq([key : Fields, value : Items])
        /\ phase \in [Procs -> Phases]
    BY <1>2, CloudAssumption
  <1>4. Len(Sources) \in Nat
    BY SourceFacts
  <1>5. ConfTypes
    BY <1>1, <1>3 DEF Init, ConfTypes
  <1>6. FileTypes
    BY <1>1 DEF Init, FileTypes
  <1>7. RunTypes
    BY DEF Init, RunTypes
  <1>8. PcTypes
    BY DEF Init, PcTypes, PCs
  <1>9. CourseTypes
    BY <1>3 DEF Init, CourseTypes
  <1>10. ReadTypes
    BY <1>4, NothingType DEF Init, ReadTypes, NothingSeen
  <1>11. CfgTypes
    BY NothingType DEF Init, CfgTypes
  <1>12. WorkTypes
    BY TriesNat DEF Init, WorkTypes
  <1>13. TypeOK
    BY <1>5, <1>6, <1>7, <1>8, <1>9, <1>10, <1>11, <1>12
       DEF TypeOK, ConfTypes, FileTypes, RunTypes, PcTypes, CourseTypes, ReadTypes,
           CfgTypes, WorkTypes
  <1>14. MachineInv
    BY <1>2 DEF MachineInv
  <1>15. NothingLeftBehind
    BY DEF Init, NothingLeftBehind
  <1>16. KeysInv /\ EnvInv /\ ConfirmInv
    BY DEF Init, KeysInv, EnvInv, EnvPCs, ConfirmInv
  <1>17. ReadInv
    <2>1. MergedFrom(1, NothingSeen, Nothing)
      BY MergedNothing
    <2> QED BY <2>1 DEF Init, ReadInv
  <1>18. CourseInv
    BY DEF Init, CourseInv, InstallerPCs
  <1>19. SeenInv
    BY DEF Init, SeenInv
  <1>20. AnswerInv
    BY DEF Init, AnswerInv
  <1> QED BY <1>13, <1>14, <1>15, <1>16, <1>17, <1>18, <1>19, <1>20 DEF IInv

\* Every step keeps the invariant.
LEMMA NextIInv == ASSUME IInv, [Next]_vars PROVE IInv'
  <1>1. CASE UNCHANGED vars
    <2> USE <1>1 DEF vars, confs, sshFile, environment, leftovers, reading, course, work,
             saving
    <2>1. TypeOK'
      BY DEF IInv, TypeOK
    <2>2. MachineInv' /\ NothingLeftBehind' /\ KeysInv' /\ EnvInv'
      BY DEF IInv, MachineInv, NothingLeftBehind, KeysInv, Looking, EnvInv
    <2>3. ConfirmInv' /\ ReadInv'
      BY DEF IInv, ConfirmInv, ReadInv
    <2>4. Saying' = Saying
      BY SayingKept
    <2>5. CourseInv'
      BY DEF IInv, CourseInv
    <2>6. SeenInv' /\ AnswerInv'
      BY <2>4 DEF IInv, SeenInv, AnswerInv
    <2> QED BY <2>1, <2>2, <2>3, <2>5, <2>6 DEF IInv
  <1>2. CASE Next
    <2>1. PICK p \in Procs : Act(p)
      BY <1>2 DEF Next, Act
    <2>2. ConfTypes' /\ FileTypes' /\ RunTypes' /\ PcTypes'
      BY <2>1, ConfTypesStep, FileTypesStep, RunTypesStep, PcTypesStep
    <2>3. CourseTypes' /\ ReadTypes' /\ CfgTypes' /\ WorkTypes'
      BY <2>1, CourseTypesStep, ReadTypesStep, CfgTypesStep, WorkTypesStep
    <2>4. TypeOK'
      BY <2>2, <2>3
         DEF TypeOK, ConfTypes, FileTypes, RunTypes, PcTypes, CourseTypes, ReadTypes,
             CfgTypes, WorkTypes
    <2>5. MachineInv' /\ NothingLeftBehind' /\ KeysInv'
      BY <2>1, MachineStep, TempsStep, KeysStep
    <2>6. EnvInv' /\ ConfirmInv' /\ ReadInv'
      BY <2>1, EnvStep, ConfirmStep, ReadStep
    <2>7. CourseInv' /\ SeenInv' /\ AnswerInv'
      BY <2>1, CourseStep, SeenStep, AnswerStep
    <2> QED BY <2>4, <2>5, <2>6, <2>7 DEF IInv
  <1> QED BY <1>1, <1>2

-----------------------------------------------------------------------------
(* The theorems.                                                           *)

\* The invariant holds in every state of a machine on which any number of runs of
\* `k3os config` and `k3os install` are under way.
THEOREM Invariance == Spec => []IInv
    BY InitIInv, NextIInv, PTL DEF Spec

\* Every variable keeps its type, the number of attempts its limit (ssh.go:78).
THEOREM TypeCorrect == Spec => []TypeOK
  <1>1. IInv => TypeOK
    BY DEF IInv
  <1> QED BY <1>1, Invariance, PTL

\* No writer leaves a temporary file behind unless it was killed, or is one of the
\* two that are careless after an error (writefile.go:50, install.go:86).
THEOREM Tidy == Spec => []NothingLeftBehind
  <1>1. IInv => NothingLeftBehind
    BY DEF IInv
  <1> QED BY <1>1, Invariance, PTL

\* When no run is about to write /etc/environment, it has every variable it ever
\* had, unless runs overlapped there or one failed on the way (funcs.go:325).
THEOREM NoVariableLost == Spec => []EnvironmentKept
  <1>1. IInv => EnvironmentKept
    BY DEF IInv, EnvInv, EnvironmentKept
  <1> QED BY <1>1, Invariance, PTL

\* The disk is formatted only for a configuration that asks for silence, or that was
\* confirmed and names a device and a way in (ask.go:57, install.go:75).
THEOREM Confirmation == Spec => []FormatsWhatWasConfirmed
  <1>1. IInv => FormatsWhatWasConfirmed
    BY DEF IInv, ConfirmInv, Asked, FormatsWhatWasConfirmed
  <1> QED BY <1>1, Invariance, PTL

\* What the installer writes and reads again is what takes effect, in every field
\* that the sources did not spell at cross purposes, unless another run rewrote a
\* source meanwhile or the cloud data could not be read (install.go:36-57).
THEOREM AnswersHold == Spec => []AnswersTakeEffect
  <1>1. ASSUME IInv PROVE AnswersTakeEffect
    <2>1. saved \subseteq Procs
      BY <1>1 DEF IInv, TypeOK
    <2> QED BY <1>1, <2>1 DEF IInv, AnswerInv, InForce, AnswersTakeEffect
  <1> QED BY <1>1, Invariance, PTL

\* A key disappears from authorized_keys only by a run that looked at the file before
\* another one wrote it (ssh.go:103).
THEOREM KeysKept == Spec => KeysOnlyLostByOverlap
  <1> DEFINE Kept == \/ auth \subseteq auth'
                     \/ \E p \in stale : pc[p] \in {"sshCreate", "sshRename"} /\ pc'[p] # pc[p]
  <1>1. ASSUME IInv, [Next]_vars
        PROVE  [Kept]_vars
    <2>1. CASE UNCHANGED vars
      BY <2>1
    <2>2. CASE Next
      <3>1. PICK p \in Procs : Act(p)
        BY <2>2 DEF Next, Act
      <3> QED BY <1>1, <3>1, KeysLost
    <2> QED BY <1>1, <2>1, <2>2
  <1> QED BY <1>1, Invariance, PTL DEF Spec, KeysOnlyLostByOverlap

\* ReadConfig returns, for a field or a member of a map that its sources spell in one
\* way, what the last source that sets it says, whatever is rewritten meanwhile
\* (read.go:23, :69, decode.go:93).
THEOREM LastWinner == Spec => LastSourceWins
  <1> DEFINE Wins ==
        \A p \in Procs : pc[p] = "read" /\ pc'[p] = (IF asking[p] THEN "ask" ELSE "apply") =>
          \A f \in Fields : OneSpelling(p, f) =>
              cfg'[p][f] = {x \in Items : \E n \in 1 .. Len(Sources) : Stands(p, f, n, x)}
  <1>1. ASSUME IInv, [Next]_vars
        PROVE  [Wins]_vars
    <2>1. CASE UNCHANGED vars
      BY <2>1
    <2>2. CASE Next
      <3>1. PICK r \in Procs : Act(r)
        BY <2>2 DEF Next, Act
      <3>2. SUFFICES ASSUME NEW p \in Procs, pc[p] = "read",
                            pc'[p] = (IF asking[p] THEN "ask" ELSE "apply"),
                            NEW f \in Fields, OneSpelling(p, f)
                     PROVE  cfg'[p][f] = {x \in Items : \E n \in 1 .. Len(Sources) :
                                             Stands(p, f, n, x)}
        OBVIOUS
      <3>3. p = r /\ \E c \in Decodings(data[r]) : cfg' = [cfg EXCEPT ![r] = c]
        BY <1>1, <3>1, <3>2, DecodeOnly
      <3>4. PICK c \in Decodings(data[p]) : cfg' = [cfg EXCEPT ![p] = c]
        BY <3>3
      <3>5. cfg'[p] = c
        BY <1>1, <3>4 DEF IInv, TypeOK
      <3> QED BY <1>1, <3>2, <3>5, LastWins
    <2> QED BY <1>1, <2>1, <2>2
  <1> QED BY <1>1, Invariance, PTL DEF Spec, LastSourceWins
=============================================================================
