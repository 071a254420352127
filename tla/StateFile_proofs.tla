---------------------------- MODULE StateFile_proofs ---------------------------
(***************************************************************************)
(* The three properties of state.yaml for any number of gateways, commands *)
(* and generated secrets.                                                  *)
(*                                                                         *)
(* They rest on what each process remembers: one about to create saw no    *)
(* file, one about to generate saw an empty secret and will write back     *)
(* what it saw.  A writer that replaces exactly what it saw (~clobbered)   *)
(* therefore never replaces a file with a secret by one with another.      *)
(***************************************************************************)
EXTENDS StateFile, TLAPS

Memory(p) ==
    /\ pc[p] = "create" => saw[p] = None
    /\ pc[p] = "generate" => /\ Content(saw[p]).secret = 0
                             /\ state[p].sso = Content(saw[p]).sso
                             /\ state[p].port = Content(saw[p]).port

Memories == \A p \in Processes : Memory(p)

Started == {"bind", "persist", "merge", "running"}

SecretOnFile ==
    ~clobbered => \A g \in Gateways : pc[g] \in Started =>
        /\ file # None
        /\ file.secret = state[g].secret
        /\ file.secret # 0

IInv == TypeOK /\ Memories /\ SecretOnFile /\ AckedSettingsKept

-----------------------------------------------------------------------------
LEMMA DefaultDocument == Default \in Document /\ Default.secret = 0 /\ Default.sso \in SSO
  BY PortsAssumption, MaxSecretsAssumption DEF Default, Document, SSO

LEMMA ContentDocument ==
    ASSUME NEW d \in Document \cup {None}
    PROVE  Content(d) \in Document /\ (d # None => Content(d) = d)
  BY DefaultDocument DEF Content

LEMMA NoDocument == Content(None) = Default
  BY DEF Content

LEMMA ChangedSettings ==
    ASSUME NEW c \in Commands, NEW sso \in SSO
    PROVE  Changed(c, sso) \in SSO
  BY CommandsAssumption, DefaultDocument DEF Changed, SSO

LEMMA WithSecret ==
    ASSUME NEW d \in Document, NEW n \in 0..MaxSecrets
    PROVE  /\ [d EXCEPT !.secret = n] \in Document
           /\ [d EXCEPT !.secret = n].secret = n
           /\ [d EXCEPT !.secret = n].port = d.port
           /\ [d EXCEPT !.secret = n].sso = d.sso
  BY DEF Document

LEMMA WithPort ==
    ASSUME NEW d \in Document, NEW port \in Ports
    PROVE  /\ [d EXCEPT !.port = port] \in Document
           /\ [d EXCEPT !.port = port].secret = d.secret
           /\ [d EXCEPT !.port = port].port = port
           /\ [d EXCEPT !.port = port].sso = d.sso
  BY DEF Document

LEMMA WithSSO ==
    ASSUME NEW d \in Document, NEW sso \in SSO
    PROVE  /\ [d EXCEPT !.sso = sso] \in Document
           /\ [d EXCEPT !.sso = sso].secret = d.secret
           /\ [d EXCEPT !.sso = sso].port = d.port
           /\ [d EXCEPT !.sso = sso].sso = sso
  BY DEF Document

LEMMA Initially == Init => IInv
<1> SUFFICES ASSUME Init PROVE IInv
  OBVIOUS
<1>1. TypeOK
  <2>1. state \in [Processes -> Document] /\ due \in SSO
    BY DefaultDocument DEF Init
  <2>2. pc \in [Processes -> Steps] /\ saw \in [Processes -> Document \cup {None}]
    BY DEF Init, Steps
  <2>3. generated \in 0..MaxSecrets
    BY MaxSecretsAssumption DEF Init
  <2> QED
    BY <2>1, <2>2, <2>3 DEF Init, TypeOK
<1>2. Memories /\ SecretOnFile
  BY DEF Init, Memories, Memory, SecretOnFile, Started, Processes
<1>3. AckedSettingsKept
  BY NoDocument DEF Init, AckedSettingsKept
<1> QED
  BY <1>1, <1>2, <1>3 DEF IInv

-----------------------------------------------------------------------------
LEMMA StartStep ==
    ASSUME IInv, NEW p \in Processes, Start(p)
    PROVE  IInv'
  BY DEF IInv, TypeOK, Memories, Memory, SecretOnFile, AckedSettingsKept, Start, Goto,
         Steps, Started, history

LEMMA StatStep ==
    ASSUME IInv, NEW p \in Processes, Stat(p)
    PROVE  IInv'
<1>1. TypeOK'
  BY DEF IInv, TypeOK, Stat, Goto, Steps, history
<1>2. Memories'
  BY DEF IInv, TypeOK, Memories, Memory, Stat, Goto
<1>3. SecretOnFile' /\ AckedSettingsKept'
  BY DEF IInv, TypeOK, SecretOnFile, AckedSettingsKept, Stat, Goto, Started, history
<1> QED
  BY <1>1, <1>2, <1>3 DEF IInv

LEMMA CreateStep ==
    ASSUME IInv, NEW p \in Processes, Create(p)
    PROVE  IInv'
<1>1. TypeOK'
  BY DefaultDocument DEF IInv, TypeOK, Create, Replace, Goto, Steps
<1>2. Memories'
  BY DEF IInv, TypeOK, Memories, Memory, Create, Goto
<1>3. ~clobbered' => ~clobbered /\ file = None
  BY DEF IInv, Memories, Memory, Create, Replace, Goto
<1>4. SecretOnFile'
  BY <1>3 DEF IInv, TypeOK, SecretOnFile, Create, Goto, Started
<1>5. AckedSettingsKept'
  BY <1>3, NoDocument, DefaultDocument, ContentDocument
  DEF IInv, AckedSettingsKept, Create, Replace
<1> QED
  BY <1>1, <1>2, <1>4, <1>5 DEF IInv

LEMMA ReadStep ==
    ASSUME IInv, NEW p \in Processes, Read(p)
    PROVE  IInv'
<1>1. Content(file) \in Document /\ (file # None => Content(file) = file)
  BY ContentDocument DEF IInv, TypeOK
<1>2. TypeOK'
  BY <1>1 DEF IInv, TypeOK, Read, Goto, Loaded, Steps, history
<1>3. ASSUME NEW q \in Processes PROVE Memory(q)'
  <2>1. CASE q = p
    BY <2>1 DEF IInv, TypeOK, Read, Goto, Loaded, Memory
  <2>2. CASE q # p
    BY <2>2 DEF IInv, TypeOK, Memories, Memory, Read, Goto
  <2> QED
    BY <2>1, <2>2
<1>4. SecretOnFile'
  <2> SUFFICES ASSUME ~clobbered', NEW g \in Gateways, pc'[g] \in Started
               PROVE  file' # None /\ file'.secret = state'[g].secret /\ file'.secret # 0
    BY DEF SecretOnFile
  <2>1. file' = file /\ clobbered' = clobbered /\ g \in Processes
    BY DEF Read, history, Processes
  <2>2. CASE g = p
    <3>1. Content(file).secret # 0 /\ state'[g] = Content(file)
      BY <2>2 DEF IInv, TypeOK, Read, Goto, Loaded, Started
    <3>2. file # None
      BY <3>1, NoDocument, DefaultDocument
    <3> QED
      BY <1>1, <2>1, <3>1, <3>2
  <2>3. CASE g # p
    BY <2>1, <2>3 DEF IInv, TypeOK, SecretOnFile, Read, Goto
  <2> QED
    BY <2>2, <2>3
<1>5. AckedSettingsKept'
  BY DEF IInv, AckedSettingsKept, Read, history
<1> QED
  BY <1>2, <1>3, <1>4, <1>5 DEF IInv, Memories

(* A generated secret that overwrites nothing unseen is the first one.     *)
LEMMA GenerateStep ==
    ASSUME IInv, NEW p \in Processes, Generate(p)
    PROVE  IInv'
<1> DEFINE new == [state[p] EXCEPT !.secret = generated + 1]
<1>1. generated + 1 \in 1..MaxSecrets
  BY MaxSecretsAssumption DEF IInv, TypeOK, Generate
<1>2. state[p] \in Document
  BY DEF IInv, TypeOK
<1>3. /\ new \in Document
      /\ new.secret = generated + 1
      /\ new.sso = state[p].sso
  BY <1>1, <1>2, WithSecret
<1>4. state' = [state EXCEPT ![p] = new]
  BY <1>2 DEF Generate, IInv, TypeOK
<1>5. state'[p] = new /\ file' = new
  BY <1>4 DEF Generate, Replace, IInv, TypeOK
<1> HIDE DEF new
<1>6. TypeOK'
  <2>1. state' \in [Processes -> Document] /\ file' \in Document
    BY <1>3, <1>4, <1>5 DEF IInv, TypeOK
  <2>2. generated' \in 0..MaxSecrets
    BY <1>1 DEF Generate
  <2> QED
    BY <2>1, <2>2 DEF IInv, TypeOK, Generate, Goto, Loaded, Steps, Replace
<1>7. ASSUME NEW q \in Processes PROVE Memory(q)'
  <2>1. CASE q = p
    BY <2>1 DEF IInv, TypeOK, Generate, Goto, Loaded, Memory
  <2>2. CASE q # p
    BY <1>4, <2>2 DEF IInv, TypeOK, Memories, Memory, Generate, Goto
  <2> QED
    BY <2>1, <2>2
<1>8. /\ Content(saw[p]).secret = 0
      /\ state[p].sso = Content(saw[p]).sso
  BY DEF IInv, Memories, Memory, Generate, Goto
<1>9. ~clobbered' => ~clobbered /\ file = saw[p]
  BY DEF Generate, Replace
<1>10. SecretOnFile'
  <2> SUFFICES ASSUME ~clobbered', NEW g \in Gateways, pc'[g] \in Started
               PROVE  file' # None /\ file'.secret = state'[g].secret /\ file'.secret # 0
    BY DEF SecretOnFile
  <2>1. g \in Processes
    BY DEF Processes
  <2>2. CASE g = p
    BY <1>1, <1>3, <1>5, <2>2, NoneAssumption
  <2>3. CASE g # p
    <3>1. file # None /\ file.secret # 0
      BY <1>9, <2>1, <2>3 DEF IInv, TypeOK, SecretOnFile, Generate, Goto
    <3>2. Content(file) = file
      BY <3>1, ContentDocument DEF IInv, TypeOK
    <3> QED
      BY <1>8, <1>9, <3>1, <3>2
  <2> QED
    BY <2>2, <2>3
<1>11. AckedSettingsKept'
  <2>1. Content(file') = new
    BY <1>3, <1>5, ContentDocument, NoneAssumption
  <2> QED
    BY <1>3, <1>8, <1>9, <2>1 DEF IInv, AckedSettingsKept, Generate
<1> QED
  BY <1>6, <1>7, <1>10, <1>11 DEF IInv, Memories

LEMMA BindStep ==
    ASSUME IInv, NEW g \in Gateways, Bind(g)
    PROVE  IInv'
<1>1. g \in Processes /\ state[g] \in Document
  BY DEF IInv, TypeOK, Processes
<1>2. ListenPort(g) \in Ports
  BY <1>1, PortsAssumption DEF ListenPort, Document
<1> DEFINE new == [state[g] EXCEPT !.port = ListenPort(g)]
<1>3. new \in Document /\ new.secret = state[g].secret
  BY <1>1, <1>2, WithPort
<1>4. state' = [state EXCEPT ![g] = new]
  BY <1>1 DEF Bind, IInv, TypeOK
<1> HIDE DEF new
<1>5. TypeOK'
  BY <1>1, <1>3, <1>4 DEF IInv, TypeOK, Bind, Goto, Steps, history
<1>6. Memories'
  BY <1>1, <1>4 DEF IInv, TypeOK, Memories, Memory, Bind, Goto
<1>7. SecretOnFile'
  <2> SUFFICES ASSUME ~clobbered', NEW h \in Gateways, pc'[h] \in Started
               PROVE  file' # None /\ file'.secret = state'[h].secret /\ file'.secret # 0
    BY DEF SecretOnFile
  <2>1. h \in Processes /\ file' = file /\ ~clobbered
    BY DEF Bind, history, Processes
  <2>2. pc[h] \in Started
    BY <1>1, <2>1 DEF Bind, Goto, Started, IInv, TypeOK
  <2>3. state'[h].secret = state[h].secret
    BY <1>1, <1>3, <1>4, <2>1 DEF IInv, TypeOK
  <2> QED
    BY <2>1, <2>2, <2>3 DEF IInv, SecretOnFile
<1>8. AckedSettingsKept'
  BY DEF IInv, AckedSettingsKept, Bind, history
<1> QED
  BY <1>5, <1>6, <1>7, <1>8 DEF IInv

(* Steps that only change how far a process is and what it remembers.      *)
LEMMA QuietStep ==
    ASSUME IInv, NEW p \in Processes,
           PersistRead(p) \/ PersistFails(p) \/ End(p) \/ (p \in Commands /\ RefuseCommand(p))
    PROVE  IInv'
<1>1. UNCHANGED <<file, generated, history>>
  BY DEF PersistRead, PersistFails, End, RefuseCommand
<1>2. TypeOK'
  <2>1. saw' \in [Processes -> Document \cup {None}]
    BY DEF IInv, TypeOK, PersistRead, PersistFails, End, RefuseCommand, Forget
  <2>2. state' \in [Processes -> Document]
    BY DefaultDocument DEF IInv, TypeOK, PersistRead, PersistFails, End, RefuseCommand, Forget
  <2>3. pc' \in [Processes -> Steps]
    BY DEF IInv, TypeOK, PersistRead, PersistFails, End, RefuseCommand, Goto, Steps
  <2>4. lock' \in Processes \cup {None}
    BY DEF IInv, TypeOK, PersistRead, PersistFails, End, RefuseCommand
  <2> QED
    BY <1>1, <2>1, <2>2, <2>3, <2>4 DEF IInv, TypeOK, history
<1>3. \A q \in Processes \ {p} : pc'[q] = pc[q] /\ state'[q] = state[q] /\ saw'[q] = saw[q]
  BY DEF IInv, TypeOK, PersistRead, PersistFails, End, RefuseCommand, Goto, Forget
<1>4. pc'[p] \in {"off", "merge", "running", "done"}
  BY DEF IInv, TypeOK, PersistRead, PersistFails, End, RefuseCommand, Goto
<1>5. p \in Gateways /\ pc'[p] \in Started => pc[p] \in Started /\ state'[p] = state[p]
  BY CommandsAssumption
  DEF IInv, TypeOK, PersistRead, PersistFails, End, RefuseCommand, Goto, Started
<1>6. ASSUME NEW q \in Processes PROVE Memory(q)'
  BY <1>3, <1>4 DEF IInv, Memories, Memory
<1>7. SecretOnFile'
  BY <1>1, <1>3, <1>5 DEF IInv, SecretOnFile, history, Processes
<1>8. AckedSettingsKept'
  BY <1>1 DEF IInv, AckedSettingsKept, history
<1> QED
  BY <1>2, <1>6, <1>7, <1>8 DEF IInv, Memories

LEMMA PersistServerStep ==
    ASSUME IInv, NEW g \in Gateways, PersistServerConfig(g)
    PROVE  IInv'
<1>1. g \in Processes /\ state[g].port \in Ports
  BY DEF IInv, TypeOK, Processes, Document
<1>2. Content(saw[g]) \in Document
  BY <1>1, ContentDocument DEF IInv, TypeOK
<1> DEFINE new == [Content(saw[g]) EXCEPT !.port = state[g].port]
<1>3. /\ new \in Document
      /\ new.secret = Content(saw[g]).secret
      /\ new.sso = Content(saw[g]).sso
  BY <1>1, <1>2, WithPort
<1>4. file' = new /\ (~clobbered' => ~clobbered /\ file = saw[g])
  BY DEF PersistServerConfig, Replace
<1> HIDE DEF new
<1>5. TypeOK'
  BY <1>1, <1>3, <1>4 DEF IInv, TypeOK, PersistServerConfig, Replace, Goto, Steps
<1>6. Memories'
  BY <1>1 DEF IInv, TypeOK, Memories, Memory, PersistServerConfig, Goto
<1>7. SecretOnFile'
  <2> SUFFICES ASSUME ~clobbered', NEW h \in Gateways, pc'[h] \in Started
               PROVE  file' # None /\ file'.secret = state'[h].secret /\ file'.secret # 0
    BY DEF SecretOnFile
  <2>1. h \in Processes /\ pc[h] \in Started /\ state' = state
    BY <1>1 DEF PersistServerConfig, Goto, Started, IInv, TypeOK, Processes
  <2>2. file # None /\ file.secret = state[h].secret /\ file.secret # 0
    BY <1>4, <2>1 DEF IInv, SecretOnFile
  <2>3. Content(saw[g]) = file
    BY <1>4, <2>2, ContentDocument DEF IInv, TypeOK
  <2> QED
    BY <1>3, <1>4, <2>1, <2>2, <2>3, NoneAssumption
<1>8. AckedSettingsKept'
  <2>1. Content(file') = new
    BY <1>3, <1>4, ContentDocument, NoneAssumption
  <2> QED
    BY <1>3, <1>4, <2>1 DEF IInv, AckedSettingsKept, PersistServerConfig
<1> QED
  BY <1>5, <1>6, <1>7, <1>8 DEF IInv

LEMMA PersistSSOStep ==
    ASSUME IInv, NEW c \in Commands, PersistSSOConfig(c)
    PROVE  IInv'
<1>1. c \in Processes /\ c \notin Gateways /\ state[c].sso \in SSO /\ due \in SSO
  BY CommandsAssumption DEF IInv, TypeOK, Processes, Document
<1>2. Content(saw[c]) \in Document
  BY <1>1, ContentDocument DEF IInv, TypeOK
<1>3. Changed(c, state[c].sso) \in SSO /\ Changed(c, due) \in SSO
  BY <1>1, ChangedSettings
<1> DEFINE new == [Content(saw[c]) EXCEPT !.sso = Changed(c, state[c].sso)]
<1>4. /\ new \in Document
      /\ new.secret = Content(saw[c]).secret
      /\ new.sso = Changed(c, state[c].sso)
  BY <1>2, <1>3, WithSSO
<1>5. file' = new /\ (~clobbered' => ~clobbered /\ file = saw[c])
  BY DEF PersistSSOConfig, Replace
<1> HIDE DEF new
<1>6. TypeOK'
  <2>1. state' \in [Processes -> Document] /\ saw' \in [Processes -> Document \cup {None}]
    BY DefaultDocument DEF IInv, TypeOK, PersistSSOConfig, Forget
  <2>2. clobbered' \in BOOLEAN /\ crossed' \in BOOLEAN /\ due' \in SSO
    BY <1>3 DEF IInv, TypeOK, PersistSSOConfig, Replace
  <2>3. file' \in Document \cup {None} /\ lock' \in Processes \cup {None}
    BY <1>4, <1>5 DEF PersistSSOConfig
  <2> QED
    BY <1>1, <2>1, <2>2, <2>3 DEF IInv, TypeOK, PersistSSOConfig, Goto, Steps
<1>7. Memories'
  BY <1>1 DEF IInv, TypeOK, Memories, Memory, PersistSSOConfig, Goto, Forget
<1>8. SecretOnFile'
  <2> SUFFICES ASSUME ~clobbered', NEW h \in Gateways, pc'[h] \in Started
               PROVE  file' # None /\ file'.secret = state'[h].secret /\ file'.secret # 0
    BY DEF SecretOnFile
  <2>1. h \in Processes /\ pc[h] \in Started /\ state'[h] = state[h]
    BY <1>1 DEF PersistSSOConfig, Goto, Forget, IInv, TypeOK, Processes
  <2>2. file # None /\ file.secret = state[h].secret /\ file.secret # 0
    BY <1>5, <2>1 DEF IInv, SecretOnFile
  <2>3. Content(saw[c]) = file
    BY <1>5, <2>2, ContentDocument DEF IInv, TypeOK
  <2> QED
    BY <1>4, <1>5, <2>1, <2>2, <2>3, NoneAssumption
<1>9. AckedSettingsKept'
  <2>1. Content(file') = new
    BY <1>4, <1>5, ContentDocument, NoneAssumption
  <2>2. ~crossed' => ~crossed /\ Content(saw[c]).sso = state[c].sso
    BY DEF PersistSSOConfig
  <2>3. due' = Changed(c, due)
    BY DEF PersistSSOConfig
  <2> QED
    BY <1>4, <1>5, <2>1, <2>2, <2>3 DEF IInv, AckedSettingsKept
<1> QED
  BY <1>6, <1>7, <1>8, <1>9 DEF IInv

LEMMA Inductive == IInv /\ [Next]_vars => IInv'
<1> SUFFICES ASSUME IInv, [Next]_vars PROVE IInv'
  OBVIOUS
<1>1. CASE UNCHANGED vars
  BY <1>1 DEF vars, process, history, IInv, TypeOK, Memories, Memory, SecretOnFile,
              AckedSettingsKept
<1>2. CASE Next
  BY <1>2, StartStep, StatStep, CreateStep, ReadStep, GenerateStep, BindStep, QuietStep,
     PersistServerStep, PersistSSOStep DEF Next, LoadState, Processes
<1> QED
  BY <1>1, <1>2

-----------------------------------------------------------------------------
LEMMA Invariant == Spec => []IInv
  BY Initially, Inductive, PTL DEF Spec

(* The file, the processes and the lock keep their types.                  *)
THEOREM TypeCorrect == Spec => []TypeOK
<1>1. IInv => TypeOK
  BY DEF IInv
<1> QED
  BY <1>1, Invariant, PTL

(* LoadState, PersistServerConfig: until a writer replaces a file it has   *)
(* not seen, every running gateway's session secret is the one on file, so *)
(* that a restart logs nobody out.                                         *)
THEOREM SecretKept == Spec => []SecretKeptUnlessClobbered
<1>1. IInv => SecretKeptUnlessClobbered
  BY DEF IInv, SecretOnFile, SecretKeptUnlessClobbered, RestartKeepsSecret, Running, Started
<1> QED
  BY <1>1, Invariant, PTL

(* runSSO: what successful commands asked for is what the file says, until *)
(* one of them crosses another or an unseen file is replaced.              *)
THEOREM SettingsKept == Spec => []AckedSettingsKept
<1>1. IInv => AckedSettingsKept
  BY DEF IInv
<1> QED
  BY <1>1, Invariant, PTL

LEMMA PortStep ==
    ASSUME IInv, Next, ~clobbered', file # None, file'.port # file.port
    PROVE  \E g \in Bound : pc'[g] = "running" /\ file'.port = state[g].port
<1>1. Content(file) = file
  BY ContentDocument DEF IInv, TypeOK
<1>2. ASSUME NEW p \in Processes, Create(p) PROVE FALSE
  BY <1>2 DEF IInv, Memories, Memory, Create, Replace, Goto
<1>3. ASSUME NEW p \in Processes, Generate(p) PROVE FALSE
  <2>1. state[p] \in Document /\ generated + 1 \in 0..MaxSecrets
    BY <1>3, MaxSecretsAssumption DEF IInv, TypeOK, Generate
  <2> DEFINE new == [state[p] EXCEPT !.secret = generated + 1]
  <2>2. new.port = state[p].port
    BY <2>1, WithSecret
  <2>3. file' = new /\ file = saw[p]
    BY <1>3, <2>1 DEF Generate, Replace, IInv, TypeOK
  <2> HIDE DEF new
  <2>4. state[p].port = Content(saw[p]).port
    BY <1>3 DEF IInv, Memories, Memory, Generate, Goto
  <2> QED
    BY <1>1, <2>2, <2>3, <2>4
<1>4. ASSUME NEW c \in Commands, PersistSSOConfig(c) PROVE FALSE
  <2>1. Changed(c, state[c].sso) \in SSO
    BY ChangedSettings DEF IInv, TypeOK, Processes, Document
  <2>2. file = saw[c] /\ file' = [Content(saw[c]) EXCEPT !.sso = Changed(c, state[c].sso)]
    BY <1>4 DEF PersistSSOConfig, Replace
  <2>3. Content(saw[c]) \in Document
    BY <1>1, <2>2, ContentDocument DEF IInv, TypeOK
  <2> QED
    BY <1>1, <2>1, <2>2, <2>3, WithSSO
<1>5. ASSUME NEW g \in Gateways, PersistServerConfig(g)
      PROVE  g \in Bound /\ pc'[g] = "running" /\ file'.port = state[g].port
  <2>1. g \in Processes /\ state[g].port \in Ports
    BY DEF IInv, TypeOK, Processes, Document
  <2>2. Content(saw[g]) \in Document
    BY <2>1, ContentDocument DEF IInv, TypeOK
  <2>3. file'.port = state[g].port
    BY <1>5, <2>1, <2>2, WithPort DEF PersistServerConfig, Replace
  <2> QED
    BY <1>5, <2>1, <2>3 DEF PersistServerConfig, Goto, Bound, IInv, TypeOK
<1>6. \/ \E p \in Processes : Create(p) \/ Generate(p)
      \/ \E c \in Commands : PersistSSOConfig(c)
      \/ \E g \in Gateways : PersistServerConfig(g)
  BY DEF Next, LoadState, Start, Stat, Read, PersistRead, PersistFails, End, Bind,
         RefuseCommand
<1> QED
  BY <1>2, <1>3, <1>4, <1>5, <1>6

(* runServer: the recorded port is changed only by a gateway that listens  *)
(* on it, so a start that fails to bind leaves it alone.                   *)
THEOREM PortKept == Spec => FailedStartKeepsPort
<1>1. IInv /\ [Next]_vars =>
        [~clobbered' /\ file # None /\ file'.port # file.port =>
           \E g \in Bound : pc'[g] = "running" /\ file'.port = state[g].port]_vars
  BY PortStep
<1> QED
  BY <1>1, Invariant, PTL DEF Spec, FailedStartKeepsPort
===============================================================================
