------------------------------- MODULE StateFile ------------------------------
(***************************************************************************)
(* state.yaml and the processes that write it: `goprox serve` (runServer)  *)
(* and `goprox sso` (runSSO) of main.go over internal/config/state.go.     *)
(*                                                                         *)
(* Every command begins with LoadState, which creates the file when it is  *)
(* missing and writes a generated session secret into it, without the      *)
(* config lock.  The Persist functions do take the lock (its contract is   *)
(* AtomicEdits; here a mutex that a crash releases), but it does not keep  *)
(* LoadState out.  Writes are atomic renames (writeFileAtomic).            *)
(*                                                                         *)
(* The document is its session secret (0: empty, n: the n-th generated),   *)
(* the recorded port and the two SSO settings.  Other server settings      *)
(* travel with the port.                                                   *)
(***************************************************************************)
EXTENDS Integers

CONSTANTS
    Gateways,     \* `goprox serve` processes, restarted at will
    PortOf,       \* the --port each is given, or None
    Commands,     \* `goprox sso` commands, each run at most once
    Asks,         \* what each asks for: "header", "hmac" or "off"
    Ports, DefaultPort,
    MaxSecrets,   \* bound: session secrets generated
    ReadErrors,   \* whether reading state.yaml under the lock may fail
    None

Processes == Gateways \cup Commands

ASSUME PortsAssumption == DefaultPort \in Ports /\ PortOf \in [Gateways -> Ports \cup {None}]
ASSUME CommandsAssumption ==
    /\ Gateways \cap Commands = {}
    /\ Asks \in [Commands -> {"header", "hmac", "off"}]
ASSUME ReadErrorsAssumption == ReadErrors \in BOOLEAN
ASSUME MaxSecretsAssumption == MaxSecrets \in Nat

SSO == [header : Commands \cup {None}, hmac : Commands \cup {None}]
Document == [secret : 0..MaxSecrets, port : Ports, sso : SSO]

ASSUME NoneAssumption == None \notin Document /\ None \notin Ports /\ None \notin Processes

VARIABLES
    file,       \* state.yaml, or None
    pc,         \* where each process is
    state,      \* what its LoadState returns (StateConfig)
    saw,        \* the file as it last saw it, or None
    lock,       \* who holds the config lock of state.yaml
    generated,  \* secrets generated so far
    clobbered,  \* history: a writer replaced a file it had not seen
    crossed,    \* history: an SSO command wrote over another one's change
    due         \* history: the SSO settings the successful commands add up to

process == <<pc, state, saw>>
history == <<clobbered, crossed, due>>
vars == <<file, process, lock, generated, history>>

Default == [secret |-> 0, port |-> DefaultPort, sso |-> [header |-> None, hmac |-> None]]
Content(document) == IF document = None THEN Default ELSE document

Steps == {"off", "stat", "create", "read", "generate", "bind",
          "persist", "merge", "running", "done"}

Running == {g \in Gateways : pc[g] = "running"}

(* A gateway's listener is open from net.Listen on.                        *)
Bound == {g \in Gateways : pc[g] \in {"persist", "merge", "running"}}

-----------------------------------------------------------------------------
Init ==
    /\ file = None
    /\ pc = [p \in Processes |-> "off"]
    /\ state = [p \in Processes |-> Default]
    /\ saw = [p \in Processes |-> None]
    /\ lock = None
    /\ generated = 0
    /\ clobbered = FALSE
    /\ crossed = FALSE
    /\ due = Default.sso

Goto(p, from, to) == pc[p] = from /\ pc' = [pc EXCEPT ![p] = to]

(* What a process knows ends with it; a running gateway keeps its state.   *)
Forget(p) ==
    /\ state' = [state EXCEPT ![p] = Default]
    /\ saw' = [saw EXCEPT ![p] = None]

(* Writing over a file that is not the one seen loses what others wrote.   *)
Replace(p, document) ==
    /\ file' = document
    /\ clobbered' = (clobbered \/ file # saw[p])

Start(p) ==
    /\ Goto(p, "off", "stat")
    /\ UNCHANGED <<file, state, saw, lock, generated, history>>

(* EnsureState: Stat.                                                      *)
Stat(p) ==
    /\ Goto(p, "stat", IF file = None THEN "create" ELSE "read")
    /\ saw' = [saw EXCEPT ![p] = None]
    /\ UNCHANGED <<file, state, lock, generated, history>>

(* EnsureState: the default state, without a secret.                       *)
Create(p) ==
    /\ Goto(p, "create", "read")
    /\ Replace(p, Default)
    /\ UNCHANGED <<state, saw, lock, generated, crossed, due>>

Loaded(p) == IF p \in Gateways THEN "bind" ELSE "persist"

(* Mutant: the secret read is not looked at, every start makes a new one.  *)
Read_AlwaysGenerates(p) ==
    /\ Goto(p, "read", "generate")
    /\ state' = [state EXCEPT ![p] = Content(file)]
    /\ saw' = [saw EXCEPT ![p] = file]
    /\ UNCHANGED <<file, lock, generated, history>>

(* LoadState: read and parse.                                              *)
Read(p) ==
    /\ Goto(p, "read", IF Content(file).secret = 0 THEN "generate" ELSE Loaded(p))
    /\ state' = [state EXCEPT ![p] = Content(file)]
    /\ saw' = [saw EXCEPT ![p] = file]
    /\ UNCHANGED <<file, lock, generated, history>>

(* LoadState: generate a secret and write the whole state back.            *)
Generate(p) ==
    /\ Goto(p, "generate", Loaded(p))
    /\ generated < MaxSecrets
    /\ generated' = generated + 1
    /\ state' = [state EXCEPT ![p].secret = generated + 1]
    /\ Replace(p, state'[p])
    /\ UNCHANGED <<saw, lock, crossed, due>>

ListenPort(g) == IF PortOf[g] = None THEN state[g].port ELSE PortOf[g]
PortTaken(g) == \E h \in Bound : state[h].port = ListenPort(g)

(* Mutant: the port is recorded before the listener is up.                 *)
Bind_PersistsFirst(g) ==
    /\ Goto(g, "bind", IF PortTaken(g) THEN "off" ELSE "persist")
    /\ state' = [state EXCEPT ![g].port = ListenPort(g)]
    /\ file' = [Content(file) EXCEPT !.port = ListenPort(g)]
    /\ UNCHANGED <<saw, lock, generated, history>>

(* applyListenOverrides, then net.Listen: the start fails when another     *)
(* gateway has the port.                                                   *)
Bind(g) ==
    /\ Goto(g, "bind", IF PortTaken(g) THEN "off" ELSE "persist")
    /\ state' = [state EXCEPT ![g].port = ListenPort(g)]
    /\ UNCHANGED <<file, saw, lock, generated, history>>

(* An HMAC-only command needs a configured header (log.Fatalf).            *)
Refused(c) == Asks[c] = "hmac" /\ state[c].sso.header = None

RefuseCommand(c) ==
    /\ Refused(c)
    /\ Goto(c, "persist", "done")
    /\ Forget(c)
    /\ UNCHANGED <<file, lock, generated, history>>

(* withConfigLock, then ReadFile: a read error counts as an empty file.    *)
PersistRead(p) ==
    /\ p \in Commands => ~Refused(p)
    /\ Goto(p, "persist", "merge")
    /\ lock = None
    /\ lock' = p
    /\ \/ saw' = [saw EXCEPT ![p] = file]
       \/ ReadErrors /\ saw' = [saw EXCEPT ![p] = None]
    /\ UNCHANGED <<file, state, generated, history>>

(* The lock times out.  The gateway logs a warning and serves on; the      *)
(* command fails.                                                          *)
PersistFails(p) ==
    /\ p \in Commands => ~Refused(p)
    /\ Goto(p, "persist", IF p \in Gateways THEN "running" ELSE "done")
    /\ IF p \in Gateways THEN UNCHANGED <<state, saw>> ELSE Forget(p)
    /\ UNCHANGED <<file, lock, generated, history>>

(* Mutant: the whole state loaded before the lock is written back.         *)
PersistServerConfig_WholeState(g) ==
    /\ Goto(g, "merge", "running")
    /\ Replace(g, state[g])
    /\ lock' = None
    /\ saw' = [saw EXCEPT ![g] = None]
    /\ UNCHANGED <<state, generated, crossed, due>>

(* PersistServerConfig: the server section of the file read under the lock.*)
PersistServerConfig(g) ==
    /\ Goto(g, "merge", "running")
    /\ Replace(g, [Content(saw[g]) EXCEPT !.port = state[g].port])
    /\ lock' = None
    /\ saw' = [saw EXCEPT ![g] = None]
    /\ UNCHANGED <<state, generated, crossed, due>>

(* Mutant: the section is replaced by the one setting that changed.        *)
Changed_SettingOnly(c, sso) ==
    CASE Asks[c] = "header" -> [header |-> c]
      [] Asks[c] = "hmac" -> [hmac |-> c]
      [] Asks[c] = "off" -> Default.sso

(* Settings after command c: what it asks for, the rest kept.              *)
Changed(c, sso) ==
    CASE Asks[c] = "header" -> [sso EXCEPT !.header = c]
      [] Asks[c] = "hmac" -> [sso EXCEPT !.hmac = c]
      [] Asks[c] = "off" -> Default.sso

(* PersistSSOConfig: the settings computed from LoadState's copy go into   *)
(* the file read under the lock.                                           *)
PersistSSOConfig(c) ==
    /\ Goto(c, "merge", "done")
    /\ Replace(c, [Content(saw[c]) EXCEPT !.sso = Changed(c, state[c].sso)])
    /\ crossed' = (crossed \/ Content(saw[c]).sso # state[c].sso)
    /\ due' = Changed(c, due)
    /\ lock' = None
    /\ Forget(c)
    /\ UNCHANGED generated

(* A process ends: a failed write, a crash, or the gateway is stopped.     *)
(* A gateway may be started again.                                         *)
End(p) ==
    /\ pc[p] \notin {"off", "done"}
    /\ pc' = [pc EXCEPT ![p] = IF p \in Gateways THEN "off" ELSE "done"]
    /\ lock' = IF lock = p THEN None ELSE lock
    /\ Forget(p)
    /\ UNCHANGED <<file, generated, history>>

LoadState(p) == Stat(p) \/ Create(p) \/ Read(p) \/ Generate(p)

Next ==
    \/ \E p \in Processes :
         Start(p) \/ LoadState(p) \/ PersistRead(p) \/ PersistFails(p) \/ End(p)
    \/ \E g \in Gateways : Bind(g) \/ PersistServerConfig(g)
    \/ \E c \in Commands : RefuseCommand(c) \/ PersistSSOConfig(c)

Spec == Init /\ [][Next]_vars

-----------------------------------------------------------------------------
TypeOK ==
    /\ file \in Document \cup {None}
    /\ pc \in [Processes -> Steps]
    /\ state \in [Processes -> Document]
    /\ saw \in [Processes -> Document \cup {None}]
    /\ lock \in Processes \cup {None}
    /\ generated \in 0..MaxSecrets
    /\ clobbered \in BOOLEAN /\ crossed \in BOOLEAN
    /\ due \in SSO

(* "A restart must reuse the persisted secret instead of rotating it"      *)
(* (state_test.go): the secret a running gateway signs with is the one the *)
(* next start will read.  (The claim; two overlapping first starts, or a   *)
(* read error while persisting, break it.)                                 *)
RestartKeepsSecret == \A g \in Running : file # None /\ file.secret = state[g].secret

(* It holds, with any commands and gateways starting, failing to bind,     *)
(* crashing and restarting, until some writer replaces a file it has not   *)
(* seen.                                                                   *)
SecretKeptUnlessClobbered == clobbered \/ RestartKeepsSecret

(* What `goprox sso` reported as done is what the file says, whatever      *)
(* gateways load and record meanwhile, as long as no two commands crossed  *)
(* (runSSO: a requested change never silently becomes a no-op).            *)
AckedSettingsKept == clobbered \/ crossed \/ Content(file).sso = due

(* A start that never bound its port leaves the recorded one alone         *)
(* (runServer persists "only after the listener is up"), again unless it   *)
(* wrote a generated secret over a newer file.                             *)
FailedStartKeepsPort ==
    [][~clobbered' /\ file # None /\ file'.port # file.port =>
         \E g \in Bound : pc'[g] = "running" /\ file'.port = state[g].port]_vars
===============================================================================
