---------------------------- MODULE AppPodProofs -----------------------------
(***************************************************************************)
(* What AppPod's side cars keep for every number of rotations, faults,     *)
(* commands and updates.                                                   *)
(***************************************************************************)
EXTENDS AppPod, SequenceTheorems, TLAPS

(***************************************************************************)
(* dbproxy.  Versions only grow from what runs, over what was last written *)
(* and what was read, to the file; what is about to be loaded is whole and *)
(* newer than what runs.                                                   *)
(***************************************************************************)
ProxyInv ==
    /\ file \in Nat /\ dsn \in Nat /\ hash \in Nat /\ config \in Nat /\ auth \in Nat
    /\ running \in Nat /\ booted \in BOOLEAN
    /\ running <= hash /\ hash <= file /\ dsn <= file
    /\ booted = FALSE => running = 0
    /\ pc \in {"open", "config", "auth", "start", "reload"} => hash <= dsn
    /\ pc \in {"config", "auth", "start", "reload"} => hash = dsn /\ running < dsn
    /\ pc \in {"auth", "start", "reload"} => config = dsn
    /\ pc \in {"start", "reload"} => auth = dsn
    /\ pc = "reload" => booted = TRUE

(* No step of dbproxy breaks the order.                                    *)
LEMMA ProxyStepKeeps == ASSUME ProxyInv, DbProxy!Step PROVE ProxyInv'
<1> USE DEF ProxyInv, DbProxy!At
<1>1. CASE DbProxy!WaitForFiles
    BY <1>1 DEF DbProxy!WaitForFiles, DbProxy!outVars, DbProxy!procVars
<1>2. CASE DbProxy!ReadDSN
    BY <1>2 DEF DbProxy!ReadDSN, DbProxy!outVars
<1>3. CASE DbProxy!Open
    BY <1>3 DEF DbProxy!Open, DbProxy!Duplicate, DbProxy!AfterDuplicate, DbProxy!procVars
<1>4. CASE DbProxy!WriteConfig
    BY <1>4 DEF DbProxy!WriteConfig, DbProxy!procVars
<1>5. CASE DbProxy!WriteAuth
    BY <1>5 DEF DbProxy!WriteAuth, DbProxy!procVars
<1>6. CASE DbProxy!StartPgbouncer
    BY <1>6 DEF DbProxy!StartPgbouncer, DbProxy!Loaded, DbProxy!outVars
<1>7. CASE DbProxy!Reload
    BY <1>7 DEF DbProxy!Reload, DbProxy!Loaded, DbProxy!outVars, DbProxy!procVars
<1>8. CASE DbProxy!FirstWatch
    BY <1>8 DEF DbProxy!FirstWatch, DbProxy!outVars, DbProxy!procVars
<1>9. CASE DbProxy!Rewatch
    BY <1>9 DEF DbProxy!Rewatch, DbProxy!outVars, DbProxy!procVars
<1>10. CASE DbProxy!ReceiveEvent
    BY <1>10 DEF DbProxy!ReceiveEvent, DbProxy!outVars, DbProxy!procVars
<1>11. CASE DbProxy!WriteFails
    BY <1>11 DEF DbProxy!WriteFails, DbProxy!fileVars
<1>12. CASE DbProxy!ReloadFails
    BY <1>12 DEF DbProxy!ReloadFails, DbProxy!fileVars, DbProxy!outVars, DbProxy!procVars
<1>13. CASE DbProxy!Restart
  <2>1. booted' \in BOOLEAN
      BY <1>13, Zenon DEF DbProxy!Restart
  <2> QED
      BY <1>13, <2>1 DEF DbProxy!Restart
<1> QED
    BY <1>1, <1>2, <1>3, <1>4, <1>5, <1>6, <1>7, <1>8, <1>9, <1>10, <1>11, <1>12, <1>13, Zenon
    DEF DbProxy!Step, DbProxy!Proxy

(* dbproxy only reads the file.                                            *)
LEMMA ProxyStepFile == ASSUME DbProxy!Step PROVE file' = file
BY DEF DbProxy!Step, DbProxy!Proxy, DbProxy!At, DbProxy!WaitForFiles, DbProxy!ReadDSN,
       DbProxy!Open, DbProxy!WriteConfig, DbProxy!WriteAuth, DbProxy!StartPgbouncer,
       DbProxy!Reload, DbProxy!FirstWatch, DbProxy!Rewatch, DbProxy!ReceiveEvent,
       DbProxy!WriteFails, DbProxy!ReloadFails, DbProxy!Restart, DbProxy!fileVars

(* Neither does a step of the pod break the order.                         *)
LEMMA ProxyInvKept == ASSUME ProxyInv, [Next]_vars PROVE ProxyInv'
<1>1. CASE ProxySteps(DbProxy!Step)
    BY <1>1, ProxyStepKeeps DEF ProxySteps
<1>2. CASE SecretChanges
    BY <1>2 DEF SecretChanges, DbProxy!SecretChanges, ProxyInv, DbProxy!outVars, DbProxy!procVars
<1>3. CASE UNCHANGED <<file, proxyVars>>
    BY <1>3 DEF proxyVars, ProxyInv
<1> QED
    BY <1>1, <1>2, <1>3 DEF Next, Admit, Start, ExecSteps, OtherChanges, vars

(* A step of dbproxy is a step of SecretUse, or changes nothing there.     *)
LEMMA ProxyStepUses ==
    ASSUME ProxyInv, DbProxy!Step PROVE [ProxyUse!Next]_(ProxyUse!vars)
<1> USE DEF ProxyInv, ProxyUse!Next, ProxyUse!vars, ProxyUse!Follow, ProxyUse!Stop
<1>1. CASE DbProxy!StartPgbouncer
  <2>1. booted' = TRUE
      BY <1>1, Zenon DEF DbProxy!StartPgbouncer
  <2>2. running' \in (running + 1)..file /\ file' = file
      BY <1>1 DEF DbProxy!StartPgbouncer, DbProxy!At, DbProxy!Loaded
  <2> QED
      BY <2>1, <2>2, Zenon
<1>2. CASE DbProxy!Reload
    BY <1>2 DEF DbProxy!Reload, DbProxy!At, DbProxy!Loaded, DbProxy!procVars
<1>3. CASE DbProxy!Restart
    BY <1>3 DEF DbProxy!Restart
<1>4. CASE UNCHANGED <<file, running, booted>>
    BY <1>4
<1> QED
    BY <1>1, <1>2, <1>3, <1>4, Zenon
    DEF DbProxy!Step, DbProxy!Proxy, DbProxy!At, DbProxy!WaitForFiles, DbProxy!ReadDSN,
        DbProxy!Open, DbProxy!WriteConfig, DbProxy!WriteAuth, DbProxy!FirstWatch,
        DbProxy!Rewatch, DbProxy!ReceiveEvent, DbProxy!WriteFails, DbProxy!ReloadFails,
        DbProxy!procVars, DbProxy!outVars, DbProxy!fileVars

(* dbproxy implements SecretUse: whatever the rotations, failed writes,    *)
(* failed reloads and restarts, pgbouncer loads only whole configurations, *)
(* each newer than the last.                                               *)
THEOREM ProxyRefinesSecretUse == Spec => ProxyImplementsSecretUse
<1>1. Init => ProxyInv /\ ProxyUse!Init
  <2>1. Init => booted \in BOOLEAN
      BY Zenon DEF Init, DbProxy!Init
  <2> QED
      BY <2>1 DEF Init, DbProxy!Init, ProxyInv, ProxyUse!Init
<1>2. ProxyInv /\ [Next]_vars => ProxyInv'
    BY ProxyInvKept
<1>3. ProxyInv /\ [Next]_vars => [ProxyUse!Next]_(ProxyUse!vars)
  <2> SUFFICES ASSUME ProxyInv, [Next]_vars PROVE [ProxyUse!Next]_(ProxyUse!vars)
      OBVIOUS
  <2>1. CASE ProxySteps(DbProxy!Step)
      BY <2>1, ProxyStepUses DEF ProxySteps
  <2>2. CASE SecretChanges
      BY <2>2 DEF SecretChanges, DbProxy!SecretChanges, DbProxy!procVars,
                  ProxyUse!Next, ProxyUse!Change
  <2>3. CASE UNCHANGED <<file, proxyVars>>
      BY <2>3 DEF proxyVars, ProxyUse!vars
  <2> QED
      BY <2>1, <2>2, <2>3 DEF Next, Admit, Start, ExecSteps, OtherChanges, vars
<1> QED
    BY <1>1, <1>2, <1>3, PTL DEF Spec, ProxyImplementsSecretUse, ProxyUse!Spec

-----------------------------------------------------------------------------
(***************************************************************************)
(* dsnexec.                                                                *)
(***************************************************************************)
Files == {"dsn", "other"}

ExecType ==
    /\ file \in Nat /\ other \in Nat
    /\ reported \in [Files -> Nat] /\ held \in [Files -> Nat]
    /\ sources \in [Files -> Nat] /\ args \in [Files -> Nat]
    /\ updates \in Seq([source : Files, value : Nat \ {0}])
    /\ command \in 1..NCommands
    /\ dest \in [1..NCommands -> [Files -> Nat]]
    /\ execPc \in {"watch", "exec", "select"}

(* The arguments are the sources, and the commands before the next one     *)
(* have been run with them.                                                *)
RunInv ==
    /\ execPc = "exec" =>
          args = sources /\ \A c \in 1..NCommands : c < command => dest[c] = sources
    /\ execPc = "select" => \A c \in 1..NCommands : dest[c] = sources

(* No stage of the way of s to the destination is ahead of the one before  *)
(* it, across exits too.                                                   *)
Order(s) ==
    /\ reported[s] <= content[s] /\ sources[s] <= reported[s]
    /\ \A i \in 1..Len(updates) : updates[i].source = s =>
          sources[s] <= updates[i].value /\ updates[i].value <= reported[s]
    /\ \A i, j \in 1..Len(updates) :
          i < j /\ updates[i].source = s /\ updates[j].source = s
          => updates[i].value <= updates[j].value
    /\ dest[NCommands][s] <= content[s]
    /\ reported[s] # 0 => dest[NCommands][s] <= sources[s]
    /\ execPc # "watch" => reported[s] # 0

(* What is reported last is held, or sent last, or the handler's.          *)
Way(s) ==
    /\ held[s] # 0 => held[s] = reported[s]
    /\ held[s] = 0 =>
          \/ /\ sources[s] = reported[s]
             /\ \A i \in 1..Len(updates) : updates[i].source # s
          \/ \E i \in 1..Len(updates) :
                /\ updates[i].source = s /\ updates[i].value = reported[s]
                /\ \A j \in 1..Len(updates) : updates[j].source = s => j <= i

WayInv == \A s \in Files : Order(s) /\ Way(s)

ExecInv == ExecType /\ RunInv /\ WayInv

(* The sources have versions.                                              *)
LEMMA ContentType == ASSUME ExecType PROVE content \in [Files -> Nat]
BY DEF ExecType, content, Files

(* No step of dsnexec breaks the types.                                    *)
LEMMA ExecTypeKept == ASSUME ExecType, DsnExec!Step, UNCHANGED <<file, other>> PROVE ExecType'
<1> USE ExecAssumption DEF ExecType
<1>1. ASSUME NEW s \in Files, DsnExec!WatchSource(s) PROVE ExecType'
    BY <1>1, ContentType, Zenon DEF DsnExec!WatchSource
<1>2. CASE DsnExec!InitialSync
  <2>1. 1 \in 1..NCommands
      OBVIOUS
  <2> QED
      BY <1>2, <2>1, Zenon DEF DsnExec!InitialSync, DsnExec!watchVars
<1>3. ASSUME NEW s \in Files, DsnExec!Notify(s) PROVE ExecType'
    BY <1>3, ContentType, Zenon DEF DsnExec!Notify, DsnExec!handlerVars
<1>4. ASSUME NEW s \in Files, DsnExec!Forward(s) PROVE ExecType'
  <2>1. [source |-> s, value |-> held[s]] \in [source : Files, value : Nat \ {0}]
      BY <1>4 DEF DsnExec!Forward
  <2>2. updates' \in Seq([source : Files, value : Nat \ {0}])
      BY <1>4, <2>1, AppendProperties DEF DsnExec!Forward
  <2> QED
      BY <1>4, <2>2, Zenon DEF DsnExec!Forward, DsnExec!handlerVars
<1>5. CASE DsnExec!UpdateDSN
  <2>1. Head(updates) \in [source : Files, value : Nat \ {0}]
      BY <1>5, HeadTailProperties, Zenon DEF DsnExec!UpdateDSN
  <2>2. updates' \in Seq([source : Files, value : Nat \ {0}])
      BY <1>5, HeadTailProperties DEF DsnExec!UpdateDSN
  <2>3. 1 \in 1..NCommands
      OBVIOUS
  <2> QED
      BY <1>5, <2>1, <2>2, <2>3, Zenon DEF DsnExec!UpdateDSN
<1>6. CASE DsnExec!RunCommand
  <2>1. dest' \in [1..NCommands -> [Files -> Nat]]
      BY <1>6, Zenon DEF DsnExec!RunCommand
  <2>2. command' \in 1..NCommands
      BY <1>6 DEF DsnExec!RunCommand
  <2> QED
      BY <1>6, <2>1, <2>2 DEF DsnExec!RunCommand, DsnExec!watchVars
<1>7. CASE DsnExec!Exit
  <2>1. 1 \in 1..NCommands /\ <<>> \in Seq([source : Files, value : Nat \ {0}]) /\ 0 \in Nat
      OBVIOUS
  <2> QED
      BY <1>7, <2>1, Zenon DEF DsnExec!Exit, DsnExec!Nothing, Files
<1> QED
    BY <1>1, <1>2, <1>3, <1>4, <1>5, <1>6, <1>7, Zenon DEF DsnExec!Step, DsnExec!Handler, Files

(* The commands before the next one are those run with the present set.    *)
LEMMA RunInvKept == ASSUME ExecType, RunInv, DsnExec!Step PROVE RunInv'
<1> USE ExecAssumption DEF ExecType, RunInv, Files
<1>1. ASSUME NEW s \in Files, DsnExec!WatchSource(s) PROVE RunInv'
    BY <1>1 DEF DsnExec!WatchSource
<1>2. CASE DsnExec!InitialSync
    BY <1>2 DEF DsnExec!InitialSync, DsnExec!watchVars
<1>3. ASSUME NEW s \in Files, DsnExec!Notify(s) PROVE RunInv'
    BY <1>3 DEF DsnExec!Notify, DsnExec!handlerVars
<1>4. ASSUME NEW s \in Files, DsnExec!Forward(s) PROVE RunInv'
    BY <1>4 DEF DsnExec!Forward, DsnExec!handlerVars
<1>5. CASE DsnExec!UpdateDSN
    BY <1>5 DEF DsnExec!UpdateDSN
<1>6. CASE DsnExec!RunCommand
  <2>1. /\ execPc = "exec" /\ args = sources /\ UNCHANGED <<args, sources>>
        /\ \A c \in 1..NCommands : dest'[c] = IF c = command THEN args ELSE dest[c]
      BY <1>6 DEF DsnExec!RunCommand
  <2>2. \/ execPc' = "select" /\ command = NCommands
        \/ execPc' = "exec" /\ command' = command + 1
      BY <1>6, Zenon DEF DsnExec!RunCommand
  <2>3. /\ command \in Nat /\ NCommands \in Nat
        /\ \A c \in 1..NCommands : c < command => dest[c] = sources
      BY <2>1
  <2>4. CASE execPc' = "exec" /\ command' = command + 1
    <3>1. \A c \in 1..NCommands : c < command + 1 => c < command \/ c = command
        BY <2>3
    <3> QED
        BY <2>1, <2>3, <2>4, <3>1, Zenon
  <2>5. CASE execPc' = "select" /\ command = NCommands
    <3>1. \A c \in 1..NCommands : c < command \/ c = command
        BY <2>3, <2>5
    <3> QED
        BY <2>1, <2>3, <2>5, <3>1, Zenon
  <2> QED
      BY <2>2, <2>4, <2>5
<1>7. CASE DsnExec!Exit
    BY <1>7 DEF DsnExec!Exit, DsnExec!Nothing
<1> QED
    BY <1>1, <1>2, <1>3, <1>4, <1>5, <1>6, <1>7, Zenon DEF DsnExec!Step, DsnExec!Handler

(* The types of what Order and Way speak of.                               *)
LEMMA StageTypes ==
    ASSUME ExecType, NEW t \in Files
    PROVE  /\ content[t] \in Nat /\ reported[t] \in Nat /\ held[t] \in Nat
           /\ sources[t] \in Nat /\ dest[NCommands][t] \in Nat
           /\ Len(updates) \in Nat
           /\ \A i \in 1..Len(updates) :
                 updates[i].source \in Files /\ updates[i].value \in Nat \ {0}
<1>1. \A i \in 1..Len(updates) : updates[i] \in [source : Files, value : Nat \ {0}]
  <2>1. updates \in Seq([source : Files, value : Nat \ {0}])
      BY Zenon DEF ExecType
  <2> QED
      BY <2>1, ElementOfSeq, Zenon
<1>2. NCommands \in 1..NCommands
    BY ExecAssumption
<1>3. content[t] \in Nat
    BY ContentType
<1>4. dest[NCommands][t] \in Nat
    BY <1>2 DEF ExecType
<1>5. reported[t] \in Nat /\ held[t] \in Nat /\ sources[t] \in Nat /\ Len(updates) \in Nat
    BY DEF ExecType
<1>6. \A i \in 1..Len(updates) :
         updates[i].source \in Files /\ updates[i].value \in Nat \ {0}
    BY <1>1
<1> QED
    BY <1>3, <1>4, <1>5, <1>6, Zenon

(* What a step leaves of updates and what it does to source t's stages.    *)
LEMMA ForwardEffect ==
    ASSUME ExecType, NEW s \in Files, DsnExec!Forward(s)
    PROVE  /\ Len(updates') = Len(updates) + 1
           /\ \A i \in 1..Len(updates) : updates'[i] = updates[i]
           /\ updates'[Len(updates) + 1].source = s
           /\ updates'[Len(updates) + 1].value = held[s] /\ held[s] # 0
           /\ UNCHANGED <<reported, sources, dest, execPc>>
<1>1. [source |-> s, value |-> held[s]] \in [source : Files, value : Nat \ {0}]
    BY DEF DsnExec!Forward, ExecType
<1>2. /\ Len(updates') = Len(updates) + 1
      /\ \A i \in 1..Len(updates) : updates'[i] = updates[i]
      /\ updates'[Len(updates) + 1] = [source |-> s, value |-> held[s]]
    BY <1>1, AppendProperties DEF DsnExec!Forward, ExecType
<1> QED
    BY <1>2 DEF DsnExec!Forward, DsnExec!handlerVars

(* The handler takes the oldest update and makes it its own.               *)
LEMMA UpdateEffect ==
    ASSUME ExecType, DsnExec!UpdateDSN, NEW t \in Files
    PROVE  /\ Len(updates) >= 1 /\ Len(updates') = Len(updates) - 1
           /\ \A i \in 1..Len(updates') : updates'[i] = updates[i + 1]
           /\ sources'[t] = IF updates[1].source = t THEN updates[1].value ELSE sources[t]
           /\ UNCHANGED <<reported, held, dest>>
           /\ execPc = "select" /\ execPc' = "exec"
<1>1. /\ updates \in Seq([source : Files, value : Nat \ {0}]) /\ updates # <<>>
      /\ updates' = Tail(updates)
    BY DEF DsnExec!UpdateDSN, ExecType
<1>2. /\ Len(updates) \in Nat \ {0} /\ Len(updates') = Len(updates) - 1
      /\ \A i \in 1..Len(updates') : updates'[i] = updates[i + 1]
      /\ Head(updates) = updates[1]
    BY <1>1
<1>3. updates[1].source \in Files
    BY <1>2, StageTypes
<1>4. sources' = [sources EXCEPT ![updates[1].source] = updates[1].value]
    BY <1>2, Zenon DEF DsnExec!UpdateDSN
<1>5. sources'[t] = IF updates[1].source = t THEN updates[1].value ELSE sources[t]
    BY <1>3, <1>4, Zenon DEF ExecType
<1> QED
    BY <1>2, <1>5 DEF DsnExec!UpdateDSN

(* A step of dsnexec passes an update on, in order, or leaves it in place. *)
LEMMA OrderKept ==
    ASSUME ExecType, RunInv, DsnExec!Step, UNCHANGED <<file, other>>,
           NEW t \in Files, Order(t), Way(t)
    PROVE  Order(t)'
<1>0. /\ content[t] \in Nat /\ reported[t] \in Nat /\ held[t] \in Nat /\ sources[t] \in Nat
      /\ dest[NCommands][t] \in Nat /\ Len(updates) \in Nat
      /\ \A i \in 1..Len(updates) :
            updates[i].source \in Files /\ updates[i].value \in Nat \ {0}
    BY StageTypes
<1> content' = content
    BY DEF content
<1>1. ASSUME NEW s \in Files, DsnExec!WatchSource(s) PROVE Order(t)'
  <2>1. UNCHANGED <<updates, dest, execPc>> /\ execPc = "watch" /\ reported[s] = 0
      BY <1>1 DEF DsnExec!WatchSource
  <2>2. CASE t = s
    <3>1. reported'[t] = content[t] /\ sources'[t] = content[t]
        BY <1>1, <2>2 DEF DsnExec!WatchSource, ExecType
    <3>2. \A i \in 1..Len(updates) : updates[i].source # t
      <4>1. reported[t] = 0 /\ \A i \in 1..Len(updates) : updates[i].source = t =>
                                  updates[i].value <= reported[t]
          BY <2>1, <2>2, Zenon DEF Order
      <4> QED
          BY <1>0, <4>1
    <3> QED
        BY <1>0, <2>1, <3>1, <3>2 DEF Order
  <2>3. CASE t # s
    <3>1. reported'[t] = reported[t] /\ sources'[t] = sources[t]
        BY <1>1, <2>3 DEF DsnExec!WatchSource, ExecType
    <3> QED
        BY <1>0, <2>1, <3>1, Zenon DEF Order
  <2> QED
      BY <2>2, <2>3
<1>2. CASE DsnExec!InitialSync
    BY <1>0, <1>2 DEF DsnExec!InitialSync, DsnExec!watchVars, Files, Order
<1>3. ASSUME NEW s \in Files, DsnExec!Notify(s) PROVE Order(t)'
  <2>1. /\ UNCHANGED <<updates, sources, dest, execPc>>
        /\ reported'[t] = IF t = s THEN content[t] ELSE reported[t]
        /\ t = s => reported[t] # 0
      BY <1>3 DEF DsnExec!Notify, DsnExec!handlerVars, ExecType
  <2> QED
      BY <1>0, <2>1 DEF Order
<1>4. ASSUME NEW s \in Files, DsnExec!Forward(s) PROVE Order(t)'
  <2>1. /\ Len(updates') = Len(updates) + 1
        /\ \A i \in 1..Len(updates) : updates'[i] = updates[i]
        /\ updates'[Len(updates) + 1].source = s
        /\ updates'[Len(updates) + 1].value = held[s] /\ held[s] # 0
        /\ UNCHANGED <<reported, sources, dest, execPc>>
      BY <1>4, ForwardEffect, Zenon
  <2>a. Len(updates) \in Nat /\ Len(updates') = Len(updates) + 1
      BY <1>0, <2>1, Zenon
  <2>2. \A i \in 1..Len(updates') : i \in 1..Len(updates) \/ i = Len(updates) + 1
      BY <2>a
  <2>3. ASSUME NEW i \in 1..Len(updates'), updates'[i].source = t
        PROVE  sources[t] <= updates'[i].value /\ updates'[i].value <= reported[t]
      BY <1>0, <2>1, <2>2, <2>3 DEF Order, Way
  <2>4. ASSUME NEW i \in 1..Len(updates'), NEW j \in 1..Len(updates'), i < j,
               updates'[i].source = t, updates'[j].source = t
        PROVE  updates'[i].value <= updates'[j].value
    <3>1. i \in 1..Len(updates)
        BY <1>0, <2>1, <2>2, <2>4 DEF Order
    <3>2. CASE j \in 1..Len(updates)
        BY <1>0, <2>1, <2>4, <3>1, <3>2, Zenon DEF Order
    <3>3. CASE j = Len(updates) + 1
        BY <1>0, <2>1, <2>4, <3>1, <3>3, Zenon DEF Order, Way
    <3> QED
        BY <2>2, <3>2, <3>3
  <2> QED
      BY <2>1, <2>3, <2>4, Zenon DEF Order
<1>5. CASE DsnExec!UpdateDSN
  <2>1. /\ Len(updates) >= 1 /\ Len(updates') = Len(updates) - 1
        /\ \A i \in 1..Len(updates') : updates'[i] = updates[i + 1]
        /\ sources'[t] = IF updates[1].source = t THEN updates[1].value ELSE sources[t]
        /\ UNCHANGED <<reported, dest>> /\ execPc = "select"
      BY <1>5, UpdateEffect, Zenon
  <2>a. Len(updates) \in Nat /\ Len(updates') = Len(updates) - 1
      BY <1>0, <2>1, Zenon
  <2>2. \A i \in 1..Len(updates') : i + 1 \in 1..Len(updates) /\ 1 < i + 1
      BY <2>a
  <2>3. sources[t] <= sources'[t] /\ sources'[t] <= reported[t]
    <3>1. 1 \in 1..Len(updates)
        BY <2>1, <1>0
    <3>2. CASE updates[1].source = t
        BY <2>1, <3>1, <3>2, Zenon DEF Order
    <3>3. CASE updates[1].source # t
      <4>1. sources'[t] = sources[t] /\ sources[t] \in Nat /\ sources[t] <= reported[t]
          BY <1>0, <2>1, <3>3, Zenon DEF Order
      <4> QED
          BY <4>1
    <3> QED
        BY <3>2, <3>3
  <2>4. ASSUME NEW i \in 1..Len(updates'), updates'[i].source = t
        PROVE  sources'[t] <= updates'[i].value /\ updates'[i].value <= reported[t]
    <3>1. i + 1 \in 1..Len(updates) /\ 1 < i + 1 /\ updates'[i] = updates[i + 1]
        BY <2>1, <2>2
    <3>2. sources[t] <= updates[i + 1].value /\ updates[i + 1].value <= reported[t]
        BY <2>4, <3>1 DEF Order
    <3>3. updates[1].source = t => updates[1].value <= updates[i + 1].value
      <4>1. 1 \in 1..Len(updates)
          BY <1>0, <2>1
      <4> QED
          BY <2>4, <3>1, <4>1 DEF Order
    <3> QED
        BY <2>1, <3>1, <3>2, <3>3, Zenon
  <2>5. ASSUME NEW i \in 1..Len(updates'), NEW j \in 1..Len(updates'), i < j,
               updates'[i].source = t, updates'[j].source = t
        PROVE  updates'[i].value <= updates'[j].value
    <3>1. i + 1 \in 1..Len(updates) /\ j + 1 \in 1..Len(updates) /\ i + 1 < j + 1
        BY <1>0, <2>2, <2>5 DEF Order
    <3> QED
        BY <1>0, <2>1, <2>5, <3>1, Zenon DEF Order
  <2>6. /\ reported'[t] # 0 /\ reported'[t] <= content[t] /\ sources'[t] <= reported'[t]
        /\ dest'[NCommands][t] <= content[t] /\ dest'[NCommands][t] <= sources[t]
        /\ sources[t] <= sources'[t]
      BY <1>0, <2>1, <2>3, Zenon DEF Order
  <2>7. dest'[NCommands][t] <= sources'[t]
    <3>1. sources'[t] \in Nat
      <4>1. ExecType'
          BY ExecTypeKept
      <4> QED
          BY <4>1 DEF ExecType
    <3> QED
        BY <1>0, <2>1, <2>6, <3>1
  <2> QED
      BY <1>0, <2>1, <2>4, <2>5, <2>6, <2>7, Zenon DEF Order
<1>6. CASE DsnExec!RunCommand
  <2>1. /\ UNCHANGED <<updates, reported, sources>> /\ execPc = "exec"
        /\ dest'[NCommands] \in {dest[NCommands], sources}
      BY <1>6, ExecAssumption DEF DsnExec!RunCommand, DsnExec!watchVars, ExecType, RunInv
  <2>2. /\ reported[t] # 0 /\ dest[NCommands][t] <= sources[t]
        /\ sources[t] <= reported[t] /\ reported[t] <= content[t]
      BY <2>1 DEF Order
  <2>3. dest'[NCommands][t] <= sources[t] /\ dest'[NCommands][t] <= content[t]
      BY <1>0, <2>1, <2>2
  <2> QED
      BY <2>1, <2>2, <2>3, Zenon DEF Order
<1>7. CASE DsnExec!Exit
  <2>1. /\ UNCHANGED dest /\ updates' = <<>> /\ execPc' = "watch"
        /\ reported'[t] = 0 /\ sources'[t] = 0
      BY <1>7 DEF DsnExec!Exit, DsnExec!Nothing, Files
  <2>2. /\ Len(updates') = 0 /\ 1..Len(updates') = {}
        /\ 0 <= 0 /\ 0 <= content[t]
      BY <1>0, <2>1
  <2>3. dest[NCommands][t] <= content[t]
      BY Zenon DEF Order
  <2> QED
      BY <2>1, <2>2, <2>3, Zenon DEF Order
<1> QED
    BY <1>1, <1>2, <1>3, <1>4, <1>5, <1>6, <1>7 DEF DsnExec!Step, DsnExec!Handler, Files

(* A step of dsnexec leaves every version somewhere on its way.            *)
LEMMA WayKept ==
    ASSUME ExecType, DsnExec!Step, NEW t \in Files, Order(t), Way(t)
    PROVE  Way(t)'
<1>0. /\ content[t] \in Nat /\ reported[t] \in Nat /\ held[t] \in Nat /\ sources[t] \in Nat
      /\ dest[NCommands][t] \in Nat /\ Len(updates) \in Nat
      /\ \A i \in 1..Len(updates) :
            updates[i].source \in Files /\ updates[i].value \in Nat \ {0}
    BY StageTypes
<1>1. ASSUME NEW s \in Files, DsnExec!WatchSource(s) PROVE Way(t)'
  <2>1. UNCHANGED <<updates, held>> /\ reported[s] = 0
      BY <1>1 DEF DsnExec!WatchSource
  <2>2. CASE t = s
    <3>1. reported'[t] = content[t] /\ sources'[t] = content[t]
        BY <1>1, <2>2 DEF DsnExec!WatchSource, ExecType
    <3>2. held[t] = 0 /\ \A i \in 1..Len(updates) : updates[i].source # t
        BY <1>0, <2>1, <2>2 DEF Way, Order
    <3> QED
        BY <1>0, <2>1, <3>1, <3>2, Zenon DEF Way
  <2>3. CASE t # s
    <3>1. reported'[t] = reported[t] /\ sources'[t] = sources[t]
        BY <1>1, <2>3 DEF DsnExec!WatchSource, ExecType
    <3> QED
        BY <1>0, <2>1, <3>1, Zenon DEF Way
  <2> QED
      BY <2>2, <2>3
<1>2. CASE DsnExec!InitialSync
    BY <1>2 DEF DsnExec!InitialSync, DsnExec!watchVars, Way
<1>3. ASSUME NEW s \in Files, DsnExec!Notify(s) PROVE Way(t)'
  <2>1. /\ UNCHANGED <<updates, sources>>
        /\ reported'[t] = IF t = s THEN content[t] ELSE reported[t]
        /\ held'[t] = IF t = s THEN content[t] ELSE held[t]
        /\ t = s => reported[t] # 0
      BY <1>3 DEF DsnExec!Notify, DsnExec!handlerVars, ExecType
  <2>2. CASE t = s
    <3>1. held'[t] = reported'[t] /\ held'[t] # 0
        BY <1>0, <2>1, <2>2 DEF Order
    <3> QED
        BY <3>1, Zenon DEF Way
  <2>3. CASE t # s
      BY <2>1, <2>3, Zenon DEF Way
  <2> QED
      BY <2>2, <2>3
<1>4. ASSUME NEW s \in Files, DsnExec!Forward(s) PROVE Way(t)'
  <2>1. /\ Len(updates') = Len(updates) + 1
        /\ \A i \in 1..Len(updates) : updates'[i] = updates[i]
        /\ updates'[Len(updates) + 1].source = s
        /\ updates'[Len(updates) + 1].value = held[s] /\ held[s] # 0
        /\ UNCHANGED <<reported, sources>>
      BY <1>4, ForwardEffect, Zenon
  <2>a. Len(updates) \in Nat /\ Len(updates') = Len(updates) + 1
      BY <1>0, <2>1, Zenon
  <2>2. \A i \in 1..Len(updates') : i \in 1..Len(updates) \/ i = Len(updates) + 1
      BY <2>a
  <2>3. CASE t = s
    <3>1. Len(updates) + 1 \in 1..Len(updates')
        BY <2>a
    <3>2. held'[t] = 0
        BY <1>4, <2>3 DEF DsnExec!Forward, ExecType
    <3> QED
        BY <1>0, <2>1, <2>2, <2>3, <3>1, <3>2 DEF Way
  <2>4. CASE t # s
    <3>1. held'[t] = held[t]
        BY <1>4, <2>4 DEF DsnExec!Forward, ExecType
    <3>2. CASE held[t] # 0
        BY <1>0, <2>1, <3>1, <3>2, Zenon DEF Way
    <3>3. CASE /\ held[t] = 0 /\ sources[t] = reported[t]
               /\ \A i \in 1..Len(updates) : updates[i].source # t
        BY <1>0, <2>1, <2>2, <2>4, <3>1, <3>3 DEF Way
    <3>4. ASSUME held[t] = 0, NEW i \in 1..Len(updates),
                 updates[i].source = t, updates[i].value = reported[t],
                 \A j \in 1..Len(updates) : updates[j].source = t => j <= i
          PROVE  Way(t)'
      <4>1. /\ i \in 1..Len(updates') /\ updates'[i].source = t
            /\ updates'[i].value = reported[t]
            /\ \A j \in 1..Len(updates') : updates'[j].source = t => j <= i
        <5>1. i \in 1..Len(updates')
            BY <2>a
        <5>2. \A j \in 1..Len(updates') : updates'[j].source = t => j \in 1..Len(updates)
            BY <2>1, <2>2, <2>4, Zenon
        <5> QED
            BY <2>1, <3>4, <5>1, <5>2, Zenon
      <4> QED
          BY <1>0, <2>1, <3>1, <3>4, <4>1, Zenon DEF Way
    <3> QED
        BY  <1>0, <3>2, <3>3, <3>4, Zenon DEF Way
  <2> QED
      BY <2>3, <2>4
<1>5. CASE DsnExec!UpdateDSN
  <2>1. /\ Len(updates) >= 1 /\ Len(updates') = Len(updates) - 1
        /\ \A i \in 1..Len(updates') : updates'[i] = updates[i + 1]
        /\ sources'[t] = IF updates[1].source = t THEN updates[1].value ELSE sources[t]
        /\ UNCHANGED <<reported, held>>
      BY <1>5, UpdateEffect, Zenon
  <2>a. Len(updates) \in Nat /\ Len(updates') = Len(updates) - 1
      BY <1>0, <2>1, Zenon
  <2>2. \A i \in 1..Len(updates') : i + 1 \in 1..Len(updates) /\ i + 1 # 1
      BY <2>a
  <2>3. CASE held[t] # 0
      BY <1>0, <2>1, <2>3 DEF Way
  <2>4. CASE /\ held[t] = 0 /\ sources[t] = reported[t]
             /\ \A i \in 1..Len(updates) : updates[i].source # t
      BY <1>0, <2>1, <2>2, <2>4 DEF Way
  <2>5. ASSUME held[t] = 0, NEW i \in 1..Len(updates),
               updates[i].source = t, updates[i].value = reported[t],
               \A j \in 1..Len(updates) : updates[j].source = t => j <= i
        PROVE  Way(t)'
    <3>1. CASE i = 1
      <4>1. \A j \in 1..Len(updates') : updates'[j].source # t
        <5> TAKE j \in 1..Len(updates')
        <5>1. j + 1 \in 1..Len(updates) /\ j + 1 # 1 /\ updates'[j] = updates[j + 1]
            BY <2>1, <2>2
        <5> QED
            BY <2>5, <3>1, <5>1
      <4> QED
          BY <1>0, <2>1, <2>5, <3>1, <4>1 DEF Way
    <3>2. CASE i # 1
      <4>1. /\ i - 1 \in 1..Len(updates')
            /\ updates'[i - 1].source = t /\ updates'[i - 1].value = reported[t]
        <5>1. i - 1 \in 1..Len(updates') /\ (i - 1) + 1 = i
            BY <2>a, <3>2
        <5>2. updates'[i - 1] = updates[i]
            BY <1>0, <2>1, <5>1 DEF Way
        <5> QED
            BY <1>0, <2>5, <5>1, <5>2, Zenon DEF Way
      <4>2. \A j \in 1..Len(updates') : updates'[j].source = t => j <= i - 1
        <5> TAKE j \in 1..Len(updates')
        <5>1. j + 1 \in 1..Len(updates) /\ updates'[j] = updates[j + 1]
            BY <1>0, <2>1, <2>2, Zenon DEF Way
        <5> QED
            BY <1>0, <2>5, <5>1 DEF Way
      <4>3. \E k \in 1..Len(updates') :
               /\ updates'[k].source = t /\ updates'[k].value = reported[t]
               /\ \A j \in 1..Len(updates') : updates'[j].source = t => j <= k
          BY <1>0, <4>1, <4>2, Zenon DEF Way
      <4> QED
          BY <1>0, <2>1, <2>5, <4>3, Zenon DEF Way
    <3> QED
        BY <3>1, <3>2
  <2> QED
      BY <1>0, <2>3, <2>4, <2>5, Zenon DEF Way
<1>6. CASE DsnExec!RunCommand
    BY <1>6 DEF DsnExec!RunCommand, DsnExec!watchVars, Way
<1>7. CASE DsnExec!Exit
  <2>1. updates' = <<>> /\ reported'[t] = 0 /\ sources'[t] = 0 /\ held'[t] = 0
      BY <1>7 DEF DsnExec!Exit, DsnExec!Nothing, Files
  <2> QED
      BY <1>0, <2>1 DEF Way
<1> QED
    BY <1>1, <1>2, <1>3, <1>4, <1>5, <1>6, <1>7 DEF DsnExec!Step, DsnExec!Handler, Files

(* A pod starts with nothing under way.                                    *)
LEMMA ExecInvInit == ASSUME Init PROVE ExecInv
<1>1. ExecType
  <2>1. 1 \in 1..NCommands
      BY ExecAssumption
  <2> QED
      BY <2>1 DEF Init, DbProxy!Init, DsnExec!Init, DsnExec!Nothing, DsnExec!Commands,
                  ExecType, Files
<1>2. ASSUME NEW s \in Files PROVE Order(s) /\ Way(s)
  <2>1. /\ reported[s] = 0 /\ held[s] = 0 /\ sources[s] = 0 /\ updates = <<>>
        /\ execPc = "watch"
      BY DEF Init, DsnExec!Init, DsnExec!Nothing, Files
  <2>2. dest[NCommands][s] = 0
      BY ExecAssumption DEF Init, DsnExec!Init, DsnExec!Nothing, DsnExec!Commands, Files
  <2> QED
      BY <1>1, <2>1, <2>2, StageTypes DEF Order, Way
<1>3. RunInv
    BY DEF Init, DsnExec!Init, RunInv
<1> QED
    BY <1>1, <1>2, <1>3 DEF ExecInv, WayInv

(* No step of the pod breaks ExecInv; the files' versions only grow.       *)
LEMMA ExecInvKept == ASSUME ExecInv, [Next]_vars PROVE ExecInv'
<1>1. CASE ExecSteps(DsnExec!Step)
  <2>1. DsnExec!Step /\ UNCHANGED <<file, other>>
      BY <1>1 DEF ExecSteps
  <2> QED
      BY <2>1, ExecTypeKept, RunInvKept, OrderKept, WayKept DEF ExecInv, WayInv
<1>2. CASE /\ UNCHANGED execVars
           /\ file' \in {file, file + 1} /\ other' \in {other, other + 1}
  <2> USE DEF ExecInv, execVars
  <2>1. ExecType' /\ RunInv'
      BY <1>2 DEF ExecType, RunInv
  <2>2. ASSUME NEW s \in Files PROVE Order(s)' /\ Way(s)'
    <3>1. content'[s] >= content[s] /\ content'[s] \in Nat
        BY <1>2, <2>2 DEF content, ExecType, Files
    <3>2. Way(s)'
        BY <1>2, <2>2 DEF WayInv, Way
    <3>3. /\ content[s] \in Nat /\ reported[s] \in Nat /\ dest[NCommands][s] \in Nat
          /\ Order(s)
        BY <2>2, StageTypes DEF WayInv
    <3>4. Order(s)'
        BY <1>2, <3>1, <3>3 DEF Order
    <3> QED
        BY <3>2, <3>4, Zenon
  <2> QED
      BY <2>1, <2>2 DEF WayInv
<1>3. CASE ProxySteps(DbProxy!Step)
    BY <1>2, <1>3, ProxyStepFile DEF ProxySteps
<1> QED
    BY <1>1, <1>2, <1>3 DEF Next, Admit, Start, SecretChanges, DbProxy!SecretChanges,
       OtherChanges, vars

(* Whenever dsnexec waits for updates, all its commands have been run with *)
(* the same, its present, sources, for every number of commands and exits. *)
THEOREM CommandsAlwaysAgree == Spec => []CommandsAgree
<1>1. ExecInv => CommandsAgree
    BY DEF ExecInv, RunInv, CommandsAgree, DsnExec!CommandsAgree, DsnExec!Commands
<1> QED
    BY <1>1, ExecInvInit, ExecInvKept, PTL DEF Spec

(* A change that a watch has reported is never dropped: it is held, or in  *)
(* the channel, or the handler's, behind every older one of its source.    *)
THEOREM NothingIsLost == Spec => []NothingLost
<1>1. ASSUME ExecInv, NEW s \in Files PROVE DsnExec!InFlight(s) = reported[s]
  <2> DEFINE mine == {i \in DOMAIN updates : updates[i].source = s}
  <2>1. DOMAIN updates = 1..Len(updates) /\ Way(s)
      BY <1>1 DEF ExecInv, ExecType, WayInv
  <2>2. CASE held[s] # 0
      BY <2>1, <2>2, Zenon DEF DsnExec!InFlight, Way
  <2>3. CASE held[s] = 0 /\ mine = {}
      BY <2>1, <2>3 DEF DsnExec!InFlight, Way
  <2>4. CASE held[s] = 0 /\ mine # {}
    <3>1. PICK i \in mine : /\ updates[i].value = reported[s]
                            /\ \A j \in mine : j <= i
        BY <2>1, <2>4 DEF Way
    <3>2. (CHOOSE k \in mine : \A j \in mine : j <= k) = i
      <4>1. \A k \in mine : (\A j \in mine : j <= k) => k = i
          BY <2>1, <3>1
      <4> QED
          BY <3>1, <4>1
    <3> QED
        BY <2>4, <3>1, <3>2, Zenon DEF DsnExec!InFlight
  <2> QED
      BY <2>2, <2>3, <2>4
<1>2. ExecInv => NothingLost
    BY <1>1 DEF NothingLost, DsnExec!NothingLost, Files
<1> QED
    BY <1>2, ExecInvInit, ExecInvKept, PTL DEF Spec

(* dsnexec's last command implements SecretUse too: it is never run with   *)
(* an older DSN than before, across exits of the process.                  *)
THEOREM ExecRefinesSecretUse == Spec => ExecImplementsSecretUse
<1>1. Init => ExecUse!Init
  <2> SUFFICES ASSUME Init PROVE ExecUse!Init
      OBVIOUS
  <2>1. file = 0 /\ dest[NCommands]["dsn"] = 0
      BY ExecAssumption DEF Init, DbProxy!Init, DsnExec!Init, DsnExec!Nothing, DsnExec!Commands
  <2> QED
      BY <2>1, Zenon DEF ExecUse!Init
<1>2. ExecInv /\ [Next]_vars => [ExecUse!Next]_(ExecUse!vars)
  <2> SUFFICES ASSUME ExecInv, [Next]_vars PROVE [ExecUse!Next]_(ExecUse!vars)
      OBVIOUS
  <2>1. CASE ExecSteps(DsnExec!Step) /\ DsnExec!RunCommand
    <3>1. file' = file /\ dest'[NCommands] \in {dest[NCommands], sources} /\ execPc = "exec"
        BY <2>1, ExecAssumption
        DEF ExecSteps, DsnExec!RunCommand, ExecInv, ExecType, RunInv
    <3>2. /\ dest[NCommands]["dsn"] \in Nat /\ sources["dsn"] \in Nat /\ file \in Nat
          /\ dest[NCommands]["dsn"] <= sources["dsn"] /\ sources["dsn"] <= file
        BY <3>1, StageTypes DEF ExecInv, ExecType, WayInv, Order, Files, content
    <3>3. \/ dest'[NCommands]["dsn"] = dest[NCommands]["dsn"]
          \/ dest'[NCommands]["dsn"] \in (dest[NCommands]["dsn"] + 1)..file
        BY <3>1, <3>2
    <3> QED
        BY <3>1, <3>3, Zenon DEF ExecUse!Next, ExecUse!Follow, ExecUse!vars
  <2>2. CASE UNCHANGED dest /\ file' \in {file, file + 1}
      BY <2>2 DEF ExecUse!Next, ExecUse!Change, ExecUse!vars
  <2>3. CASE ExecSteps(DsnExec!Step) /\ ~DsnExec!RunCommand
      BY <2>2, <2>3, Zenon DEF ExecSteps, DsnExec!Step, DsnExec!Handler, DsnExec!WatchSource,
         DsnExec!InitialSync, DsnExec!UpdateDSN, DsnExec!Notify, DsnExec!Forward, DsnExec!Exit
  <2>4. CASE ProxySteps(DbProxy!Step)
      BY <2>2, <2>4, ProxyStepFile DEF ProxySteps, execVars
  <2> QED
      BY <2>1, <2>2, <2>3, <2>4, Zenon DEF Next, Admit, Start, SecretChanges, DbProxy!SecretChanges,
         OtherChanges, vars, execVars
<1> QED
    BY <1>1, <1>2, ExecInvInit, ExecInvKept, PTL
    DEF Spec, ExecImplementsSecretUse, ExecUse!Spec

(* Both side cars follow the claim's secret as SecretUse promises.         *)
THEOREM SideCarsRefineSecretUse == Spec => SideCarsImplementSecretUse
BY ProxyRefinesSecretUse, ExecRefinesSecretUse, PTL DEF SideCarsImplementSecretUse
==============================================================================
