------------------------------- MODULE DsnExec -------------------------------
(***************************************************************************)
(* The dsnexec side car, one of its configurations: whenever one of its    *)
(* source files changes, it runs its commands, in order, against its       *)
(* destination, with the contents of all sources as arguments.  Every      *)
(* error ends the process; the container is started again.                 *)
(***************************************************************************)
EXTENDS Naturals, Sequences, FiniteSets

CONSTANTS
    Sources,   \* the source files of the configuration
    NCommands, \* how many commands it has
    MaxExits   \* bound on exits of the process

VARIABLES
    content,  \* the version of each source file; 0: no file yet
    reported, \* the version the watch of each source gave last; 0: no watch
    held,     \* the value each source's goroutine has to forward; 0: none
    updates,  \* the channel the goroutines send to
    sources,  \* the handler's Config.Sources
    args,     \* the argument context of the running exec
    command,  \* the command it runs next
    dest,     \* the arguments each command was last run with
    pc,       \* "watch", "exec" or "select"
    exits

watchVars == <<reported, held, updates>>
handlerVars == <<sources, args, command>>
vars == <<content, watchVars, handlerVars, dest, pc, exits>>

Commands == 1..NCommands
Nothing == [s \in Sources |-> 0]

Init ==
    /\ content \in [Sources -> {0, 1}]
    /\ reported = Nothing /\ held = Nothing /\ updates = <<>>
    /\ sources = Nothing /\ args = Nothing /\ command = 1
    /\ dest = [c \in Commands |-> Nothing]
    /\ pc = "watch"
    /\ exits = 0

-----------------------------------------------------------------------------
(* The sources are watched one by one; a file that is not there ends the   *)
(* process, which is back here when it is.                                 *)
WatchSource(s) ==
    /\ pc = "watch" /\ reported[s] = 0 /\ content[s] # 0
    /\ reported' = [reported EXCEPT ![s] = content[s]]
    /\ sources' = [sources EXCEPT ![s] = content[s]]
    /\ UNCHANGED <<content, held, updates, args, command, dest, pc, exits>>

(* The initial Exec.                                                       *)
InitialSync ==
    /\ pc = "watch" /\ \A s \in Sources : reported[s] # 0
    /\ args' = sources /\ command' = 1
    /\ pc' = "exec"
    /\ UNCHANGED <<content, watchVars, sources, dest, exits>>

(* The watch gives a source's goroutine the file's present value; it waits *)
(* until the goroutine has forwarded the previous one.                     *)
Notify(s) ==
    /\ reported[s] # 0 /\ held[s] = 0 /\ content[s] # reported[s]
    /\ reported' = [reported EXCEPT ![s] = content[s]]
    /\ held' = [held EXCEPT ![s] = content[s]]
    /\ UNCHANGED <<content, updates, handlerVars, dest, pc, exits>>

ForwardOrDrop(s) ==
    /\ held[s] # 0
    /\ updates' = IF Len(updates) < 1
                  THEN Append(updates, [source |-> s, value |-> held[s]])
                  ELSE updates
    /\ held' = [held EXCEPT ![s] = 0]
    /\ UNCHANGED <<content, reported, handlerVars, dest, pc, exits>>

(* The channel holds as many updates as there are sources; a goroutine     *)
(* blocks while it is full.                                                *)
Forward(s) ==
    /\ held[s] # 0 /\ Len(updates) < Cardinality(Sources)
    /\ updates' = Append(updates, [source |-> s, value |-> held[s]])
    /\ held' = [held EXCEPT ![s] = 0]
    /\ UNCHANGED <<content, reported, handlerVars, dest, pc, exits>>

ReceiveLast ==
    /\ pc = "select" /\ updates # <<>>
    /\ LET u == updates[Len(updates)] IN
       /\ sources' = [sources EXCEPT ![u.source] = u.value]
       /\ args' = [sources EXCEPT ![u.source] = u.value]
    /\ updates' = SubSeq(updates, 1, Len(updates) - 1)
    /\ command' = 1
    /\ pc' = "exec"
    /\ UNCHANGED <<content, reported, held, dest, exits>>

(* UpdateDSN: one source is replaced, and exec starts over with all.       *)
UpdateDSN ==
    /\ pc = "select" /\ updates # <<>>
    /\ LET u == Head(updates) IN
       /\ sources' = [sources EXCEPT ![u.source] = u.value]
       /\ args' = [sources EXCEPT ![u.source] = u.value]
    /\ updates' = Tail(updates)
    /\ command' = 1
    /\ pc' = "exec"
    /\ UNCHANGED <<content, reported, held, dest, exits>>

(* One command.  The destination takes it whole: a file is written beside  *)
(* the old one and renamed.                                                *)
RunCommand ==
    /\ pc = "exec"
    /\ dest' = [dest EXCEPT ![command] = args]
    /\ IF command = NCommands
       THEN pc' = "select" /\ UNCHANGED command
       ELSE pc' = "exec" /\ command' = command + 1
    /\ UNCHANGED <<content, watchVars, sources, args, exits>>

LogAndContinue ==
    /\ pc = "exec" /\ exits < MaxExits
    /\ exits' = exits + 1
    /\ pc' = "select"
    /\ UNCHANGED <<content, watchVars, handlerVars, dest>>

(* The process ends, at a command that fails or because another            *)
(* configuration's run has ended, and is started again.                    *)
Exit ==
    /\ exits < MaxExits
    /\ exits' = exits + 1
    /\ reported' = Nothing /\ held' = Nothing /\ updates' = <<>>
    /\ sources' = Nothing /\ args' = Nothing /\ command' = 1
    /\ pc' = "watch"
    /\ UNCHANGED <<content, dest>>

-----------------------------------------------------------------------------
Handler ==
    \/ \E s \in Sources : WatchSource(s)
    \/ InitialSync \/ UpdateDSN \/ RunCommand

Step == Handler \/ (\E s \in Sources : Notify(s) \/ Forward(s)) \/ Exit

-----------------------------------------------------------------------------
Records == [source : Sources, value : Nat \ {0}]

(* The types of the variables.                                             *)
TypeOK ==
    /\ {content, reported, held, sources, args} \subseteq [Sources -> Nat]
    /\ updates \in Seq(Records) /\ Len(updates) <= Cardinality(Sources)
    /\ command \in Commands
    /\ dest \in [Commands -> [Sources -> Nat]]
    /\ pc \in {"watch", "exec", "select"}
    /\ exits \in 0..MaxExits

(* While the handler waits for updates, every one of its commands has been *)
(* run with the same arguments, the sources it has now: no failed or       *)
(* interrupted exec leaves the destination half updated under a handler    *)
(* that goes on.                                                           *)
CommandsAgree ==
    pc = "select" => \A c \in Commands : dest[c] = sources

(* The value of s in the last update of s, or the handler's.               *)
InFlight(s) ==
    LET mine == {i \in DOMAIN updates : updates[i].source = s}
    IN  IF held[s] # 0 THEN held[s]
        ELSE IF mine = {} THEN sources[s]
        ELSE updates[CHOOSE i \in mine : \A j \in mine : j <= i].value

(* What a watch has reported is on its way to the handler, however full    *)
(* the channel has been.                                                   *)
NothingLost == \A s \in Sources : InFlight(s) = reported[s]
==============================================================================
