------------------------------- MODULE DbProxy -------------------------------
(***************************************************************************)
(* The dbproxy side car: it turns the DSN file of a mounted secret into    *)
(* pgbouncer's configuration and user list, starts pgbouncer, and rewrites *)
(* and reloads them when the secret changes.  The file is replaced, never  *)
(* rewritten: its watch ends with the file it was set on.                  *)
(***************************************************************************)
EXTENDS Integers

CONSTANTS
    MaxRotations, \* bound on changes of the secret
    MaxFaults,    \* bound on failing writes, failing reloads and restarts
    PortOf        \* the database's port in each version of the DSN

VARIABLES
    file,      \* the version of the DSN in the secret's file; 0: no file yet
    watching,  \* the watcher watches the present file
    pending,   \* file events that have not been received
    dsn,       \* the version Write has read
    hash,      \* the version of the last configuration Write began to write
    config,    \* the versions in the two output files; 0: empty
    auth,
    running,   \* the version pgbouncer runs with; 0: not started
    booted,    \* pgbouncer was started by this process
    pc,        \* the next step
    missed,    \* the file changed before it was watched
    faulty,    \* a write or a reload failed
    faults

fileVars == <<file, watching, pending>>
outVars == <<hash, config, auth>>
procVars == <<dsn, booted>>
historyVars == <<missed, faulty>>
vars == <<fileVars, outVars, procVars, running, pc, historyVars, faults>>

Versions == 0..(MaxRotations + 1)

(* A replaced file causes one or two events on the old one; a watch is     *)
(* only set again once an event was received.                              *)
MaxPending == 2

Init ==
    /\ file = 0 /\ watching = FALSE /\ pending = 0
    /\ dsn = 0 /\ hash = 0 /\ config = 0 /\ auth = 0
    /\ running = 0 /\ booted = FALSE
    /\ pc = "wait"
    /\ missed = FALSE /\ faulty = FALSE
    /\ faults = 0

-----------------------------------------------------------------------------
At(step, next) == pc = step /\ pc' = next /\ UNCHANGED <<file, faults>>

(* waitForFile, at the start and for every event.                          *)
WaitForFiles ==
    /\ file # 0
    /\ At("wait", IF booted THEN "rewatch" ELSE "read")
    /\ UNCHANGED <<watching, pending, outVars, procVars, running, historyVars>>

(* Write: the DSN is read ...                                              *)
ReadDSN ==
    /\ At("read", "open")
    /\ dsn' = file
    /\ missed' = FALSE
    /\ UNCHANGED <<watching, pending, outVars, booted, running, faulty>>

Duplicate == dsn = hash

AfterDuplicate == "select"

(* ... both files are opened, which empties them, before the new           *)
(* configuration is compared with the previous one and its hash kept ...   *)
Open ==
    /\ At("open", IF Duplicate THEN AfterDuplicate ELSE "config")
    /\ config' = 0 /\ auth' = 0
    /\ hash' = dsn
    /\ UNCHANGED <<watching, pending, procVars, running, historyVars>>

WriteConfig ==
    /\ At("config", "auth")
    /\ config' = dsn
    /\ UNCHANGED <<watching, pending, hash, auth, procVars, running, historyVars>>

WriteAuthOnly ==
    /\ At("auth", IF booted THEN "select" ELSE "start")
    /\ auth' = dsn
    /\ UNCHANGED <<watching, pending, hash, config, procVars, running, historyVars>>

(* ... and the files are written.                                          *)
WriteAuth ==
    /\ At("auth", IF booted THEN "reload" ELSE "start")
    /\ auth' = dsn
    /\ UNCHANGED <<watching, pending, hash, config, procVars, running, historyVars>>

(* pgbouncer reads its files when it is started or reloaded.               *)
Loaded == IF config = auth THEN config ELSE 0

StartPgbouncer ==
    /\ At("start", "add")
    /\ running' = Loaded
    /\ booted' = TRUE
    /\ faulty' = FALSE
    /\ UNCHANGED <<watching, pending, outVars, dsn, missed>>

Reload ==
    /\ At("reload", "select")
    /\ running' = Loaded
    /\ faulty' = FALSE
    /\ UNCHANGED <<watching, pending, outVars, procVars, missed>>

(* The first watch is set when pgbouncer runs, later ones before the file  *)
(* is read.                                                                *)
FirstWatch ==
    /\ At("add", "select")
    /\ watching' = TRUE
    /\ UNCHANGED <<pending, outVars, procVars, running, historyVars>>

Rewatch ==
    /\ At("rewatch", "read")
    /\ watching' = TRUE
    /\ UNCHANGED <<pending, outVars, procVars, running, historyVars>>

ReceiveEvent ==
    /\ At("select", "wait")
    /\ pending > 0
    /\ pending' = pending - 1
    /\ watching' = FALSE
    /\ UNCHANGED <<outVars, procVars, running, historyVars>>

-----------------------------------------------------------------------------
(* A write fails, perhaps with files emptied: at the start the process     *)
(* exits, later the error is only logged, with the hash already kept.      *)
WriteFails ==
    /\ pc \in {"read", "open", "config", "auth"} /\ faults < MaxFaults
    /\ faults' = faults + 1
    /\ pc' = IF booted THEN "select" ELSE "wait"
    /\ hash' = IF booted THEN hash ELSE 0
    /\ dsn' = IF booted THEN dsn ELSE 0
    /\ config' \in IF pc = "open" THEN {config, 0} ELSE {config}
    /\ faulty' = TRUE
    /\ UNCHANGED <<fileVars, auth, booted, running, missed>>

ReloadFails ==
    /\ pc = "reload" /\ faults < MaxFaults
    /\ faults' = faults + 1
    /\ pc' = "select"
    /\ faulty' = TRUE
    /\ UNCHANGED <<fileVars, outVars, procVars, running, missed>>

(* The container is restarted, pgbouncer with it.                          *)
Restart ==
    /\ faults < MaxFaults
    /\ faults' = faults + 1
    /\ pc' = "wait"
    /\ watching' = FALSE /\ pending' = 0
    /\ dsn' = 0 /\ hash' = 0 /\ running' = 0 /\ booted' = FALSE
    /\ missed' = FALSE /\ faulty' = FALSE
    /\ UNCHANGED <<file, config, auth>>

(* The secret is created, or changed by a rotation or a migration.         *)
SecretChanges ==
    /\ file <= MaxRotations
    /\ file' = file + 1
    /\ watching' = FALSE
    /\ pending' \in IF watching THEN (pending + 1)..MaxPending ELSE {pending}
    /\ missed' = (missed \/ (~booted /\ dsn # 0) \/ pc = "add")
    /\ UNCHANGED <<outVars, procVars, running, pc, faulty, faults>>

-----------------------------------------------------------------------------
Proxy ==
    \/ WaitForFiles \/ ReadDSN \/ Open \/ WriteConfig \/ WriteAuth
    \/ StartPgbouncer \/ Reload \/ FirstWatch \/ Rewatch \/ ReceiveEvent

Step == Proxy \/ WriteFails \/ ReloadFails \/ Restart

-----------------------------------------------------------------------------
(* The types of the variables.  The event loop never waits without a watch *)
(* or an event.                                                            *)
TypeOK ==
    /\ {file, dsn, hash, config, auth, running} \subseteq Versions
    /\ {watching, booted, missed, faulty} \subseteq BOOLEAN
    /\ pending \in 0..MaxPending
    /\ pc \in {"wait", "read", "open", "config", "auth", "start", "add",
               "rewatch", "select", "reload"}
    /\ faults \in Nat
    /\ pc = "select" /\ pending = 0 => watching

Int16(n) == ((n + 2^15) % 2^16) - 2^15

(* parseURI keeps the port as an int16.                                    *)
RemotePort(v) == Int16(PortOf[v])

(* pgbouncer runs with the present credentials and the database's port.    *)
Serving == running = file /\ running # 0 /\ RemotePort(running) = PortOf[running]
==============================================================================
