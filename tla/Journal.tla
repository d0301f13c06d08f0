------------------------------ MODULE Journal ------------------------------
(* journal/account_state.json: AccountStatePersister, by which a process     *)
(* leaves its state to the next one.  A save is cut where the process may    *)
(* die or the machine lose its power; two instances of the program contend   *)
(* for the lock file.  The state of the account and its trades is the set of *)
(* those fields that are not at their default.                               *)
EXTENDS Integers, Sequences, FiniteSets

CONSTANTS
    Instances,      \* processes of the program
    Given,          \* states that are saved
    MaxSaves,       \* bound: saves begun
    MaxBreaks       \* bound: crashes, power losses and failing writes

ASSUME JournalAssumption == MaxSaves \in Nat /\ MaxBreaks \in Nat

VARIABLES
    files,          \* [main, durable, tmp]: the file, what of it would survive
                    \* a loss of power, and the temporary file
    flocked,        \* who holds the lock file, or Nobody
    lockable,       \* the lock file can be opened
    proc,           \* instance -> [pc, data, read]
    told,           \* the states that saves were given, in order
    returned,       \* newest save that returned
    unsure,         \* a write came short, or the directory was not synced: no
                    \* one is told
    breaks

journalVars == <<files, flocked, lockable, proc, told, returned, unsure, breaks>>

----------------------------------------------------------------------------
(* The JSON.                                                                *)

\* Keys that must be there when a state is loaded; keys that may be missing
\* in the file of an older version; and what is not written at all.
Required_ == {"account", "plan", "state", "executed_size", "avg_entry_price"}
Optional_ == {"order_ids", "avg_price_fix", "tp1_filled", "tp2_price", "plan_limits", "kill",
              "reset_day"}
RuntimeOnly == {"opened_at", "entry_client_order_id", "unrealized_pnl", "valid_until",
                "frame_at_entry"}
Fields == Required_ \cup Optional_ \cup RuntimeOnly

ASSUME GivenAssumption == Given \subseteq SUBSET Fields

\* A file: number of its save (0: written by an older version), schema
\* version, keys present, and those of them with a value.
NoFile == [n |-> -1, version |-> 0, keys |-> {}, values |-> {}]
Torn == [n |-> -2, version |-> 0, keys |-> {}, values |-> {}]
ToJson(n, state) ==
    [n |-> n, version |-> 1, keys |-> Required_ \cup Optional_, values |-> state \ RuntimeOnly]
Legacy == [n : {0}, version : {0, 1},
           keys : {Required_, Required_ \cup {"kill"}, {"account", "kill"}},
           values : {{"account", "kill"}, {"account"}}]

\* What load makes of a file: nothing, or a state.
Nothing == [n |-> -1, state |-> {}]
FromJson(f) ==
    IF f.version # 1 \/ ~(Required_ \subseteq f.keys) THEN Nothing
    ELSE [n |-> f.n, state |-> f.values \cap f.keys]

----------------------------------------------------------------------------
(* An instance.                                                             *)

Nobody == "nobody"

ASSUME InstancesAssumption == Nobody \notin Instances

Dead == [pc |-> "dead", data |-> 0, read |-> Nothing]

JournalInit ==
    /\ \E f \in {NoFile} \cup Legacy : files = [main |-> f, durable |-> f, tmp |-> NoFile]
    /\ flocked = Nobody /\ lockable \in BOOLEAN
    /\ proc = [i \in Instances |-> Dead]
    /\ told = <<>> /\ returned = 0 /\ unsure = FALSE /\ breaks = 0

Break == breaks < MaxBreaks /\ breaks' = breaks + 1
Move(i, from, to) == proc[i].pc = from /\ proc' = [proc EXCEPT ![i].pc = to]

\* Start: the lock within three seconds, or the program ends; then load.
StartUp(i) ==
    /\ proc[i].pc = "dead"
    /\ lockable => flocked = Nobody
    /\ flocked' = IF lockable THEN i ELSE flocked
    /\ proc' = [proc EXCEPT ![i] = [pc |-> "runs", data |-> 0, read |-> FromJson(files.main)]]
    /\ UNCHANGED <<files, lockable, told, returned, unsure, breaks>>

\* save: the JSON of the state as it is now.
SaveBegin(i) ==
    /\ proc[i].pc = "runs" /\ Len(told) < MaxSaves
    /\ \E state \in Given : told' = Append(told, state)
    /\ proc' = [proc EXCEPT ![i].pc = "opens", ![i].data = Len(told) + 1]
    /\ UNCHANGED <<files, flocked, lockable, returned, unsure, breaks>>

\* Mutant: the state is written straight into the file.
OpenInPlace(i) ==
    /\ Move(i, "opens", "writes")
    /\ files' = [files EXCEPT !.main = Torn]
    /\ UNCHANGED <<flocked, lockable, told, returned, unsure, breaks>>

OpenTmp(i) ==
    /\ Move(i, "opens", "writes")
    /\ files' = [files EXCEPT !.tmp = Torn]
    /\ UNCHANGED <<flocked, lockable, told, returned, unsure, breaks>>

\* open or write fails: logged, and the save is over.
SaveFails(i) ==
    /\ proc[i].pc \in {"opens", "writes"} /\ Break
    /\ proc' = [proc EXCEPT ![i].pc = "runs"]
    /\ UNCHANGED <<files, flocked, lockable, told, returned, unsure>>

\* The write and fdatasync; a short write goes unnoticed.
Write(i) ==
    /\ Move(i, "writes", "renames")
    /\ \/ /\ files' = [files EXCEPT !.tmp = ToJson(proc[i].data, told[proc[i].data])]
          /\ UNCHANGED <<unsure, breaks>>
       \/ /\ Break /\ unsure' = TRUE
          /\ UNCHANGED files
    /\ UNCHANGED <<flocked, lockable, told, returned>>

\* rename: at once for every reader, on the disk with the next fsync.
Rename(i) ==
    /\ Move(i, "renames", "syncs")
    /\ files.tmp # NoFile
    /\ files' = [files EXCEPT !.main = files.tmp, !.tmp = NoFile]
    /\ UNCHANGED <<flocked, lockable, told, returned, unsure, breaks>>

SyncDirectory(i) ==
    /\ Move(i, "syncs", "runs")
    /\ \/ files' = [files EXCEPT !.durable = files.main] /\ UNCHANGED <<unsure, breaks>>
       \/ Break /\ unsure' = TRUE /\ UNCHANGED files
    /\ returned' = proc[i].data
    /\ UNCHANGED <<flocked, lockable, told>>

\* The process ends: also by a rename that throws because another instance
\* without the lock has taken the temporary file.
Die(i) ==
    /\ proc[i].pc # "dead"
    /\ IF proc[i].pc = "renames" /\ files.tmp = NoFile THEN UNCHANGED breaks ELSE Break
    /\ proc' = [proc EXCEPT ![i] = Dead]
    /\ flocked' = IF flocked = i THEN Nobody ELSE flocked
    /\ UNCHANGED <<files, lockable, told, returned, unsure>>

PowerLoss ==
    /\ Break
    /\ \E f \in {files.main, files.durable} : files' = [main |-> f, durable |-> f, tmp |-> Torn]
    /\ proc' = [i \in Instances |-> Dead] /\ flocked' = Nobody
    /\ UNCHANGED <<lockable, told, returned, unsure>>

JournalNext ==
    \/ \E i \in Instances : \/ StartUp(i) \/ SaveBegin(i) \/ OpenTmp(i) \/ SaveFails(i) \/ Write(i)
                            \/ Rename(i) \/ SyncDirectory(i) \/ Die(i)
    \/ PowerLoss

JournalSpec == JournalInit /\ [][JournalNext]_journalVars

----------------------------------------------------------------------------

\* With a lock file, and unless a write came short or the directory could not
\* be synced, which the program does not notice: whatever happens
\* between the steps of a save, the file that the next process will load holds
\* the last state whose save returned, or a later one, with every field that
\* is written; one instance at a time works on it; and no process started on
\* a state that is not one that was saved.
JournalWhole ==
    lockable /\ ~unsure =>
        /\ \A f \in {files.main, files.durable} :
              /\ f.n >= returned \/ returned = 0
              /\ f.n > 0 => FromJson(f) = [n |-> f.n, state |-> told[f.n] \ RuntimeOnly]
              /\ f # Torn
        /\ Cardinality({i \in Instances : proc[i].pc # "dead"}) <= 1
        /\ \A i \in Instances : proc[i].read.n > 0 =>
              proc[i].read.state = told[proc[i].read.n] \ RuntimeOnly
=============================================================================
