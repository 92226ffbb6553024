----------------------------- MODULE ModelFiles -----------------------------
(***************************************************************************)
(* The model directories, the installed index (installed.json) and the     *)
(* registry that speaks for both (model_registry.rs, runtime/download.rs,  *)
(* and the operations of runtime.rs that hold the model-operation gate).   *)
(*                                                                         *)
(* What a directory holds, against the manifest of the running program:    *)
(*   "none"   no directory                                                 *)
(*   "some"   some of the files, or the beginning of one                   *)
(*   "whole"  every file, every hash right                                 *)
(*   "alike"  every file at its length, a hash wrong                       *)
(* A record of the index is the manifest version it was made under, 0: no  *)
(* record.                                                                 *)
(***************************************************************************)
EXTENDS Naturals, FiniteSets

CONSTANTS
    Weights,        \* the models of the manifest
    Unreadable,     \* an index that is missing or does not parse
    Idle,           \* nobody holds the operation gate
    MaxVersion,     \* bound: manifest versions
    MaxMishaps      \* bound: crashes, failed writes and removals, lost indexes

VARIABLES
    up,             \* the program is running
    version,        \* manifest_version of the program
    disk,           \* model -> what its directory holds
    index,          \* installed.json: model -> record, or Unreadable
    known,          \* RegistrySnapshot::installed: model -> record
    unproved,       \* pending_verification
    commitDue,      \* recovery_commit_needed
    hidden,         \* HostState::unavailable_models
    gate,           \* the operation that holds the gate, or Idle
    loaded,         \* models a helper or a supervised child uses
    doubtful,       \* models a removal failed on half way, or a download took by their length
    mishaps

registry == <<known, unproved, commitDue>>
modelVars == <<up, version, disk, index, registry, hidden, gate, loaded, doubtful, mishaps>>

NoRecord == [m \in Weights |-> 0]
Recorded(ix) == IF ix = Unreadable THEN NoRecord ELSE ix
Complete(d, m) == d[m] \in {"whole", "alike"}     \* verify_layout

Init ==
    /\ up = FALSE /\ version = 1
    /\ disk = [m \in Weights |-> "none"] /\ index = Unreadable
    /\ known = NoRecord /\ unproved = {} /\ commitDue = FALSE
    /\ hidden = {} /\ gate = Idle /\ loaded = {} /\ doubtful = {} /\ mishaps = 0

Mishap == mishaps < MaxMishaps /\ mishaps' = mishaps + 1

\* replace_installed: a durable write, or an error before or after the rename.
Written(ix) == index' = ix /\ UNCHANGED mishaps
NotWritten(ix) == index' \in {index, ix} /\ Mishap

----------------------------------------------------------------------------
(* Launch *)

\* What an update of the program makes of a directory.
Becomes(d) ==
    CASE d = "whole" -> {"whole", "alike", "some"}
      [] d = "alike" -> {"alike", "some"}
      [] OTHER -> {d}

\* ModelOperationRegistry::open.  A readable index is trusted for complete
\* directories recorded under the same manifest; drifted ones wait for the
\* managed verification.  Without an index every directory waits for it.
Open(v, d) ==
    LET ix == Recorded(index)
        kept == [m \in Weights |-> IF Complete(d, m) /\ ix[m] = v THEN v ELSE 0]
        waiting == IF index = Unreadable THEN {m \in Weights : d[m] # "none"}
                   ELSE {m \in Weights : ix[m] \notin {0, v} /\ Complete(d, m)}
        due == index = Unreadable \/ kept # ix
    IN /\ known' = kept /\ unproved' = waiting
       /\ IF due /\ waiting = {}
            THEN \/ Written(kept) /\ commitDue' = FALSE
                 \/ NotWritten(kept) /\ commitDue' = TRUE
            ELSE commitDue' = due /\ UNCHANGED <<index, mishaps>>

Launch ==
    /\ ~up /\ up' = TRUE
    /\ \E v \in {version} \cup ({version + 1} \cap 1..MaxVersion) :
         \E d \in [Weights -> {"none", "some", "whole", "alike"}] :
            /\ \A m \in Weights : d[m] \in IF v = version THEN {disk[m]} ELSE Becomes(disk[m])
            /\ version' = v /\ disk' = d /\ Open(v, d)
    /\ UNCHANGED <<hidden, gate, loaded, doubtful>>

\* The program ends, wherever it is; the operating system ends its helpers.
Crash ==
    /\ up /\ Mishap
    /\ up' = FALSE
    /\ known' = NoRecord /\ unproved' = {} /\ commitDue' = FALSE
    /\ hidden' = {} /\ gate' = Idle /\ loaded' = {}
    /\ UNCHANGED <<version, disk, index, doubtful>>

LoseIndex ==
    /\ ~up /\ Mishap
    /\ index' = Unreadable
    /\ UNCHANGED <<up, version, disk, registry, hidden, gate, loaded, doubtful>>

----------------------------------------------------------------------------
(* Consumers: convergence needs the gate to start one, not to end one *)

Planned(m) == known[m] # 0 /\ m \notin hidden

Load(m) ==
    /\ up /\ gate = Idle /\ Planned(m) /\ m \notin loaded
    /\ loaded' = loaded \cup {m}
    /\ UNCHANGED <<up, version, disk, index, registry, hidden, gate, doubtful, mishaps>>

Unload(m) ==
    /\ m \in loaded
    /\ loaded' = loaded \ {m}
    /\ UNCHANGED <<up, version, disk, index, registry, hidden, gate, doubtful, mishaps>>

----------------------------------------------------------------------------
(* Download: run_download and download_model *)

Holds(what, m) == up /\ gate # Idle /\ gate.what = what /\ gate.model = m
Enter(what, m, trusted) == gate = Idle /\ gate' = [what |-> what, model |-> m, trusted |-> trusted]
Leave == gate' = Idle

\* An installed model settles its row at once.  The files already there are
\* trusted by their length if the index on disk has a record of the model.
DownloadBegins(m) ==
    /\ up /\ m \notin hidden /\ known[m] = 0
    /\ Enter("download", m, Recorded(index)[m] # 0)
    /\ UNCHANGED <<up, version, disk, index, registry, hidden, loaded, doubtful, mishaps>>

\* One more file or part; a complete file of the wrong hash that is not trusted
\* is removed and fetched again.
Fetch(m) ==
    /\ Holds("download", m)
    /\ disk[m] = "none" \/ disk[m] = "some" \/ (disk[m] = "alike" /\ ~gate.trusted)
    /\ disk' = [disk EXCEPT ![m] = IF @ = "some" THEN "whole" ELSE "some"]
    /\ doubtful' = {n \in doubtful : disk'[n] # "whole"}
    /\ UNCHANGED <<up, version, index, registry, hidden, gate, loaded, mishaps>>

\* record_installed adds the model to the index on disk, an unreadable one
\* counting as empty; the registry publishes what it then reads there.
Install(m) ==
    /\ Holds("download", m)
    /\ disk[m] = "whole" \/ (disk[m] = "alike" /\ gate.trusted)
    /\ LET ix == [Recorded(index) EXCEPT ![m] = version]
       IN \/ Written(ix) /\ known' = [known EXCEPT ![m] = version]
          \/ NotWritten(ix) /\ UNCHANGED known
    /\ doubtful' = IF disk[m] = "alike" THEN doubtful \cup {m} ELSE doubtful
    /\ Leave
    /\ UNCHANGED <<up, version, disk, unproved, commitDue, hidden, loaded>>

\* Cancelled, interrupted for good or refused: the parts stay.
DownloadEnds(m) ==
    /\ Holds("download", m) /\ Leave
    /\ UNCHANGED <<up, version, disk, index, registry, hidden, loaded, doubtful, mishaps>>

----------------------------------------------------------------------------
(* Verify, and the managed recovery: the gate is held over the hashing *)

Verify(m) ==
    /\ up /\ gate = Idle /\ disk[m] = "whole"
    /\ LET all == [known EXCEPT ![m] = IF @ = 0 THEN version ELSE @]
       IN \/ Written(all) /\ known' = all
          \/ NotWritten(all) /\ UNCHANGED known
    /\ UNCHANGED <<up, version, disk, unproved, commitDue, hidden, gate, loaded, doubtful>>

\* Mutant: what waits for its proof is adopted by its length.
RecoverByLength ==
    /\ up /\ gate = Idle /\ (unproved # {} \/ commitDue)
    /\ LET all == [m \in Weights |-> IF m \in unproved THEN version ELSE known[m]]
       IN Written(all) /\ known' = all /\ unproved' = {} /\ commitDue' = FALSE
    /\ UNCHANGED <<up, version, disk, hidden, gate, loaded, doubtful>>

Recover ==
    /\ up /\ gate = Idle /\ (unproved # {} \/ commitDue)
    /\ LET proved == {m \in unproved : disk[m] = "whole"}
           all == [m \in Weights |-> IF m \in proved THEN version ELSE known[m]]
       IN \/ Written(all) /\ known' = all /\ unproved' = {} /\ commitDue' = FALSE
          \/ NotWritten(all) /\ UNCHANGED registry
    /\ UNCHANGED <<up, version, disk, hidden, gate, loaded, doubtful>>

----------------------------------------------------------------------------
(* Removal: retire_model *)

RemoveBegins(m) ==
    /\ up
    /\ Enter("remove", m, FALSE)
    /\ hidden' = hidden \cup {m}
    /\ UNCHANGED <<up, version, disk, index, registry, loaded, doubtful, mishaps>>

\* Ten seconds, and it is still in use.
RemoveTimesOut(m) ==
    /\ Holds("remove", m) /\ m \in loaded
    /\ Leave /\ hidden' = hidden \ {m}
    /\ UNCHANGED <<up, version, disk, index, registry, loaded, doubtful, mishaps>>

Delete(m) ==
    /\ Holds("remove", m) /\ m \notin loaded
    /\ disk' = [disk EXCEPT ![m] = "none"]
    /\ gate' = [gate EXCEPT !.what = "unrecord"]
    /\ UNCHANGED <<up, version, index, registry, hidden, loaded, doubtful, mishaps>>

\* remove_dir_all fails after some of the files: the model is offered again,
\* its record kept.
DeleteFails(m) ==
    /\ Holds("remove", m) /\ m \notin loaded /\ disk[m] # "none" /\ Mishap
    /\ disk' = [disk EXCEPT ![m] = "some"]
    /\ doubtful' = IF known[m] # 0 THEN doubtful \cup {m} ELSE doubtful
    /\ hidden' = hidden \ {m} /\ Leave
    /\ UNCHANGED <<up, version, index, registry, loaded>>

\* commit_removed_locked; if it fails the model stays hidden.
Unrecord(m) ==
    /\ Holds("unrecord", m)
    /\ LET all == [known EXCEPT ![m] = 0]
       IN \/ Written(all) /\ known' = all /\ hidden' = hidden \ {m}
          \/ NotWritten(all) /\ UNCHANGED <<known, hidden>>
    /\ doubtful' = doubtful \ {m} /\ Leave
    /\ UNCHANGED <<up, version, disk, unproved, commitDue, loaded>>

Next ==
    \/ Launch \/ Crash \/ LoseIndex \/ Recover
    \/ \E m \in Weights :
         \/ Load(m) \/ Unload(m)
         \/ DownloadBegins(m) \/ Fetch(m) \/ Install(m) \/ DownloadEnds(m) \/ Verify(m)
         \/ RemoveBegins(m) \/ RemoveTimesOut(m) \/ Delete(m) \/ DeleteFails(m) \/ Unrecord(m)

Spec == Init /\ [][Next]_modelVars

----------------------------------------------------------------------------
(* Properties *)

\* Nothing is loaded from files that are not those of the manifest, whatever
\* downloads, removals, crashes and updates came before ("never rewrite files
\* beneath a newly loaded consumer", runtime.rs; models "remain absent from the
\* authoritative installed snapshot until this managed task durably commits
\* their proof", state.rs): except the doubtful models.
LoadedIsWhole == \A m \in loaded \ doubtful : disk[m] = "whole"

\* The same without the exception.
LoadedIsAlwaysWhole == \A m \in loaded : disk[m] = "whole"

\* recover_pending: a recovery that was not finished leaves no index the next
\* launch could take for "a sound, intentionally sparse" one.  Right files that
\* wait for their proof are recorded in the index, or the index is unreadable.
RecoverySourceStays ==
    up => \A m \in unproved : disk[m] = "whole" => index = Unreadable \/ index[m] # 0
=============================================================================
