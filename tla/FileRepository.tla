--------------------------- MODULE FileRepository ----------------------------
(***************************************************************************)
(* org.opennms.netmgt.api.sample.support.SimpleFileRepository.save():      *)
(* appends the samples of a set to one file, then reads the attributes     *)
(* file, merges the attributes of the set's resources and writes it anew.  *)
(* Each sampler calls it on the thread of its own whiteboard, no lock is   *)
(* taken, and the container may crash between any two steps.               *)
(***************************************************************************)
EXTENDS Naturals, Sequences, SequencesExt

CONSTANTS Savers,      \* the threads that call save()
          Attributes,  \* the keys "resource$attribute"
          MaxSaves,    \* bound on the calls; the n-th saves set n
          None

ASSUME FileRepositoryAssumption == MaxSaves \in Nat

(* The content of an attributes file: which set gave each attribute its    *)
(* value, 0 for none.                                                      *)
Contents == [Attributes -> 0..MaxSaves]
Nothing == [a \in Attributes |-> 0]

VARIABLES
    sampleFile,     \* the pieces of sets in the file of samples
    attributesFile, \* the content of the file of attributes
    saves,          \* number of calls
    call,           \* saver -> its position in save() and the local variables
    found           \* saver -> the files when it was called; None once another call,
                    \* an error or a crash has touched them (history)

fileVars == <<sampleFile, attributesFile, saves, call, found>>

(* at:  "idle", "append", "load", "merged" or "truncated"                  *)
(* set: the set that is saved, and the attributes of its resources         *)
(* written: pieces that left the writer;  properties: the local variable   *)
Idle == [at |-> "idle", set |-> 0, carries |-> {}, written |-> 0, properties |-> Nothing]

(* new on top of old *)
Over(new, old) == [a \in Attributes |-> IF new[a] # 0 THEN new[a] ELSE old[a]]

(* The attributes of a set, as the properties that it contributes.         *)
Own(t) == [a \in Attributes |-> IF a \in call[t].carries THEN call[t].set ELSE 0]

FileInit ==
    /\ sampleFile = <<>> /\ attributesFile = Nothing
    /\ saves = 0
    /\ call = [t \in Savers |-> Idle]
    /\ found = [t \in Savers |-> None]

(* save() is called and opens the file of samples; an exception there      *)
(* changes nothing.                                                        *)
Save(t) ==
    /\ call[t] = Idle /\ saves < MaxSaves
    /\ saves' = saves + 1
    /\ \E A \in SUBSET Attributes :
          call' = [call EXCEPT ![t] = [Idle EXCEPT
                     !.at = "append", !.set = saves + 1, !.carries = A]]
    /\ found' = [u \in Savers |->
          IF u = t /\ \A v \in Savers : call[v] = Idle
          THEN [samples |-> sampleFile, attributes |-> attributesFile] ELSE None]
    /\ UNCHANGED <<sampleFile, attributesFile>>

(* The lines of a set reach the file in two pieces: a buffer that is full, *)
(* and the rest when the writer is closed.  The PrintWriter keeps an error *)
(* to itself: on a full disk the piece is lost and save() goes on.         *)
AppendPiece(t) ==
    /\ call[t].at = "append"
    /\ LET n == call[t].written + 1
       IN  /\ \/ /\ sampleFile' = Append(sampleFile, <<call[t].set, n>>)
                 /\ UNCHANGED found
              \/ found' = [found EXCEPT ![t] = None] /\ UNCHANGED sampleFile
           /\ call' = [call EXCEPT ![t].written = n,
                                   ![t].at = IF n = 1 THEN "append" ELSE "load"]
    /\ UNCHANGED <<attributesFile, saves>>

(* Mutant: the attributes of the set alone. *)
MergedOwn(t) == Own(t)

(* loadAttributes() and the loop that adds those of the set.               *)
Merged(t) == Over(Own(t), attributesFile)

LoadAndMerge(t) ==
    /\ call[t].at = "load"
    /\ call' = [call EXCEPT ![t].at = "merged", ![t].properties = Merged(t)]
    /\ UNCHANGED <<sampleFile, attributesFile, saves, found>>

(* storeAttributes(): opening the file empties it.                         *)
Truncate(t) ==
    /\ call[t].at = "merged"
    /\ attributesFile' = Nothing
    /\ call' = [call EXCEPT ![t].at = "truncated"]
    /\ UNCHANGED <<sampleFile, saves, found>>

(* The properties are written from the start of the file.  What another    *)
(* saver has written since it was emptied may stick out behind them.       *)
Store(t) ==
    /\ call[t].at = "truncated"
    /\ \E rest \in SUBSET Attributes :
          attributesFile' = Over(call[t].properties,
             [a \in Attributes |-> IF a \in rest THEN attributesFile[a] ELSE 0])
    /\ call' = [call EXCEPT ![t] = Idle]
    /\ found' = [found EXCEPT ![t] = None]
    /\ UNCHANGED <<sampleFile, saves>>

(* An IOException while the attributes are read or written ends save().    *)
AttributesFail(t) ==
    /\ call[t].at \in {"load", "merged", "truncated"}
    /\ call' = [call EXCEPT ![t] = Idle]
    /\ found' = [found EXCEPT ![t] = None]
    /\ UNCHANGED <<sampleFile, attributesFile, saves>>

(* The container crashes: what is in the files stays.                      *)
Crash ==
    /\ \E t \in Savers : call[t] # Idle
    /\ call' = [t \in Savers |-> Idle]
    /\ found' = [t \in Savers |-> None]
    /\ UNCHANGED <<sampleFile, attributesFile, saves>>

FileNext ==
    \/ \E t \in Savers : \/ Save(t) \/ AppendPiece(t) \/ LoadAndMerge(t)
                         \/ Truncate(t) \/ Store(t) \/ AttributesFail(t)
    \/ Crash

FileSpec == FileInit /\ [][FileNext]_fileVars
-----------------------------------------------------------------------------
FileTypeOK ==
    /\ sampleFile \in Seq((1..MaxSaves) \X (1..2))
    /\ attributesFile \in Contents
    /\ saves \in 0..MaxSaves
    /\ call \in [Savers -> [at : {"idle", "append", "load", "merged", "truncated"},
                            set : 0..MaxSaves, carries : SUBSET Attributes,
                            written : 0..2, properties : Contents]]
    /\ \A t \in Savers : found[t] # None => found[t].attributes \in Contents

(* A save() that no other call overlaps and that no error or crash         *)
(* interrupts adds its set to what it found, whatever happened before: its *)
(* samples stand together at the end of the file, its attributes replace   *)
(* older values, and every other attribute is still there.                 *)
AloneIsAtomic ==
    [][\A t \in Savers : found[t] # None /\ Store(t) =>
          /\ sampleFile' = found[t].samples \o <<<<call[t].set, 1>>, <<call[t].set, 2>>>>
          /\ attributesFile' = Over(Own(t), found[t].attributes)]_fileVars
=============================================================================
