------------------------------ MODULE MCStorage ------------------------------
(***************************************************************************)
(* A sample set in memory and the files that sample sets are saved to, one *)
(* of the two at a time, on small instances.                               *)
(***************************************************************************)
EXTENDS MCSampleSet, FileRepository

VARIABLE component   \* which of the two is used

StorageInit ==
    /\ component \in {"SampleSet", "FileRepository"}
    /\ Init
    /\ FileInit

StorageNext ==
    \/ component = "SampleSet" /\ Next /\ UNCHANGED <<component, fileVars>>
    \/ component = "FileRepository" /\ FileNext /\ UNCHANGED <<component, vars>>

StorageSpec == StorageInit /\ [][StorageNext]_<<component, fileVars, vars>>

(* Every variable of the component in use keeps its type.                  *)
StorageTypeOK == TypeOK /\ FileTypeOK
=============================================================================
