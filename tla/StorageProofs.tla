--------------------------- MODULE StorageProofs ----------------------------
(***************************************************************************)
(* Theorems about a sample set in memory, for any number of samples, and   *)
(* about the files that sample sets are saved to, for any number of        *)
(* threads and attributes.                                                 *)
(***************************************************************************)
EXTENDS MCStorage, SequenceLemmas

Phases == {"idle", "append", "load", "merged", "truncated"}

(* What the files S and A contain at each point of a call c that nothing   *)
(* has disturbed, from what it found in them, f.                           *)
First(c, f) == Append(f.samples, <<c.set, 1>>)
Both(c, f) == Append(First(c, f), <<c.set, 2>>)
New(c, f) == [a \in Attributes |-> IF a \in c.carries THEN c.set ELSE f.attributes[a]]

Progress(c, f, S, A) ==
    /\ f.samples \in Seq((1..MaxSaves) \X (1..2)) /\ f.attributes \in Contents
    /\ c.at # "idle"
    /\ c.at = "append" => \/ c.written = 0 /\ S = f.samples
                          \/ c.written = 1 /\ S = First(c, f)
    /\ c.at # "append" => S = Both(c, f)
    /\ A = IF c.at = "truncated" THEN Nothing ELSE f.attributes
    /\ c.at \in {"merged", "truncated"} => c.properties = New(c, f)

Undisturbed(t) ==
    /\ \A u \in Savers \ {t} : call[u] = Idle
    /\ Progress(call[t], found[t], sampleFile, attributesFile)

Calls == [at : Phases, set : 0..MaxSaves, carries : SUBSET Attributes,
          written : 0..2, properties : Contents]

FileInv ==
    /\ FileTypeOK
    /\ \A t \in Savers :
          /\ call[t].at # "idle" => call[t].set \in 1..MaxSaves
          /\ call[t].at = "append" => call[t].written \in 0..1
    /\ DOMAIN found = Savers
    /\ \A t \in Savers : found[t] # None => Undisturbed(t)

-----------------------------------------------------------------------------
LEMMA AppendTwo ==
    ASSUME NEW S, NEW s \in Seq(S), NEW p \in S, NEW q \in S
    PROVE  Append(Append(s, p), q) = s \o <<p, q>>
  <1> DEFINE a == Append(s, p)
             l == Append(a, q)
             r == s \o <<p, q>>
  <1>1. a \in Seq(S) /\ Len(a) = Len(s) + 1 /\ a[Len(s) + 1] = p
        /\ \A i \in 1..Len(s) : a[i] = s[i]
    OBVIOUS
  <1> HIDE DEF a
  <1>2. l \in Seq(S) /\ Len(l) = Len(a) + 1 /\ l[Len(a) + 1] = q
        /\ \A i \in 1..Len(a) : l[i] = a[i]
    BY <1>1
  <1>3. r \in Seq(S) /\ Len(r) = Len(s) + 2 /\ r[Len(s) + 1] = p /\ r[Len(s) + 2] = q
        /\ \A i \in 1..Len(s) : r[i] = s[i]
    OBVIOUS
  <1> HIDE DEF l, r
  <1>4. Len(l) = Len(r) /\ \A i \in 1..Len(l) : l[i] = r[i]
    <2>1. Len(s) \in Nat
      OBVIOUS
    <2>2. \A i \in 1..Len(s) : l[i] = r[i]
      BY <1>1, <1>2, <1>3, <2>1
    <2>3. Len(l) = Len(s) + 2 /\ Len(r) = Len(s) + 2
      BY <1>1, <1>2, <1>3, <2>1
    <2>4. l[Len(s) + 1] = p /\ l[Len(s) + 2] = q
      BY <1>1, <1>2, <2>1
    <2>5. \A i \in 1..(Len(s) + 2) : i \in 1..Len(s) \/ i = Len(s) + 1 \/ i = Len(s) + 2
      BY <2>1
    <2> QED BY <1>3, <2>2, <2>3, <2>4, <2>5
  <1>5. l = r
    BY <1>2, <1>3, <1>4
  <1> QED BY <1>5 DEF a, l, r

LEMMA IdleType ==
    Idle \in Calls /\ Idle.at = "idle" /\ Idle.written = 0
  BY FileRepositoryAssumption DEF Idle, Calls, Phases, Nothing, Contents

LEMMA InitFile == FileInit => FileInv
  BY FileRepositoryAssumption DEF FileInit, FileInv, FileTypeOK, Idle, Nothing, Contents, Phases, Undisturbed

(* What every step has to show: the types, and that a call which is still  *)
(* undisturbed has done its part.                                          *)
LEMMA CallChanges ==
    ASSUME FileInv, NEW t \in Savers, NEW c \in Calls,
           call' = [call EXCEPT ![t] = c],
           c.at # "idle" => c.set \in 1..MaxSaves,
           c.at = "append" => c.written \in 0..1,
           sampleFile' \in Seq((1..MaxSaves) \X (1..2)),
           attributesFile' \in Contents, saves' \in 0..MaxSaves,
           DOMAIN found' = Savers,
           \A u \in Savers : found'[u] # None => u = t /\ Undisturbed(u)'
    PROVE  FileInv'
  <1>1. call \in [Savers -> Calls]
    BY DEF FileInv, FileTypeOK, Calls, Phases
  <1>2. /\ call' \in [Savers -> Calls]
        /\ \A u \in Savers : call'[u] = IF u = t THEN c ELSE call[u]
    BY <1>1
  <1>3. \A u \in Savers : found'[u] # None => found'[u].attributes \in Contents
    BY DEF Undisturbed, Progress
  <1>4. FileTypeOK'
    BY <1>2, <1>3 DEF FileTypeOK, Calls, Phases
  <1>5. \A u \in Savers :
           /\ call'[u].at # "idle" => call'[u].set \in 1..MaxSaves
           /\ call'[u].at = "append" => call'[u].written \in 0..1
    BY <1>2 DEF FileInv
  <1> QED BY <1>4, <1>5 DEF FileInv

(* The call in hand, and that it alone can be undisturbed.                 *)
LEMMA CallType ==
    ASSUME FileInv, NEW t \in Savers
    PROVE  /\ call[t] \in Calls
           /\ call[t].at # "idle" => call[t].set \in 1..MaxSaves
           /\ call[t].at = "append" => call[t].written \in 0..1
           /\ sampleFile \in Seq((1..MaxSaves) \X (1..2))
           /\ attributesFile \in Contents /\ saves \in 0..MaxSaves
           /\ DOMAIN found = Savers
           /\ call[t].at # "idle" =>
                \A u \in Savers : found[u] # None => u = t /\ Undisturbed(u)
  <1>1. /\ call[t] \in Calls
        /\ call[t].at # "idle" => call[t].set \in 1..MaxSaves
        /\ call[t].at = "append" => call[t].written \in 0..1
        /\ sampleFile \in Seq((1..MaxSaves) \X (1..2))
        /\ attributesFile \in Contents /\ saves \in 0..MaxSaves
        /\ DOMAIN found = Savers
    BY DEF FileInv, FileTypeOK, Calls, Phases
  <1>2. ASSUME call[t].at # "idle", NEW u \in Savers, found[u] # None
        PROVE  u = t /\ Undisturbed(u)
    <2>1. Undisturbed(u)
      BY <1>2 DEF FileInv
    <2>2. CASE u # t
      <3>1. call[t] = Idle
        BY <2>1, <2>2 DEF Undisturbed
      <3> QED BY <1>2, <3>1 DEF Idle
    <2> QED BY <2>1, <2>2
  <1> QED BY <1>1, <1>2

LEMMA SaveFile ==
    ASSUME FileInv, NEW t \in Savers, Save(t)
    PROVE  FileInv'
  <1>1. PICK A \in SUBSET Attributes :
           call' = [call EXCEPT ![t] = [Idle EXCEPT
                     !.at = "append", !.set = saves + 1, !.carries = A]]
    BY DEF Save
  <1> DEFINE c == [Idle EXCEPT !.at = "append", !.set = saves + 1, !.carries = A]
  <1>2. call' = [call EXCEPT ![t] = c]
    BY <1>1
  <1>3. /\ sampleFile \in Seq((1..MaxSaves) \X (1..2)) /\ attributesFile \in Contents
        /\ saves \in 0..MaxSaves
    BY CallType
  <1>4. /\ saves < MaxSaves /\ saves' = saves + 1
        /\ sampleFile' = sampleFile /\ attributesFile' = attributesFile
        /\ DOMAIN found' = Savers
    BY DEF Save
  <1>5. saves + 1 \in 1..MaxSaves /\ saves + 1 \in 0..MaxSaves /\ saves' \in 0..MaxSaves
    BY FileRepositoryAssumption, <1>3, <1>4
  <1>6. /\ c \in Calls /\ c.at = "append" /\ c.set = saves + 1 /\ c.written = 0
    <2>1. Idle \in Calls /\ Idle.written = 0 /\ "append" \in Phases
      BY IdleType DEF Phases
    <2> QED BY <1>5, <2>1 DEF Calls
  <1> HIDE DEF c
  <1>7. call'[t] = c /\ \A u \in Savers \ {t} : call'[u] = call[u]
    BY <1>2 DEF FileInv, FileTypeOK
  <1>8. ASSUME NEW u \in Savers, found'[u] # None
        PROVE  u = t /\ Undisturbed(u)'
    <2>1. /\ u = t /\ \A v \in Savers : call[v] = Idle
          /\ found'[t] = [samples |-> sampleFile, attributes |-> attributesFile]
      BY <1>8 DEF Save
    <2>2. \A v \in Savers \ {t} : call'[v] = Idle
      BY <1>7, <2>1
    <2> QED BY <1>3, <1>4, <1>5, <1>6, <1>7, <2>1, <2>2 DEF Undisturbed, Progress
  <1>9. /\ c.at # "idle" => c.set \in 1..MaxSaves
        /\ c.at = "append" => c.written \in 0..1
    BY <1>5, <1>6
  <1> QED BY <1>2, <1>3, <1>4, <1>5, <1>6, <1>8, <1>9, CallChanges

(* The other steps of a call, given its new record and the files.          *)
LEMMA StepFile ==
    ASSUME FileInv, NEW t \in Savers, call[t].at # "idle", NEW c \in Calls,
           call' = [call EXCEPT ![t] = c],
           c.set = call[t].set, c.carries = call[t].carries,
           c.at = "append" => c.written \in 0..1,
           sampleFile' \in Seq((1..MaxSaves) \X (1..2)),
           attributesFile' \in Contents, saves' = saves,
           found' \in {found, [found EXCEPT ![t] = None]},
           found[t] # None /\ found' = found => Undisturbed(t)'
    PROVE  FileInv'
  <1>1. /\ call[t].set \in 1..MaxSaves /\ saves \in 0..MaxSaves /\ DOMAIN found = Savers
        /\ \A u \in Savers : found[u] # None => u = t
    BY CallType
  <1>2. DOMAIN found' = Savers
    BY <1>1
  <1>3. ASSUME NEW u \in Savers, found'[u] # None
        PROVE  u = t /\ Undisturbed(u)'
    <2>1. CASE found' = found
      BY <1>1, <1>3, <2>1
    <2>2. CASE found' = [found EXCEPT ![t] = None]
      <3>1. found'[t] = None /\ \A v \in Savers \ {t} : found'[v] = found[v]
        BY <1>1, <2>2
      <3> QED BY <1>1, <1>3, <3>1
    <2> QED BY <2>1, <2>2
  <1> QED BY <1>1, <1>2, <1>3, CallChanges

LEMMA AppendFile ==
    ASSUME FileInv, NEW t \in Savers, AppendPiece(t)
    PROVE  FileInv'
  <1> DEFINE n == call[t].written + 1
             b == IF n = 1 THEN "append" ELSE "load"
             c == [call[t] EXCEPT !.written = n, !.at = b]
             piece == <<call[t].set, n>>
  <1>1. /\ call[t].at = "append" /\ call' = [call EXCEPT ![t] = c]
        /\ \/ sampleFile' = Append(sampleFile, piece) /\ found' = found
           \/ found' = [found EXCEPT ![t] = None] /\ sampleFile' = sampleFile
        /\ attributesFile' = attributesFile /\ saves' = saves
    BY DEF AppendPiece
  <1>2. /\ call[t] \in Calls /\ call[t].set \in 1..MaxSaves /\ call[t].written \in 0..1
        /\ sampleFile \in Seq((1..MaxSaves) \X (1..2))
        /\ attributesFile \in Contents
        /\ found[t] # None => Undisturbed(t)
    BY <1>1, CallType
  <1>3. n \in 0..2 /\ n \in 1..2 /\ b \in Phases /\ (b = "append" => n = 1)
    BY <1>2 DEF Phases
  <1>4. /\ c \in Calls /\ c.at = b /\ c.written = n /\ c.set = call[t].set
        /\ c.carries = call[t].carries
    <2> HIDE DEF n, b
    <2> QED BY <1>2, <1>3 DEF Calls
  <1> HIDE DEF c
  <1>5. Append(sampleFile, piece) \in Seq((1..MaxSaves) \X (1..2))
    <2>1. piece \in (1..MaxSaves) \X (1..2)
      BY <1>2, <1>3
    <2> QED BY <1>2, <2>1, AppendType
  <1>6. call'[t] = c /\ \A u \in Savers \ {t} : call'[u] = call[u]
    BY <1>1 DEF FileInv, FileTypeOK
  <1>7. ASSUME found[t] # None, found' = found
        PROVE  Undisturbed(t)'
    <2>1. sampleFile' = Append(sampleFile, piece)
      <3>1. DOMAIN found = Savers
        BY DEF FileInv
      <3>2. found' # [found EXCEPT ![t] = None]
        BY <1>7, <3>1
      <3> QED BY <1>1, <3>2
    <2>2. Undisturbed(t)
      BY <1>2, <1>7
    <2>3. Progress(c, found[t], Append(sampleFile, piece), attributesFile)
      <3>1. Progress(call[t], found[t], sampleFile, attributesFile)
        BY <2>2 DEF Undisturbed
      <3>2. CASE call[t].written = 0
        <4>1. /\ c.at = "append" /\ c.written = 1 /\ piece = <<c.set, 1>>
              /\ sampleFile = found[t].samples
          BY <1>1, <1>4, <3>1, <3>2 DEF Progress
        <4> HIDE DEF piece
        <4> QED BY <1>1, <3>1, <4>1 DEF Progress, First
      <3>3. CASE call[t].written = 1
        <4>1. /\ c.at = "load" /\ piece = <<c.set, 2>>
              /\ sampleFile = First(c, found[t])
          BY <1>1, <1>4, <3>1, <3>3 DEF Progress, First
        <4> HIDE DEF piece
        <4> QED BY <1>1, <3>1, <4>1 DEF Progress, Both
      <3> QED BY <1>2, <3>2, <3>3
    <2> QED BY <1>1, <1>6, <1>7, <2>1, <2>2, <2>3 DEF Undisturbed
  <1>8. c.at = "append" => c.written \in 0..1
    BY <1>3, <1>4
  <1> HIDE DEF piece, n, b
  <1>9. sampleFile' \in Seq((1..MaxSaves) \X (1..2))
    BY <1>1, <1>2, <1>5, Zenon
  <1>10. found' \in {found, [found EXCEPT ![t] = None]}
    BY <1>1, Zenon
  <1>11. call[t].at # "idle" /\ attributesFile' \in Contents
    BY <1>1, <1>2
  <1> QED BY <1>1, <1>4, <1>7, <1>8, <1>9, <1>10, <1>11, StepFile

LEMMA OverType ==
    ASSUME NEW p \in Contents, NEW q \in Contents
    PROVE  Over(p, q) \in Contents
  BY DEF Over, Contents

LEMMA OwnType ==
    ASSUME FileInv, NEW t \in Savers, call[t].at # "idle"
    PROVE  Own(t) \in Contents
  <1>1. call[t].set \in 0..MaxSaves /\ 0 \in 0..MaxSaves
    BY FileRepositoryAssumption, CallType DEF Calls
  <1> QED BY <1>1 DEF Own, Contents

(* Merging the set's attributes into f's gives every attribute of the set  *)
(* the set's value, since no set is numbered 0.                            *)
LEMMA MergedNew ==
    ASSUME FileInv, NEW t \in Savers, call[t].at # "idle", NEW f
    PROVE  Over(Own(t), f.attributes) = New(call[t], f)
  BY CallType DEF Over, Own, New, Calls

LEMMA LoadFile ==
    ASSUME FileInv, NEW t \in Savers, LoadAndMerge(t)
    PROVE  FileInv'
  <1> DEFINE c == [call[t] EXCEPT !.at = "merged", !.properties = Merged(t)]
  <1>1. /\ call[t].at = "load" /\ call' = [call EXCEPT ![t] = c]
        /\ sampleFile' = sampleFile /\ attributesFile' = attributesFile
        /\ saves' = saves /\ found' = found
    BY DEF LoadAndMerge
  <1>2. /\ call[t] \in Calls
        /\ sampleFile \in Seq((1..MaxSaves) \X (1..2)) /\ attributesFile \in Contents
        /\ found[t] # None => Undisturbed(t)
    BY <1>1, CallType
  <1>3. Merged(t) \in Contents
    BY <1>1, <1>2, OverType, OwnType DEF Merged
  <1>4. /\ c \in Calls /\ c.at = "merged" /\ c.properties = Merged(t)
        /\ c.set = call[t].set /\ c.carries = call[t].carries
    BY <1>2, <1>3 DEF Calls, Phases
  <1> HIDE DEF c
  <1>5. call'[t] = c /\ \A u \in Savers \ {t} : call'[u] = call[u]
    BY <1>1 DEF FileInv, FileTypeOK
  <1>6. ASSUME found[t] # None
        PROVE  Undisturbed(t)'
    <2>1. Undisturbed(t)
      BY <1>2, <1>6
    <2>2. attributesFile = found[t].attributes /\ sampleFile = Both(call[t], found[t])
      BY <1>1, <2>1 DEF Undisturbed, Progress
    <2>3. Merged(t) = New(call[t], found[t])
      BY <1>1, <2>2, MergedNew DEF Merged
    <2>4. New(c, found[t]) = New(call[t], found[t]) /\ Both(c, found[t]) = Both(call[t], found[t])
      BY <1>4 DEF New, Both, First
    <2> QED BY <1>1, <1>4, <1>5, <2>1, <2>2, <2>3, <2>4 DEF Undisturbed, Progress
  <1> QED BY <1>1, <1>2, <1>4, <1>6, StepFile

LEMMA TruncateFile ==
    ASSUME FileInv, NEW t \in Savers, Truncate(t)
    PROVE  FileInv'
  <1> DEFINE c == [call[t] EXCEPT !.at = "truncated"]
  <1>1. /\ call[t].at = "merged" /\ call' = [call EXCEPT ![t] = c]
        /\ sampleFile' = sampleFile /\ attributesFile' = Nothing
        /\ saves' = saves /\ found' = found
    BY DEF Truncate
  <1>2. /\ call[t] \in Calls
        /\ sampleFile \in Seq((1..MaxSaves) \X (1..2))
        /\ found[t] # None => Undisturbed(t)
    BY <1>1, CallType
  <1>3. /\ c \in Calls /\ c.at = "truncated" /\ c.properties = call[t].properties
        /\ c.set = call[t].set /\ c.carries = call[t].carries
    BY <1>2 DEF Calls, Phases
  <1> HIDE DEF c
  <1>4. call'[t] = c /\ \A u \in Savers \ {t} : call'[u] = call[u]
    BY <1>1 DEF FileInv, FileTypeOK
  <1>5. ASSUME found[t] # None
        PROVE  Undisturbed(t)'
    <2>1. Undisturbed(t)
      BY <1>2, <1>5
    <2>2. New(c, found[t]) = New(call[t], found[t]) /\ Both(c, found[t]) = Both(call[t], found[t])
      BY <1>3 DEF New, Both, First
    <2> QED BY <1>1, <1>3, <1>4, <2>1, <2>2 DEF Undisturbed, Progress
  <1>6. attributesFile' \in Contents
    BY FileRepositoryAssumption, <1>1 DEF Nothing, Contents
  <1> QED BY <1>1, <1>2, <1>3, <1>5, <1>6, StepFile

(* A call that ends, with whatever it leaves in the attributes file.       *)
LEMMA EndFile ==
    ASSUME FileInv, NEW t \in Savers, call[t].at # "idle",
           call' = [call EXCEPT ![t] = Idle], found' = [found EXCEPT ![t] = None],
           attributesFile' \in Contents, sampleFile' = sampleFile, saves' = saves
    PROVE  FileInv'
  <1>1. /\ sampleFile \in Seq((1..MaxSaves) \X (1..2)) /\ saves \in 0..MaxSaves
        /\ DOMAIN found = Savers
        /\ \A u \in Savers : found[u] # None => u = t
    BY CallType
  <1>2. \A u \in Savers : found'[u] = None /\ DOMAIN found' = Savers
    BY <1>1
  <1>3. Idle \in Calls /\ Idle.at = "idle"
    BY IdleType
  <1>4. DOMAIN found' = Savers
    BY <1>1
  <1> QED BY <1>1, <1>2, <1>3, <1>4, CallChanges

LEMMA StoreFile ==
    ASSUME FileInv, NEW t \in Savers, Store(t)
    PROVE  FileInv'
  <1>1. PICK rest \in SUBSET Attributes :
           attributesFile' = Over(call[t].properties,
             [a \in Attributes |-> IF a \in rest THEN attributesFile[a] ELSE 0])
    BY DEF Store
  <1>2. [a \in Attributes |-> IF a \in rest THEN attributesFile[a] ELSE 0] \in Contents
    BY FileRepositoryAssumption, CallType DEF Contents
  <1>3. call[t].properties \in Contents
    BY CallType DEF Calls
  <1>4. attributesFile' \in Contents
    BY <1>1, <1>2, <1>3, OverType
  <1> QED BY <1>4, EndFile DEF Store

LEMMA CrashFile ==
    ASSUME FileInv, Crash
    PROVE  FileInv'
  <1>1. /\ call' = [t \in Savers |-> Idle] /\ found' = [t \in Savers |-> None]
        /\ sampleFile' = sampleFile /\ attributesFile' = attributesFile /\ saves' = saves
    BY DEF Crash
  <1>2. Idle \in Calls /\ Idle.at = "idle"
    BY IdleType
  <1>3. /\ call' \in [Savers -> Calls]
        /\ \A t \in Savers : call'[t].at = "idle" /\ found'[t] = None
    BY <1>1, <1>2
  <1>4. FileTypeOK'
    BY <1>1, <1>3 DEF FileInv, FileTypeOK, Calls, Phases
  <1> QED BY <1>1, <1>3, <1>4 DEF FileInv

LEMMA NextFile ==
    ASSUME FileInv, [FileNext]_fileVars
    PROVE  FileInv'
  <1>1. ASSUME NEW t \in Savers, AttributesFail(t)
        PROVE  FileInv'
    <2>1. call[t].at # "idle" /\ attributesFile' \in Contents
      BY <1>1, CallType DEF AttributesFail
    <2> QED BY <1>1, <2>1, EndFile DEF AttributesFail
  <1>2. CASE UNCHANGED fileVars
    BY <1>2 DEF fileVars, FileInv, FileTypeOK, Undisturbed, Progress
  <1>3. CASE Crash
    BY <1>3, CrashFile
  <1>4. ASSUME NEW t \in Savers,
               \/ Save(t) \/ AppendPiece(t) \/ LoadAndMerge(t)
               \/ Truncate(t) \/ Store(t)
        PROVE  FileInv'
    BY <1>4, SaveFile, AppendFile, LoadFile, TruncateFile, StoreFile
  <1> QED BY <1>1, <1>2, <1>3, <1>4 DEF FileNext

(* What an undisturbed call leaves when it stores the attributes: nothing  *)
(* of what was there since the file was emptied can stick out, and the     *)
(* properties hold everything that was found.                              *)
LEMMA StoreAlone ==
    ASSUME FileInv, NEW t \in Savers, found[t] # None, Store(t)
    PROVE  /\ sampleFile' = found[t].samples \o <<<<call[t].set, 1>>, <<call[t].set, 2>>>>
           /\ attributesFile' = Over(Own(t), found[t].attributes)
  <1> DEFINE f == found[t]
  <1>1. /\ call[t].at = "truncated" /\ sampleFile' = sampleFile
    BY DEF Store
  <1>2. Undisturbed(t) /\ call[t] \in Calls
    BY <1>1, CallType
  <1>3. /\ f.samples \in Seq((1..MaxSaves) \X (1..2)) /\ f.attributes \in Contents
        /\ sampleFile = Both(call[t], f) /\ attributesFile = Nothing
        /\ call[t].properties = New(call[t], f)
    BY <1>1, <1>2 DEF Undisturbed, Progress
  <1>4. Both(call[t], f) = f.samples \o <<<<call[t].set, 1>>, <<call[t].set, 2>>>>
    <2> DEFINE p == <<call[t].set, 1>>
               q == <<call[t].set, 2>>
    <2>1. p \in (1..MaxSaves) \X (1..2) /\ q \in (1..MaxSaves) \X (1..2)
      BY <1>1, CallType
    <2> HIDE DEF p, q, f
    <2>2. Append(Append(f.samples, p), q) = f.samples \o <<p, q>>
      BY <1>3, <2>1, AppendTwo
    <2> QED BY <2>2 DEF Both, First, p, q
  <1>5. PICK rest \in SUBSET Attributes :
           attributesFile' = Over(call[t].properties,
             [a \in Attributes |-> IF a \in rest THEN attributesFile[a] ELSE 0])
    BY DEF Store
  <1>6. call[t].properties \in Contents
    BY <1>2 DEF Calls
  <1>7. [a \in Attributes |-> IF a \in rest THEN attributesFile[a] ELSE 0] = Nothing
    BY <1>3 DEF Nothing
  <1>8. Over(call[t].properties, Nothing) = call[t].properties
    BY <1>6 DEF Over, Nothing, Contents
  <1>9. attributesFile' = New(call[t], f)
    BY <1>3, <1>5, <1>7, <1>8
  <1>10. Over(Own(t), f.attributes) = New(call[t], f)
    BY <1>1, MergedNew
  <1> QED BY <1>1, <1>3, <1>4, <1>9, <1>10
-----------------------------------------------------------------------------
(* The files and the calls keep their types, and a call that nothing has   *)
(* disturbed has left in the files exactly what it has written so far.     *)
THEOREM FileInvHolds == FileSpec => []FileInv
  <1>1. FileInit => FileInv
    BY InitFile
  <1>2. FileInv /\ [FileNext]_fileVars => FileInv'
    BY NextFile
  <1> QED BY <1>1, <1>2, PTL DEF FileSpec

(* SimpleFileRepository.save() on its own is atomic: with no other call,   *)
(* error or crash in between it appends its samples as a whole and merges  *)
(* its attributes into the others, whatever earlier calls left behind.     *)
THEOREM AloneIsAtomicHolds == FileSpec => AloneIsAtomic
  <1>1. ASSUME FileInv, [FileNext]_fileVars
        PROVE  [\A t \in Savers : found[t] # None /\ Store(t) =>
          /\ sampleFile' = found[t].samples \o <<<<call[t].set, 1>>, <<call[t].set, 2>>>>
          /\ attributesFile' = Over(Own(t), found[t].attributes)]_fileVars
    BY <1>1, StoreAlone
  <1> QED BY <1>1, FileInvHolds, PTL DEF FileSpec, AloneIsAtomic

-----------------------------------------------------------------------------
(* SampleSet: the list and its indexes. *)

(* Each sample knows its place in the list.                                *)
ListInv ==
    /\ m_measurements \in Seq(Sample) /\ Len(m_measurements) <= MaxSamples
    /\ \A i \in DOMAIN m_measurements : m_measurements[i].n = i

(* An index that has been built holds samples of the list, all of them     *)
(* unless it is marked, and each once unless one was added later.          *)
IndexInv ==
    \A x \in Indexes : index[x] # Null =>
       /\ index[x] \in [Keys(x) -> Seq(Sample)]
       /\ \A k \in Keys(x) : /\ ToSet(index[x][k]) \subseteq Samples(x, k)
                             /\ ~dirty[x] => ToSet(index[x][k]) = Samples(x, k)
                             /\ ~lateAdd[x] => ~dirty[x] /\ Lists(index[x][k], Samples(x, k))

SampleSetInv ==
    /\ ListInv /\ IndexInv
    /\ DOMAIN index = Indexes
    /\ dirty \in [Indexes -> BOOLEAN] /\ lateAdd \in [Indexes -> BOOLEAN]

(* The samples among the first n that belong under a key.                  *)
Upto(x, k, n) == {m_measurements[i] : i \in {j \in 1..n : KeyOf(x, m_measurements[j]) = k}}

(* h[n] is what the map holds under key k after n samples.                 *)
Files(h, x, k, old) ==
    /\ Filed(x, k, old) = h[Len(m_measurements)]
    /\ h[0] = old
    /\ \A n \in 1..Len(m_measurements) :
          h[n] = IF KeyOf(x, m_measurements[n]) = k
                 THEN Append(h[n - 1], m_measurements[n]) ELSE h[n - 1]

LEMMA FiledRecursion ==
    ASSUME m_measurements \in Seq(Sample), NEW x, NEW k, NEW old \in Seq(Sample)
    PROVE  \E h \in [0..Len(m_measurements) -> Seq(Sample)] : Files(h, x, k, old)
  <1> DEFINE m == m_measurements
             L == Len(m)
             S == Seq(Sample)
             Body(h) == [n \in 0..L |->
                           IF n = 0 THEN old
                           ELSE IF KeyOf(x, m[n]) = k THEN Append(h[n - 1], m[n]) ELSE h[n - 1]]
             step == [p \in Nat \X S |->
                        IF p[1] \in 1..L /\ KeyOf(x, m[p[1]]) = k THEN Append(p[2], m[p[1]])
                        ELSE p[2]]
  <1>1. L \in Nat /\ DOMAIN m = 1..L /\ \A n \in 1..L : m[n] \in Sample
    OBVIOUS
  <1>2. step \in [Nat \X S -> S]
    <2>1. ASSUME NEW p \in Nat \X S
          PROVE  (IF p[1] \in 1..L /\ KeyOf(x, m[p[1]]) = k THEN Append(p[2], m[p[1]]) ELSE p[2]) \in S
      <3>1. p[2] \in S
        OBVIOUS
      <3>2. p[1] \in 1..L => Append(p[2], m[p[1]]) \in S
        BY <1>1, <3>1, AppendType
      <3> QED BY <3>1, <3>2
    <2> QED BY <2>1
  <1>3. PICK h \in [0..L -> S] : Recursive(h, old, step, L)
    <2> HIDE DEF L, S, step
    <2>1. L \in Nat /\ old \in S /\ step \in [Nat \X S -> S]
      BY <1>1, <1>2 DEF S
    <2> QED BY <2>1, RecursionExists
  <1>4. ASSUME NEW n \in 1..L, NEW q \in S
        PROVE  step[<<n, q>>] = IF KeyOf(x, m[n]) = k THEN Append(q, m[n]) ELSE q
    <2>0. PICK p : p = <<n, q>>
      OBVIOUS
    <2>1. p \in Nat \X S /\ p[1] = n /\ p[2] = q
      BY <1>1, <2>0
    <2>2. step[p] = IF p[1] \in 1..L /\ KeyOf(x, m[p[1]]) = k THEN Append(p[2], m[p[1]]) ELSE p[2]
      BY <2>1
    <2>3. step[p] = IF KeyOf(x, m[n]) = k THEN Append(q, m[n]) ELSE q
      BY <2>1, <2>2
    <2> HIDE DEF step, S, L, Body
    <2> QED BY <2>0, <2>3, Zenon
  <1>5. \A n \in 1..L : n - 1 \in 0..L /\ h[n - 1] \in S
    <2> HIDE DEF L, S, step, Body
    <2>1. \A n \in 1..L : n - 1 \in 0..L
      BY <1>1
    <2> QED BY <1>3, <2>1
  <1>6. h = Body(h)
    <2>1. \A n \in 0..L : n = 0 \/ n \in 1..L
      BY <1>1
    <2> HIDE DEF step
    <2>2. \A n \in 0..L : h[n] = IF n = 0 THEN old
                ELSE IF KeyOf(x, m[n]) = k THEN Append(h[n - 1], m[n]) ELSE h[n - 1]
      BY <1>3, <1>4, <1>5, <2>1 DEF Recursive
    <2>3. h = [n \in 0..L |-> h[n]]
      BY <1>3
    <2> QED BY <2>2, <2>3
  <1> DEFINE c == CHOOSE g : g = Body(g)
  <1>7. c = Body(c)
    <2> HIDE DEF Body
    <2> QED BY <1>6
  <1>8. Filed(x, k, old) = c[L]
    BY DEF Filed
  <1> HIDE DEF c
  <1>9. \A n \in 0..L : c[n] = IF n = 0 THEN old
               ELSE IF KeyOf(x, m[n]) = k THEN Append(c[n - 1], m[n]) ELSE c[n - 1]
    BY <1>7
  <1>10. \A n \in 1..L : c[n] = IF KeyOf(x, m[n]) = k THEN Append(c[n - 1], m[n]) ELSE c[n - 1]
    BY <1>1, <1>9
  <1>11. c[0] = old
    BY <1>1, <1>9
  <1>12. c \in [0..L -> S]
    <2> DEFINE P == {n \in Nat : n <= L => c[n] \in S}
    <2>1. 0 \in P
      BY <1>11
    <2>2. ASSUME NEW n \in Nat, n \in P PROVE n + 1 \in P
      <3> SUFFICES ASSUME n + 1 <= L PROVE c[n + 1] \in S
        OBVIOUS
      <3>1. n + 1 \in 1..L /\ (n + 1) - 1 = n /\ c[n] \in S
        BY <1>1, <2>2
      <3>2. c[n + 1] = IF KeyOf(x, m[n + 1]) = k THEN Append(c[n], m[n + 1]) ELSE c[n]
        BY <1>10, <3>1
      <3>3. Append(c[n], m[n + 1]) \in S
        BY <1>1, <3>1, AppendType
      <3> QED BY <3>1, <3>2, <3>3
    <2> HIDE DEF P
    <2>3. Nat \subseteq P
      BY <2>1, <2>2, SetInduction
    <2>4. \A n \in 0..L : c[n] \in S
      BY <1>1, <2>3 DEF P
    <2>5. c = [n \in 0..L |-> c[n]]
      BY <1>7
    <2> QED BY <2>4, <2>5
  <1>13. Files(c, x, k, old)
    BY <1>8, <1>10, <1>11 DEF Files
  <1> QED BY <1>12, <1>13

(* What the loop files under a key: what was there, and each sample of the *)
(* list that belongs there; only those, in their order, when the map was   *)
(* empty.                                                                  *)
LEMMA FiledHolds ==
    ASSUME ListInv, NEW x, NEW k, NEW old \in Seq(Sample)
    PROVE  /\ Filed(x, k, old) \in Seq(Sample)
           /\ ToSet(Filed(x, k, old)) = ToSet(old) \cup Samples(x, k)
           /\ old = <<>> => Lists(Filed(x, k, old), Samples(x, k))
  <1> DEFINE m == m_measurements
             L == Len(m)
  <1>1. /\ m \in Seq(Sample) /\ L \in Nat /\ DOMAIN m = 1..L
        /\ \A n \in 1..L : m[n] \in Sample /\ m[n].n = n
    BY DEF ListInv
  <1>0. PICK h \in [0..L -> Seq(Sample)] : Files(h, x, k, old)
    BY <1>1, FiledRecursion
  <1>2. /\ Filed(x, k, old) = h[L]
        /\ h[0] = old
        /\ \A n \in 1..L : h[n] = IF KeyOf(x, m[n]) = k THEN Append(h[n - 1], m[n])
                                                        ELSE h[n - 1]
    BY <1>0 DEF Files
  <1> DEFINE Good(n) == /\ ToSet(h[n]) = ToSet(old) \cup Upto(x, k, n)
                        /\ old = <<>> =>
                             /\ \A i, j \in DOMAIN h[n] : i < j => h[n][i].n < h[n][j].n
                             /\ \A i \in DOMAIN h[n] : h[n][i].n \in 1..n
             P == {n \in Nat : n <= L => Good(n)}
  <1>3. 0 \in P
    <2>1. Upto(x, k, 0) = {}
      BY DEF Upto
    <2>2. h[0] = old
      BY <1>2
    <2> QED BY <2>1, <2>2
  <1>4. ASSUME NEW n \in Nat, n \in P PROVE n + 1 \in P
    <2> SUFFICES ASSUME n + 1 <= L PROVE Good(n + 1)
      OBVIOUS
    <2> DEFINE p == n + 1
               q == h[n]
    <2>1. p \in 1..L /\ p - 1 = n /\ n \in 0..L /\ Good(n) /\ q \in Seq(Sample)
      BY <1>1, <1>2, <1>4
    <2>2. h[p] = IF KeyOf(x, m[p]) = k THEN Append(q, m[p]) ELSE q
      BY <1>2, <2>1
    <2>3. Upto(x, k, p) = Upto(x, k, n) \cup (IF KeyOf(x, m[p]) = k THEN {m[p]} ELSE {})
      <3>1. \A i : i \in 1..p <=> i \in 1..n \/ i = p
        BY <2>1
      <3> HIDE DEF p
      <3> QED BY <3>1 DEF Upto
    <2>4. m[p] \in Sample /\ m[p].n = p /\ p = n + 1
      BY <1>1, <2>1
    <2> HIDE DEF p, q, m
    <2>5. CASE KeyOf(x, m[p]) = k
      <3>1. h[p] = Append(q, m[p])
        BY <2>2, <2>5
      <3>2. /\ DOMAIN q = 1..Len(q) /\ DOMAIN Append(q, m[p]) = 1..(Len(q) + 1) /\ Len(q) \in Nat
            /\ \A i \in 1..Len(q) : Append(q, m[p])[i] = q[i]
            /\ Append(q, m[p])[Len(q) + 1] = m[p]
        BY <2>1, <2>4, AppendElements
      <3>3. ToSet(Append(q, m[p])) = ToSet(q) \cup {m[p]}
        <4>1. \A i : i \in 1..(Len(q) + 1) <=> i \in 1..Len(q) \/ i = Len(q) + 1
          BY <3>2
        <4> QED BY <3>2, <4>1 DEF ToSet
      <3>4. ToSet(h[p]) = ToSet(old) \cup Upto(x, k, p)
        BY <2>1, <2>3, <2>5, <3>1, <3>3 DEF q
      <3>5. ASSUME old = <<>>
            PROVE  /\ \A i, j \in DOMAIN h[p] : i < j => h[p][i].n < h[p][j].n
                   /\ \A i \in DOMAIN h[p] : h[p][i].n \in 1..p
        <4>1. /\ \A i, j \in 1..Len(q) : i < j => q[i].n < q[j].n
              /\ \A i \in 1..Len(q) : q[i].n \in 1..n
          BY <2>1, <3>2, <3>5 DEF q
        <4>2. \A i \in 1..(Len(q) + 1) :
                 \/ i \in 1..Len(q) /\ h[p][i].n = q[i].n
                 \/ i = Len(q) + 1 /\ h[p][i].n = n + 1
          BY <2>4, <3>1, <3>2
        <4>3. \A i \in 1..(Len(q) + 1) : h[p][i].n \in 1..(n + 1)
          BY <4>1, <4>2
        <4>4. ASSUME NEW i \in 1..(Len(q) + 1), NEW j \in 1..(Len(q) + 1), i < j
              PROVE  h[p][i].n < h[p][j].n
          <5>1. i \in 1..Len(q) /\ h[p][i].n = q[i].n /\ q[i].n \in 1..n
            BY <3>2, <4>1, <4>2, <4>4
          <5> QED BY <4>1, <4>2, <4>4, <5>1
        <4> QED BY <2>4, <3>1, <3>2, <4>3, <4>4
      <3> QED BY <2>4, <3>4, <3>5
    <2>6. CASE KeyOf(x, m[p]) # k
      <3>1. h[p] = q /\ Upto(x, k, p) = Upto(x, k, n)
        BY <2>2, <2>3, <2>6
      <3>2. ToSet(h[p]) = ToSet(old) \cup Upto(x, k, p)
        BY <2>1, <3>1 DEF q
      <3>3. \A i \in 1..n : i \in 1..p
        BY <2>4
      <3>4. ASSUME old = <<>>
            PROVE  /\ \A i, j \in DOMAIN h[p] : i < j => h[p][i].n < h[p][j].n
                   /\ \A i \in DOMAIN h[p] : h[p][i].n \in 1..p
        BY <2>1, <3>1, <3>3, <3>4 DEF q
      <3> QED BY <2>4, <3>2, <3>4
    <2> QED BY <2>5, <2>6
  <1> HIDE DEF P
  <1>5. Good(L)
    <2>1. L \in P
      BY <1>1, <1>3, <1>4, SetInduction
    <2> QED BY <1>1, <2>1 DEF P
  <1>6. Upto(x, k, L) = Samples(x, k)
    BY <1>1 DEF Upto, Samples, ToSet
  <1>7. h[L] \in Seq(Sample)
    BY <1>1
  <1>8. old = <<>> => ToSet(old) = {}
    BY DEF ToSet
  <1> QED BY <1>2, <1>5, <1>6, <1>7, <1>8 DEF Lists

LEMMA InitSampleSet == Init => SampleSetInv
  BY SampleSetAssumption DEF Init, SampleSetInv, ListInv, IndexInv

LEMMA AddSampleSet ==
    ASSUME SampleSetInv, NEW r \in Resources, NEW g \in Groups, addMeasurement(r, g)
    PROVE  SampleSetInv'
  <1> DEFINE s == [n |-> Len(m_measurements) + 1, resource |-> r, group |-> g]
             m == m_measurements
  <1>1. /\ Len(m) < MaxSamples /\ m' = Append(m, s) /\ index' = index
        /\ dirty' = [x \in Indexes |-> TRUE]
        /\ lateAdd' = [x \in Indexes |-> index[x] # Null]
    BY DEF addMeasurement
  <1>2. m \in Seq(Sample) /\ Len(m) \in Nat /\ \A i \in DOMAIN m : m[i].n = i
    BY DEF SampleSetInv, ListInv
  <1>3. s \in Sample /\ s.n = Len(m) + 1
    BY <1>1, <1>2, SampleSetAssumption DEF Sample
  <1> HIDE DEF s, m
  <1>4. /\ DOMAIN m = 1..Len(m) /\ DOMAIN Append(m, s) = 1..(Len(m) + 1)
        /\ \A k \in 1..Len(m) : Append(m, s)[k] = m[k]
        /\ Append(m, s)[Len(m) + 1] = s
    BY <1>2, <1>3, AppendElements
  <1>5. ListInv'
    <2>1. Append(m, s) \in Seq(Sample) /\ Len(Append(m, s)) = Len(m) + 1
      BY <1>2, <1>3
    <2>2. \A i \in 1..(Len(m) + 1) : Append(m, s)[i].n = i
      <3>1. \A i \in 1..(Len(m) + 1) : i \in 1..Len(m) \/ i = Len(m) + 1
        BY <1>2
      <3> QED BY <1>2, <1>3, <1>4, <3>1
    <2>3. Len(m) + 1 <= MaxSamples
      BY <1>1, <1>2, SampleSetAssumption
    <2> QED BY <1>1, <1>4, <2>1, <2>2, <2>3 DEF ListInv, m
  <1>6. \A x, k : Samples(x, k) \subseteq Samples(x, k)'
    <2>1. ToSet(m) \subseteq ToSet(Append(m, s))
      <3>1. \A i \in 1..Len(m) : i \in 1..(Len(m) + 1)
        BY <1>2
      <3> QED BY <1>4, <3>1 DEF ToSet
    <2> QED BY <1>1, <2>1 DEF Samples, m
  <1>7. IndexInv'
    <2> SUFFICES ASSUME NEW x \in Indexes, index[x] # Null
                 PROVE  /\ index[x] \in [Keys(x) -> Seq(Sample)]
                        /\ \A k \in Keys(x) : ToSet(index[x][k]) \subseteq Samples(x, k)'
                        /\ dirty'[x] /\ lateAdd'[x]
      BY <1>1 DEF IndexInv
    <2> QED BY <1>1, <1>6 DEF SampleSetInv, IndexInv
  <1>8. dirty' \in [Indexes -> BOOLEAN] /\ lateAdd' \in [Indexes -> BOOLEAN]
    BY <1>1
  <1> QED BY <1>1, <1>5, <1>7, <1>8 DEF SampleSetInv

(* What a getter finds, and what the index holds after it.                 *)
LEMMA QueryFiles ==
    ASSUME SampleSetInv, NEW x \in Indexes, NEW k \in Keys(x)
    PROVE  /\ Answer(x, k) \in Seq(Sample)
           /\ ToSet(Answer(x, k)) = Samples(x, k)
           /\ ~lateAdd[x] => Lists(Answer(x, k), Samples(x, k))
  <1>1. CASE index[x] = Null
    <2>1. <<>> \in Seq(Sample) /\ ToSet(<<>>) = {}
      BY DEF ToSet
    <2>2. /\ Filed(x, k, <<>>) \in Seq(Sample)
          /\ ToSet(Filed(x, k, <<>>)) = ToSet(<<>>) \cup Samples(x, k)
          /\ Lists(Filed(x, k, <<>>), Samples(x, k))
      BY <2>1, FiledHolds DEF SampleSetInv
    <2> QED BY <1>1, <2>1, <2>2 DEF Answer, NeedsBuild
  <1>2. CASE index[x] # Null /\ dirty[x]
    <2>1. /\ index[x][k] \in Seq(Sample) /\ ToSet(index[x][k]) \subseteq Samples(x, k)
          /\ lateAdd[x]
      BY <1>2 DEF SampleSetInv, IndexInv
    <2>2. /\ Filed(x, k, index[x][k]) \in Seq(Sample)
          /\ ToSet(Filed(x, k, index[x][k])) = ToSet(index[x][k]) \cup Samples(x, k)
      BY <2>1, FiledHolds DEF SampleSetInv
    <2> QED BY <1>2, <2>1, <2>2 DEF Answer, NeedsBuild
  <1>3. CASE index[x] # Null /\ ~dirty[x]
    BY <1>3 DEF SampleSetInv, IndexInv, Answer, NeedsBuild
  <1> QED BY <1>1, <1>2, <1>3

LEMMA QuerySampleSet ==
    ASSUME SampleSetInv, NEW x \in Indexes, Query(x)
    PROVE  SampleSetInv'
  <1>1. /\ m_measurements' = m_measurements /\ lateAdd' = lateAdd
        /\ dirty' = [dirty EXCEPT ![x] = FALSE]
        /\ DOMAIN index' = Indexes /\ \A y \in Indexes \ {x} : index'[y] = index[y]
    BY DEF Query, SampleSetInv
  <1>2. \A y, k : Samples(y, k)' = Samples(y, k)
    BY <1>1 DEF Samples
  <1>3. index'[x] = [k \in Keys(x) |-> Answer(x, k)]
    <2> DEFINE old == IF index[x] = Null THEN NoEntries(x) ELSE index[x]
    <2>1. index'[x] = IF NeedsBuild(x) THEN [k \in Keys(x) |-> Filed(x, k, old[k])] ELSE old
      BY DEF Query, SampleSetInv
    <2>2. CASE index[x] = Null
      <3>1. \A k \in Keys(x) : old[k] = <<>> /\ Answer(x, k) = Filed(x, k, <<>>)
        BY <2>2 DEF NoEntries, Answer, NeedsBuild
      <3>2. index'[x] = [k \in Keys(x) |-> Filed(x, k, old[k])]
        BY <2>1, <2>2 DEF NeedsBuild
      <3> HIDE DEF old
      <3> QED BY <3>1, <3>2
    <2>3. CASE index[x] # Null /\ dirty[x]
      BY <2>1, <2>3 DEF Answer, NeedsBuild
    <2>4. CASE index[x] # Null /\ ~dirty[x]
      <3>1. index'[x] = index[x] /\ \A k \in Keys(x) : Answer(x, k) = index[x][k]
        BY <2>1, <2>4 DEF Answer, NeedsBuild
      <3>2. index[x] \in [Keys(x) -> Seq(Sample)]
        BY <2>4 DEF SampleSetInv, IndexInv
      <3> QED BY <3>1, <3>2
    <2> QED BY <2>2, <2>3, <2>4
  <1>4. dirty' \in [Indexes -> BOOLEAN] /\ ~dirty'[x] /\ \A y \in Indexes \ {x} : dirty'[y] = dirty[y]
    BY <1>1 DEF SampleSetInv
  <1>5. IndexInv'
    <2> SUFFICES ASSUME NEW y \in Indexes, index'[y] # Null
                 PROVE  /\ index'[y] \in [Keys(y) -> Seq(Sample)]
                        /\ \A k \in Keys(y) :
                              /\ ToSet(index'[y][k]) \subseteq Samples(y, k)
                              /\ ~dirty'[y] => ToSet(index'[y][k]) = Samples(y, k)
                              /\ ~lateAdd[y] => ~dirty'[y] /\ Lists(index'[y][k], Samples(y, k))
      BY <1>1, <1>2 DEF IndexInv
    <2>1. CASE y = x
      <3>1. \A k \in Keys(x) : /\ Answer(x, k) \in Seq(Sample)
                               /\ ToSet(Answer(x, k)) = Samples(x, k)
                               /\ ~lateAdd[x] => Lists(Answer(x, k), Samples(x, k))
        BY QueryFiles
      <3>2. \A k \in Keys(x) : index'[x][k] = Answer(x, k)
        BY <1>3
      <3>3. index'[x] \in [Keys(x) -> Seq(Sample)]
        BY <1>3, <3>1
      <3> QED BY <1>4, <2>1, <3>1, <3>2, <3>3
    <2>2. CASE y # x
      BY <1>1, <1>4, <2>2 DEF SampleSetInv, IndexInv
    <2> QED BY <2>1, <2>2
  <1>6. ListInv'
    BY <1>1 DEF SampleSetInv, ListInv
  <1> QED BY <1>1, <1>4, <1>5, <1>6 DEF SampleSetInv

LEMMA NextSampleSet == SampleSetInv /\ [Next]_vars => SampleSetInv'
  <1> SUFFICES ASSUME SampleSetInv, [Next]_vars PROVE SampleSetInv'
    OBVIOUS
  <1>1. CASE Deserialize \/ Unmarshal
    <2>1. /\ index' = [x \in Indexes |-> Null] /\ lateAdd' = [x \in Indexes |-> FALSE]
          /\ dirty' \in {dirty, [x \in Indexes |-> FALSE]} /\ m_measurements' = m_measurements
      BY <1>1 DEF Deserialize, Unmarshal
    <2>2. ListInv' /\ IndexInv'
      BY <2>1 DEF SampleSetInv, ListInv, IndexInv
    <2> QED BY <2>1, <2>2 DEF SampleSetInv
  <1>2. CASE UNCHANGED vars
    BY <1>2 DEF vars, SampleSetInv, ListInv, IndexInv, Samples
  <1> QED BY <1>1, <1>2, AddSampleSet, QuerySampleSet DEF Next

(* The inductive invariant of a sample set.                                *)
THEOREM SampleSetInvHolds == Spec => []SampleSetInv
  BY InitSampleSet, NextSampleSet, PTL DEF Spec

(* The getters return the samples of the set, none missing and no other,   *)
(* whatever was added, asked and copied before; each once and in order, as *)
(* long as no sample is added to a set that was queried before: for any    *)
(* number of samples.                                                      *)
THEOREM GettersAgreeHolds == Spec => []GettersAgree
  <1>1. SampleSetInv => GettersAgree
    BY QueryFiles DEF GettersAgree
  <1> QED BY <1>1, SampleSetInvHolds, PTL

(* The variables of both components have their types.                      *)
THEOREM StorageTypesHold == StorageSpec => []StorageTypeOK
  <1>1. StorageInit => SampleSetInv /\ FileInv
    BY InitSampleSet, InitFile DEF StorageInit
  <1>2. SampleSetInv /\ FileInv /\ [StorageNext]_<<component, fileVars, vars>>
          => SampleSetInv' /\ FileInv'
    <2> SUFFICES ASSUME SampleSetInv, FileInv, [StorageNext]_<<component, fileVars, vars>>
                 PROVE  SampleSetInv' /\ FileInv'
      OBVIOUS
    <2>1. [Next]_vars /\ [FileNext]_fileVars
      BY DEF StorageNext
    <2> QED BY <2>1, NextSampleSet, NextFile
  <1>3. SampleSetInv /\ FileInv => StorageTypeOK
    BY DEF SampleSetInv, ListInv, IndexInv, FileInv, StorageTypeOK, TypeOK
  <1> QED BY <1>1, <1>2, <1>3, PTL DEF StorageSpec
=============================================================================
