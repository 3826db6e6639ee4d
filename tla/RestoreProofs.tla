--------------------------- MODULE RestoreProofs ---------------------------
(***************************************************************************)
(* The two restores.  RestoredIsArchived and LiveComesLast of Ultimatte,   *)
(* for any presets and any length of the acknowledgement; LandsAsSaved and *)
(* CutsLast of Profile, for any profile, switcher and options.             *)
(***************************************************************************)
EXTENDS Ultimatte, Profile, WellFoundedInduction, TLAPS

-----------------------------------------------------------------------------
(* Ultimatte: the invariant of archive() and restore().                    *)

Values    == {"old", "new"}
Restoring == {"restore", "stopped", "restored"}

Types ==
    /\ job = [at |-> job.at, todo |-> job.todo, warnings |-> job.warnings,
              short |-> job.short, cut |-> job.cut]
    /\ job.todo \subseteq Resources /\ job.warnings \subseteq Resources
    /\ job.cut \in BOOLEAN
    /\ DOMAIN zip \subseteq Resources /\ \A r \in DOMAIN zip : zip[r] = "old"
    /\ box \in [has : [Resources -> Values], live : Values]

\* Whatever is not in the zip, or warned of, has yet to be read; the unit is
\* untouched.
ArchiveInv ==
    /\ job.at \in {"idle", "archive"} => box.has = Holding("old")
    /\ job.at \in {"archive", "archived"} /\ ~job.short =>
         Resources = DOMAIN zip \cup job.warnings \cup job.todo
    /\ job.at = "archived" => job.todo = {}

\* Whatever of the zip is not on the unit has yet to be pushed.
RestoreInv ==
    /\ job.at \in Restoring => job.todo \subseteq DOMAIN zip
    /\ job.at \in Restoring /\ ~job.cut =>
         \A r \in DOMAIN zip \ job.todo : box.has[r] = "old"
    /\ job.at = "restored" => job.todo = {}

IInv == Types /\ ArchiveInv /\ RestoreInv /\ LiveComesLast

-----------------------------------------------------------------------------
(* The first of a set of resources.                                        *)

\* Resources are numbered in the order they are pushed in.
LEMMA ResourcesAreNumbers == Resources \subseteq Nat
  BY UltimatteSizes DEF Resources, Gpi, Saved

\* Every set of resources that is not empty has a first, and the settings come
\* first only when they are alone.
Below == OpToRel(<, Nat)

\* That order is well-founded on the numbers.
LEMMA BelowIsWellFounded == IsWellFoundedOn(Below, Nat)
  BY NatLessThanWellFounded DEF Below

\* A smaller number is below a larger one.
LEMMA BelowIsLess == ASSUME NEW m \in Nat, NEW n \in Nat, m < n
                     PROVE  <<m, n>> \in Below
  BY DEF Below, OpToRel

\* FirstOf takes a first, the saved state only when it is alone.
LEMMA FirstOfIsFirst ==
  ASSUME NEW rs \in SUBSET Resources, rs # {}
  PROVE  /\ FirstOf(rs) \in rs
         /\ FirstOf(rs) = Saved => rs = {Saved}
  <1>1. \E r \in rs : \A q \in rs : ~ (<<q, r>> \in Below)
    <2>1. rs \subseteq Nat
      BY ResourcesAreNumbers
    <2> QED
      BY <2>1, BelowIsWellFounded, WFMin, Zenon
  <1>2. \A q, r \in rs : q < r => <<q, r>> \in Below
    BY ResourcesAreNumbers, BelowIsLess
  <1>3. \E r \in rs : \A q \in rs : r <= q
    <2>1. PICK r \in rs : \A q \in rs : ~ (<<q, r>> \in Below)
      BY <1>1
    <2>2. \A q \in rs : ~ (q < r)
      BY <1>2, <2>1
    <2>3. rs \subseteq Nat
      BY ResourcesAreNumbers
    <2>4. \A q \in rs : r <= q
      BY <2>2, <2>3
    <2> QED
      BY <2>4
  <1>4. FirstOf(rs) \in rs /\ \A q \in rs : FirstOf(rs) <= q
    BY <1>3 DEF FirstOf
  <1>5. \A q \in Resources : q <= Saved
    BY UltimatteSizes DEF Resources, Gpi, Saved
  <1>6. \A q \in rs : FirstOf(rs) = Saved => q = Saved
    BY <1>4, <1>5, ResourcesAreNumbers DEF Saved
  <1> QED
    BY <1>4, <1>6

-----------------------------------------------------------------------------
(* The archive.                                                            *)

\* Before the first read the unit is as it was.
LEMMA InitHolds == UltimatteInit => IInv
  <1> SUFFICES ASSUME UltimatteInit
               PROVE  IInv
    OBVIOUS
  <1>1. DOMAIN zip = {}
    BY DEF UltimatteInit
  <1>2. Types
    BY <1>1 DEF UltimatteInit, Types, Holding, Values
  <1>3. ArchiveInv
    BY DEF UltimatteInit, ArchiveInv, Holding
  <1>4. RestoreInv /\ LiveComesLast
    BY <1>1 DEF UltimatteInit, RestoreInv, LiveComesLast, Restoring
  <1> QED
    BY <1>2, <1>3, <1>4 DEF IInv

\* The list of files: from here on, what is to be read is what the unit holds.
LEMMA ReadFileListKeeps == IInv /\ ReadFileList => IInv'
  <1> SUFFICES ASSUME IInv, ReadFileList
               PROVE  IInv'
    OBVIOUS
  <1>1. /\ job' = [at |-> job'.at, todo |-> job'.todo, warnings |-> job.warnings,
                   short |-> job'.short, cut |-> job.cut]
        /\ job'.todo \subseteq Resources
        /\ \/ job'.at = "archive" /\ (job'.short \/ job'.todo = Resources)
           \/ job'.at = "failed"
    BY ZenonT(30) DEF ReadFileList, IInv, Types, Resources
  <1>2. job.at = "idle" /\ zip' = zip /\ box' = box
    BY DEF ReadFileList
  <1>3. Types'
    BY <1>1, <1>2 DEF IInv, Types
  <1>4. ArchiveInv'
    BY <1>1, <1>2 DEF IInv, Types, ArchiveInv
  <1>5. RestoreInv' /\ LiveComesLast'
    BY <1>1 DEF RestoreInv, LiveComesLast, Restoring
  <1> QED
    BY <1>3, <1>4, <1>5 DEF IInv

\* A resource read goes into the zip or into the warnings.
LEMMA ReadResourceKeeps == IInv /\ ReadResource => IInv'
  <1> SUFFICES ASSUME IInv, ReadResource
               PROVE  IInv'
    OBVIOUS
  <1> DEFINE r == FirstOf(job.todo)
  <1>1. r \in job.todo /\ r \in Resources
    BY FirstOfIsFirst DEF ReadResource, IInv, Types
  <1>2. box.has[r] = "old"
    BY <1>1 DEF ReadResource, IInv, ArchiveInv, Holding
  <1>3. PICK v \in {"old", "IOError"} :
          IF v = "IOError"
          THEN /\ job' = [job EXCEPT !.todo = @ \ {r}, !.warnings = @ \cup {r}]
               /\ UNCHANGED zip
          ELSE /\ job' = [job EXCEPT !.todo = @ \ {r}]
               /\ zip' = [q \in DOMAIN zip \cup {r} |-> IF q = r THEN v ELSE zip[q]]
    BY <1>2 DEF ReadResource, Reads
  <1>4. CASE v = "IOError"
    <2>0. /\ job' = [job EXCEPT !.todo = @ \ {r}, !.warnings = @ \cup {r}]
          /\ zip' = zip /\ box' = box
      BY <1>3, <1>4 DEF ReadResource
    <2>1. Types'
      BY <1>1, <2>0 DEF IInv, Types
    <2>2. ArchiveInv'
      BY <1>1, <1>3, <1>4, ZenonT(30) DEF ReadResource, IInv, Types, ArchiveInv
    <2>3. RestoreInv' /\ LiveComesLast'
      BY <1>3, <1>4 DEF ReadResource, IInv, Types, RestoreInv, LiveComesLast, Restoring
    <2> QED
      BY <2>1, <2>2, <2>3 DEF IInv
  <1>5. CASE v = "old"
    <2>0. /\ job' = [job EXCEPT !.todo = @ \ {r}] /\ box' = box
          /\ DOMAIN zip' = DOMAIN zip \cup {r}
          /\ \A q \in DOMAIN zip' : zip'[q] = IF q = r THEN "old" ELSE zip[q]
      BY <1>3, <1>5 DEF ReadResource
    <2>1. Types'
      BY <1>1, <2>0 DEF IInv, Types
    <2>2. ArchiveInv'
      BY <1>1, <2>0 DEF ReadResource, IInv, Types, ArchiveInv
    <2>3. RestoreInv' /\ LiveComesLast'
      BY <2>0 DEF ReadResource, IInv, Types, RestoreInv, LiveComesLast, Restoring
    <2> QED
      BY <2>1, <2>2, <2>3 DEF IInv
  <1> QED
    BY <1>3, <1>4, <1>5

\* An archive ends with nothing left to read.
LEMMA ArchivedKeeps == IInv /\ Archived => IInv'
  <1> SUFFICES ASSUME IInv, Archived
               PROVE  IInv'
    OBVIOUS
  <1>1. Types'
    BY DEF Archived, IInv, Types
  <1>2. ArchiveInv'
    BY DEF Archived, IInv, Types, ArchiveInv
  <1>3. RestoreInv' /\ LiveComesLast'
    BY DEF Archived, IInv, Types, RestoreInv, LiveComesLast, Restoring
  <1> QED
    BY <1>1, <1>2, <1>3 DEF IInv

-----------------------------------------------------------------------------
(* The restore.                                                            *)

\* A restore begins with the whole zip to push.
LEMMA StartRestoreKeeps == IInv /\ StartRestore => IInv'
  <1> SUFFICES ASSUME IInv, StartRestore
               PROVE  IInv'
    OBVIOUS
  <1>1. Types'
    BY DEF StartRestore, IInv, Types, Holding, Values
  <1>2. ArchiveInv' /\ LiveComesLast'
    BY DEF StartRestore, IInv, Types, ArchiveInv, LiveComesLast
  <1>3. RestoreInv'
    BY DEF StartRestore, IInv, Types, RestoreInv, Restoring
  <1> QED
    BY <1>1, <1>2, <1>3 DEF IInv

\* A resource pushed is on the unit, unless its ACK was cut; the saved settings are
\* the last of all.
LEMMA PushKeeps == IInv /\ Push => IInv'
  <1> SUFFICES ASSUME IInv, Push
               PROVE  IInv'
    OBVIOUS
  <1> DEFINE r == FirstOf(job.todo)
  <1>1. /\ r \in job.todo /\ r \in Resources /\ r \in DOMAIN zip /\ zip[r] = "old"
        /\ r = Saved => job.todo = {Saved}
    BY FirstOfIsFirst DEF Push, IInv, Types, RestoreInv, Restoring
  <1>2. zip' = zip
    BY DEF Push
  \* What a write does to the unit.
  <1>3. ASSUME box' = WrittenTo(r)
        PROVE  /\ box' \in [has : [Resources -> Values], live : Values]
               /\ box'.has = [box.has EXCEPT ![r] = "old"]
               /\ box'.live = IF r = Saved THEN "old" ELSE box.live
    BY <1>1, <1>3 DEF WrittenTo, IInv, Types, Values
  \* If the unit runs what was archived, it has all of the zip.
  <1>4. ASSUME ~job.cut, box' \in {box, WrittenTo(r)}, box'.live = "old"
        PROVE  \A q \in DOMAIN zip : box'.has[q] = "old"
    <2>1. CASE box.live = "old"
      <3>1. \A q \in DOMAIN zip : box.has[q] = "old"
        BY <1>4, <2>1 DEF Push, IInv, Types, LiveComesLast
      <3> QED
        BY <1>1, <1>3, <1>4, <3>1 DEF IInv, Types
    <2>2. CASE box.live # "old"
      <3>1. box' = WrittenTo(r) /\ r = Saved
        BY <1>3, <1>4, <2>2
      <3>2. \A q \in DOMAIN zip \ {Saved} : box.has[q] = "old"
        BY <1>1, <1>4, <3>1 DEF Push, IInv, RestoreInv, Restoring
      <3> QED
        BY <1>1, <1>3, <3>1, <3>2 DEF IInv, Types
    <2> QED
      BY <2>1, <2>2
  \* The push is acknowledged: written, or taken for written (cut).
  <1>5. CASE /\ job' = [job EXCEPT !.todo = @ \ {r}, !.cut = FALSE]
             /\ ~job.cut /\ box' = WrittenTo(r)
    <2>1. Types'
      BY <1>2, <1>3, <1>5 DEF IInv, Types
    <2>2. ArchiveInv'
      BY <1>5 DEF Push, IInv, Types, ArchiveInv
    <2>3. RestoreInv'
      BY <1>1, <1>2, <1>3, <1>5, ZenonT(30) DEF Push, IInv, Types, RestoreInv, Restoring
    <2>4. LiveComesLast'
      <3>1. box'.live = "old" => \A q \in DOMAIN zip : box'.has[q] = "old"
        BY <1>5, <1>4
      <3> QED
        BY <1>2, <3>1 DEF IInv, Types, LiveComesLast
    <2> QED
      BY <2>1, <2>2, <2>3, <2>4 DEF IInv
  <1>6. CASE /\ job' = [job EXCEPT !.todo = @ \ {r}, !.cut = TRUE]
             /\ box' \in {box, WrittenTo(r)}
    <2>1. Types'
      BY <1>2, <1>3, <1>6 DEF IInv, Types
    <2>2. ArchiveInv'
      BY <1>6 DEF Push, IInv, Types, ArchiveInv
    <2>3. RestoreInv'
      BY <1>1, <1>2, <1>3, <1>6 DEF Push, IInv, Types, RestoreInv, Restoring
    <2>4. LiveComesLast'
      BY <1>1, <1>2, <1>3, <1>6 DEF Push, IInv, Types, RestoreInv, LiveComesLast, Restoring
    <2> QED
      BY <2>1, <2>2, <2>3, <2>4 DEF IInv
  \* It is not: the restore stops, with the write done or not.
  <1>7. CASE /\ job' = [job EXCEPT !.at = "stopped"]
             /\ box' \in {box, WrittenTo(r)}
    <2>1. Types'
      BY <1>2, <1>3, <1>7 DEF IInv, Types
    <2>2. ArchiveInv'
      BY <1>7 DEF Push, IInv, Types, ArchiveInv
    <2>3. RestoreInv'
      BY <1>1, <1>2, <1>3, <1>7 DEF Push, IInv, Types, RestoreInv, Restoring
    <2>4. LiveComesLast'
      BY <1>2, <1>4, <1>7 DEF Push, IInv, Types, LiveComesLast
    <2> QED
      BY <2>1, <2>2, <2>3, <2>4 DEF IInv
  <1>8. \/ \E taken \in BOOLEAN, ack \in Acks(TRUE) \cup Acks(FALSE) :
             /\ box' = IF taken THEN WrittenTo(r) ELSE box
             /\ job' = IF AckOk(ack)
                       THEN [job EXCEPT !.todo = @ \ {r}, !.cut = @ \/ (~taken /\ ack # <<>>)]
                       ELSE [job EXCEPT !.at = "stopped"]
        \/ job' = [job EXCEPT !.at = "stopped"] /\ box' = box
    BY DEF Push, NextPush
  <1>9. job.cut \in BOOLEAN
    BY DEF IInv, Types
  <1> QED
    BY <1>5, <1>6, <1>7, <1>8, <1>9 DEF AckOk

\* A restore ends with nothing left to push.
LEMMA RestoredKeeps == IInv /\ Restored => IInv'
  <1> SUFFICES ASSUME IInv, Restored
               PROVE  IInv'
    OBVIOUS
  <1>1. Types' /\ ArchiveInv'
    BY DEF Restored, IInv, Types, ArchiveInv
  <1>2. RestoreInv'
    BY DEF Restored, IInv, Types, RestoreInv, Restoring
  <1>3. LiveComesLast'
    BY DEF Restored, IInv, Types, LiveComesLast
  <1> QED
    BY <1>1, <1>2, <1>3 DEF IInv

-----------------------------------------------------------------------------

\* A step of something else keeps the invariant.
LEMMA StutterKeeps == IInv /\ UNCHANGED bVars => IInv'
  BY DEF bVars, IInv, Types, ArchiveInv, RestoreInv, LiveComesLast, Restoring

\* The invariant is inductive.
LEMMA NextKeeps == IInv /\ [UltimatteNext]_bVars => IInv'
  BY ReadFileListKeeps, ReadResourceKeeps, ArchivedKeeps, StartRestoreKeeps,
     PushKeeps, RestoredKeeps, StutterKeeps DEF UltimatteNext

\* It always holds.
LEMMA Invariant == UltimatteSpec => []IInv
  BY InitHolds, NextKeeps, PTL DEF UltimatteSpec

\* A restore that ends well has given the unit what was archived, and no archive
\* holds half a resource: for any presets and any length of the ACK.
THEOREM RestoresWhatItArchived == UltimatteSpec => []RestoredIsArchived
  <1>1. IInv => RestoredIsArchived
    BY DEF IInv, Types, ArchiveInv, RestoreInv, Restoring, RestoredIsArchived
  <1> QED
    BY <1>1, Invariant, PTL

\* No restore, wherever it stops, has changed the live settings before all the
\* rest is on the unit, unless a refusal came as a cut ACK.
THEOREM LiveSettingsComeLast == UltimatteSpec => []LiveComesLast
  <1>1. IInv => LiveComesLast
    BY DEF IInv
  <1> QED
    BY <1>1, Invariant, PTL

-----------------------------------------------------------------------------
(* Profile: what the operators give.  FlattenSeq first, whose recursion    *)
(* over the sequences is unfolded by the least one it fails for.           *)

\* Where each of the sequences stands in all of them together.
Pieces(at, seqs, all) ==
    /\ at \in [1..Len(seqs) -> Nat]
    /\ \A k \in 1..Len(seqs) : /\ at[k] + Len(seqs[k]) <= Len(all)
                               /\ \A j \in 1..Len(seqs[k]) : all[at[k] + j] = seqs[k][j]
    /\ \A i \in 1..Len(all) : \E k \in 1..Len(seqs) : i - at[k] \in 1..Len(seqs[k])

\* What the recursion of FlattenSeq makes of the first n sequences
Joins(f, seqs, n) ==
    f = [i \in 1..n |-> IF i = 1 THEN seqs[i] ELSE f[i-1] \o seqs[i]]

\* Unfolds the recursion of FlattenSeq
LEMMA FlattenIsJoins ==
    ASSUME NEW S, NEW seqs \in Seq(Seq(S)), Len(seqs) # 0
    PROVE  \E f : Joins(f, seqs, Len(seqs)) /\ FlattenSeq(seqs) = f[Len(seqs)]
<1> DEFINE f == CHOOSE f : Joins(f, seqs, Len(seqs))
           B == {n \in Nat : ~\E g : Joins(g, seqs, n)}
<1>1. FlattenSeq(seqs) = f[Len(seqs)]
  BY DEF FlattenSeq, Joins
<1>2. \A n \in Nat : \E g : Joins(g, seqs, n)
  <2>1. SUFFICES ASSUME B # {} PROVE FALSE
    OBVIOUS
  <2>2. PICK m \in B : \A j \in B : <<j, m>> \notin Below
    <3>1. B \subseteq Nat
      OBVIOUS
    <3> HIDE DEF B
    <3> QED BY <3>1, <2>1, BelowIsWellFounded, WFMin, Zenon
  <2>3. m \in Nat /\ ~\E g : Joins(g, seqs, m)
    OBVIOUS
  <2>4. CASE m = 0
    <3> DEFINE g == [i \in 1..0 |-> {}]
    <3>1. Joins(g, seqs, 0)
      BY DEF Joins
    <3> QED BY <2>3, <2>4, <3>1
  <2>5. CASE m # 0
    <3>1. m - 1 \in Nat /\ m - 1 < m
      BY <2>5, <2>3
    <3>2. m - 1 \notin B
      BY <3>1, <2>2, <2>3, BelowIsLess
    <3>3. PICK g : Joins(g, seqs, m - 1)
      BY <3>1, <3>2
    <3> DEFINE h == [i \in 1..m |-> IF i = m THEN IF m = 1 THEN seqs[m] ELSE g[m-1] \o seqs[m]
                                             ELSE g[i]]
    <3> HIDE DEF B
    <3>4. ASSUME NEW i \in 1..m
          PROVE  h[i] = IF i = 1 THEN seqs[i] ELSE h[i-1] \o seqs[i]
      <4>1. CASE i = m
        <5>1. i # 1 => i - 1 \in 1..m /\ i - 1 # m
          BY <4>1, <2>3
        <5>2. i # 1 => h[i-1] = g[i-1]
          BY <5>1
        <5> QED BY <4>1, <5>2
      <4>2. CASE i # m
        <5>1. i \in 1..m-1 /\ (i # 1 => i - 1 \in 1..m /\ i - 1 # m)
          BY <4>2, <2>3
        <5>2. h[i] = g[i] /\ (i # 1 => h[i-1] = g[i-1])
          BY <4>2, <5>1
        <5>3. g[i] = IF i = 1 THEN seqs[i] ELSE g[i-1] \o seqs[i]
          BY <3>3, <5>1, Zenon DEF Joins
        <5> HIDE DEF h
        <5> QED BY <5>2, <5>3
      <4> QED BY <4>1, <4>2
    <3>5. h = [i \in 1..m |-> h[i]]
      OBVIOUS
    <3>6. Joins(h, seqs, m)
      <4> HIDE DEF h
      <4> QED BY <3>4, <3>5, Zenon DEF Joins
    <3> QED BY <3>6, <2>3
  <2> QED BY <2>4, <2>5
<1>3. Joins(f, seqs, Len(seqs))
  <2>1. Len(seqs) \in Nat
    OBVIOUS
  <2>2. \E g : Joins(g, seqs, Len(seqs))
    BY <1>2, <2>1, Zenon
  <2> QED BY <2>2, Zenon
<1> QED BY <1>1, <1>3, Zenon

\* What FlattenSeq makes of sequences: all of them one behind the other
LEMMA Flattened ==
    ASSUME NEW S, NEW seqs \in Seq(Seq(S))
    PROVE  /\ FlattenSeq(seqs) \in Seq(S)
           /\ \E at : Pieces(at, seqs, FlattenSeq(seqs))
<1> DEFINE N == Len(seqs)
<1>0. N \in Nat /\ \A k \in 1..N : seqs[k] \in Seq(S) /\ Len(seqs[k]) \in Nat
  OBVIOUS
<1>1. CASE N = 0
  <2>1. seqs = <<>> /\ FlattenSeq(seqs) = <<>>
    BY <1>1 DEF FlattenSeq
  <2> DEFINE at == [k \in 1..N |-> 0]
  <2>2. Pieces(at, seqs, <<>>)
    BY <2>1 DEF Pieces
  <2>3. <<>> \in Seq(S)
    OBVIOUS
  <2> HIDE DEF at
  <2> QED BY <2>1, <2>2, <2>3
<1>2. CASE N # 0
  <2>1. PICK f : Joins(f, seqs, N) /\ FlattenSeq(seqs) = f[N]
    BY <1>2, FlattenIsJoins
  <2>2. /\ f[1] = seqs[1]
        /\ \A n \in 2..N : f[n] = f[n-1] \o seqs[n]
    <3>1. f = [i \in 1..N |-> IF i = 1 THEN seqs[i] ELSE f[i-1] \o seqs[i]]
      BY <2>1 DEF Joins
    <3>2. \A n \in 1..N : f[n] = IF n = 1 THEN seqs[n] ELSE f[n-1] \o seqs[n]
      BY <3>1, Zenon
    <3>3. 1 \in 1..N /\ \A n \in 2..N : n \in 1..N /\ n # 1
      BY <1>0, <1>2
    <3> QED BY <3>2, <3>3
  <2> DEFINE At(at, n) ==
               /\ at \in [1..n -> Nat]
               /\ \A k \in 1..n : /\ at[k] + Len(seqs[k]) <= Len(f[n])
                                  /\ \A j \in 1..Len(seqs[k]) : f[n][at[k] + j] = seqs[k][j]
               /\ \A i \in 1..Len(f[n]) : \E k \in 1..n : i - at[k] \in 1..Len(seqs[k])
             Fits(n) == f[n] \in Seq(S) /\ \E at : At(at, n)
             B == {n \in 1..N : ~Fits(n)}
  <2>3. SUFFICES ASSUME B # {} PROVE FALSE
    <3>1. B = {} => Fits(N)
      <4>1. N \in 1..N
        BY <1>0, <1>2
      <4> HIDE DEF Fits
      <4> QED BY <4>1
    <3>2. ASSUME NEW at, At(at, N) PROVE Pieces(at, seqs, f[N])
      BY <3>2 DEF Pieces
    <3> HIDE DEF At
    <3> QED BY <3>1, <3>2, <2>1
  <2>4. PICK m \in B : \A j \in B : <<j, m>> \notin Below
    <3>1. B \subseteq Nat
      BY <1>0
    <3> HIDE DEF B
    <3> QED BY <3>1, <2>3, BelowIsWellFounded, WFMin, Zenon
  <2>5. m \in 1..N /\ ~Fits(m)
    OBVIOUS
  <2>6. CASE m = 1
    <3> DEFINE at == [k \in 1..1 |-> 0]
    <3>1. f[1] \in Seq(S) /\ Len(f[1]) = Len(seqs[1]) /\ Len(seqs[1]) \in Nat
      BY <2>2, <2>5, <2>6, <1>0
    <3>2. At(at, 1)
      <4>1. at \in [1..1 -> Nat] /\ 1 \in 1..1 /\ at[1] = 0 /\ \A k \in 1..1 : k = 1
        OBVIOUS
      <4>2. \A i \in 1..Len(f[1]) : i - at[1] \in 1..Len(seqs[1])
        BY <3>1, <4>1
      <4>3. at[1] + Len(seqs[1]) <= Len(f[1])
            /\ \A j \in 1..Len(seqs[1]) : f[1][at[1] + j] = seqs[1][j]
        BY <3>1, <4>1, <2>2
      <4> HIDE DEF at
      <4> QED BY <4>1, <4>2, <4>3
    <3> HIDE DEF At, B, at
    <3> QED BY <3>1, <3>2, <2>5, <2>6
  <2>7. CASE m # 1
    <3>1. /\ m \in 2..N /\ m \in Nat /\ m - 1 \in Nat /\ m - 1 \in 1..N /\ m - 1 < m
          /\ f[m] = f[m-1] \o seqs[m]
      <4>1. m \in 1..N
        BY <2>5
      <4> HIDE DEF B, Fits
      <4>2. m \in 2..N /\ m \in Nat /\ m - 1 \in Nat /\ m - 1 \in 1..N /\ m - 1 < m
        BY <4>1, <2>7, <1>0
      <4> QED BY <4>2, <2>2
    <3>2. Fits(m - 1)
      <4>1. <<m - 1, m>> \in Below
        BY <3>1, BelowIsLess
      <4>2. m - 1 \notin B
        BY <4>1, <2>4
      <4> QED BY <4>2, <3>1
    <3>3. PICK at : At(at, m - 1)
      BY <3>2
    <3> HIDE DEF B
    <3>4. PICK old \in Seq(S), new \in Seq(S) : old = f[m-1] /\ new = seqs[m]
      BY <3>2, <2>5, <1>0
    <3>5. /\ f[m] = old \o new /\ Len(f[m]) = Len(old) + Len(new)
          /\ Len(old) \in Nat /\ Len(new) \in Nat
          /\ \A i \in 1..Len(old) : f[m][i] = old[i]
          /\ \A j \in 1..Len(new) : f[m][Len(old) + j] = new[j]
          /\ f[m] \in Seq(S)
      <4>1. f[m] = old \o new
        BY <3>1, <3>4
      <4> HIDE DEF Fits, At
      <4> QED BY <4>1
    <3>6. PICK n \in Nat : n = m - 1 /\ m = n + 1
      BY <3>1
    <3> DEFINE to == [k \in 1..m |-> IF k = m THEN Len(old) ELSE at[k]]
    <3>7. /\ to \in [1..m -> Nat] /\ to[m] = Len(old) /\ m \in 1..m
          /\ \A k \in 1..n : k \in 1..m /\ k \in 1..N /\ to[k] = at[k] /\ at[k] \in Nat
          /\ \A k \in 1..m : k = m \/ k \in 1..n
      <4>1. at \in [1..n -> Nat] /\ m \in Nat
        BY <3>1, <3>3, <3>6
      <4> HIDE DEF At, Fits
      <4> QED BY <4>1, <3>5, <3>6, <2>5
    <3>8. At(to, m)
      <4> HIDE DEF to
      <4>1. ASSUME NEW k \in 1..m
            PROVE  /\ to[k] + Len(seqs[k]) <= Len(f[m])
                   /\ \A j \in 1..Len(seqs[k]) : f[m][to[k] + j] = seqs[k][j]
        <5>1. CASE k = m
          <6>1. seqs[k] = new /\ to[k] = Len(old)
            BY <5>1, <3>4, <3>7
          <6> HIDE DEF At, Fits
          <6> QED BY <6>1, <3>5
        <5>2. CASE k \in 1..n
          <6>1. /\ at[k] + Len(seqs[k]) <= Len(old) /\ to[k] = at[k] /\ at[k] \in Nat
                /\ Len(seqs[k]) \in Nat
                /\ \A j \in 1..Len(seqs[k]) : old[at[k] + j] = seqs[k][j]
            BY <5>2, <3>3, <3>4, <3>6, <3>7, <1>0
          <6>2. \A j \in 1..Len(seqs[k]) : at[k] + j \in 1..Len(old)
            BY <6>1, <3>5
          <6>3. to[k] + Len(seqs[k]) <= Len(f[m])
            BY <6>1, <3>5
          <6> QED BY <6>1, <6>2, <6>3, <3>5
        <5> QED BY <5>1, <5>2, <3>7
      <4>2. ASSUME NEW i \in 1..Len(f[m])
            PROVE  \E k \in 1..m : i - to[k] \in 1..Len(seqs[k])
        <5>1. CASE i \in 1..Len(old)
          <6>1. PICK k \in 1..n : i - at[k] \in 1..Len(seqs[k])
            BY <5>1, <3>3, <3>4, <3>6
          <6> QED BY <6>1, <3>7
        <5>2. CASE i \notin 1..Len(old)
          <6>1. i - Len(old) \in 1..Len(new)
            BY <5>2, <3>5
          <6> QED BY <6>1, <3>7, <3>4
        <5> QED BY <5>1, <5>2
      <4> QED BY <4>1, <4>2, <3>7
    <3> HIDE DEF At, to
    <3> QED BY <3>5, <3>8, <2>5
  <2> QED BY <2>6, <2>7
<1> QED BY <1>1, <1>2

\* The controls by name, and the keyers
SwitcherNames == {"video_mode", "label1", "label2", "ftb_enabled",
        "hue", "saturation", "luma", "aux", "dsk_sources", "dsk_mask",
        "dsk_gain", "dsk_on_air", "dsk_tie", "player", "hyperdeck", "master",
        "master_band", "master_dynamics", "strip", "strip_eq",
        "strip_dynamics", "macro1", "macro2"}
MeNames  == {"style", "parameters", "next", "ftb_rate", "preview", "program"}
KeyNames == {"type", "sources", "on_air", "mask", "luma", "pattern", "dve", "chroma", "cursor",
             "colour", "fly", "rate", "kfA", "kfB"}
OfSwitcher == {Ctl(All, n) : n \in SwitcherNames}
OfMes      == {Ctl(Me(m), n) : m \in MEs, n \in MeNames}
OfKeys     == {Ctl(Key(m, k), n) : m \in MEs, k \in KeyerNos, n \in KeyNames}
Keys       == {Key(m, k) : m \in MEs, k \in KeyerNos}

\* What a command names: a control, or the snapshot of a keyframe
Sent == Everything \cup {Ctl(Key(m, k), "snapshot") : m \in MEs, k \in KeyerNos}
CmdT == [c : Sent, val : {"saved", "A", "B"}]

\* The controls by where they are
LEMMA EverythingIs == Everything = OfSwitcher \cup OfMes \cup OfKeys
  BY SMT DEF Everything, OfSwitcher, OfMes, OfKeys, SwitcherNames, MeNames, KeyNames

\* A control has its place and its name.
LEMMA CtlParts == \A w, n : Ctl(w, n)[1] = w /\ Ctl(w, n)[2] = n
  BY DEF Ctl

\* The parts of a place
LEMMA WhereParts ==
    \A m, k : /\ Me(m)[1] = "me" /\ Me(m)[2] = m
              /\ Key(m, k)[1] = "key" /\ Key(m, k)[2] = m /\ Key(m, k)[3] = k
  BY DEF Me, Key

\* The places of the switcher, the M/Es and the keyers are different ones.
LEMMA WheresDiffer ==
    \A m, q, k : All # Me(m) /\ All # Key(m, k) /\ Me(m) # Key(q, k)
<1> TAKE m, q, k
<1>1. Me(m) # Key(q, k)
  BY WhereParts
<1>2. Len(All) = 1 /\ Len(Me(m)) = 2 /\ Len(Key(m, k)) = 3
  BY DEF All, Me, Key
<1> QED BY <1>1, <1>2

\* A command has its control and its value.
LEMMA CmdParts == \A c, v : Cmd(c, v).c = c /\ Cmd(c, v).val = v /\ Cmd(c, v) = [c |-> c, val |-> v]
  BY DEF Cmd

\* The commands are the savings of these controls, in some order.
Saves(cmds, where, names) ==
    /\ cmds \in Seq(CmdT)
    /\ \A i \in 1..Len(cmds) : \E n \in names : cmds[i] = Cmd(Ctl(where, n), "saved")
    /\ \A n \in names : \E i \in 1..Len(cmds) : cmds[i] = Cmd(Ctl(where, n), "saved")

\* AsSaved sends each of its names once as the profile has it.
LEMMA AsSavedSaves ==
    ASSUME NEW where, NEW N, NEW names \in Seq(N), N = {names[i] : i \in 1..Len(names)},
           \A n \in N : Ctl(where, n) \in Sent
    PROVE  Saves(AsSaved(where, names), where, N)
<1> DEFINE f(i) == Cmd(Ctl(where, names[i]), "saved")
           k == Len(names)
           a == AsSaved(where, names)
<1> HIDE DEF Sent
<1>0. k \in Nat /\ \A i \in 1..k : names[i] \in N
  OBVIOUS
<1>1. \A i \in 1..k : f(i) \in CmdT
  BY <1>0, CmdParts DEF CmdT
<1>2. a = [i \in 1..k |-> f(i)]
  BY DEF AsSaved
<1> HIDE DEF f, k, a, CmdT
<1>3. a \in Seq(CmdT)
  BY <1>0, <1>1, <1>2
<1>4. Len(a) = k /\ \A i \in 1..k : a[i] = f(i)
  BY <1>0, <1>2
<1>5. \A i \in 1..Len(a) : \E n \in N : a[i] = Cmd(Ctl(where, n), "saved")
  BY <1>0, <1>4 DEF f
<1>6. \A n \in N : \E i \in 1..Len(a) : a[i] = Cmd(Ctl(where, n), "saved")
  BY <1>4 DEF f, k
<1> QED BY <1>3, <1>5, <1>6 DEF Saves, a

\* What two sequences of commands save, one behind the other
LEMMA SavesJoins ==
    ASSUME NEW a, NEW b, NEW where, NEW N, NEW M, Saves(a, where, N), Saves(b, where, M)
    PROVE  Saves(a \o b, where, N \cup M)
<1> HIDE DEF CmdT
<1>1. a \in Seq(CmdT) /\ b \in Seq(CmdT) /\ a \o b \in Seq(CmdT) /\ Len(a \o b) = Len(a) + Len(b)
      /\ Len(a) \in Nat /\ Len(b) \in Nat
  BY DEF Saves
<1>2. /\ \A i \in 1..Len(a) : i \in 1..Len(a \o b) /\ (a \o b)[i] = a[i]
      /\ \A i \in 1..Len(b) : Len(a) + i \in 1..Len(a \o b) /\ (a \o b)[Len(a) + i] = b[i]
      /\ \A i \in 1..Len(a \o b) : i \in 1..Len(a) \/ i - Len(a) \in 1..Len(b)
      /\ \A i \in 1..Len(a \o b) : i = Len(a) + (i - Len(a))
  BY <1>1
<1>3. ASSUME NEW i \in 1..Len(a \o b)
      PROVE  \E n \in N \cup M : (a \o b)[i] = Cmd(Ctl(where, n), "saved")
  <2>1. CASE i \in 1..Len(a)
    BY <2>1, <1>2 DEF Saves
  <2>2. CASE i - Len(a) \in 1..Len(b)
    <3>1. PICK j \in 1..Len(b) : j = i - Len(a) /\ i = Len(a) + j
      BY <2>2, <1>2
    <3>2. (a \o b)[i] = b[j]
      BY <3>1, <1>2
    <3> QED BY <3>2 DEF Saves
  <2> QED BY <2>1, <2>2, <1>2
<1>4. ASSUME NEW n \in N \cup M
      PROVE  \E i \in 1..Len(a \o b) : (a \o b)[i] = Cmd(Ctl(where, n), "saved")
  <2>1. CASE n \in N
    <3>1. PICK i \in 1..Len(a) : a[i] = Cmd(Ctl(where, n), "saved")
      BY <2>1 DEF Saves
    <3> QED BY <3>1, <1>2
  <2>2. CASE n \in M
    <3>1. PICK i \in 1..Len(b) : b[i] = Cmd(Ctl(where, n), "saved")
      BY <2>2 DEF Saves
    <3> QED BY <3>1, <1>2
  <2> QED BY <2>1, <2>2
<1> QED BY <1>1, <1>3, <1>4 DEF Saves

\* The sections of the whole switcher, and what each sends
Several == {"video_mode", "inputs", "settings_flags", "color_generators",
            "aux", "downstream_keys", "media_players", "audio", "macros", "hyperdecks"}
NamesOf(s) ==
    CASE s = "video_mode"       -> {"video_mode"}
      [] s = "inputs"           -> {"label1", "label2"}
      [] s = "settings_flags"   -> {"ftb_enabled"}
      [] s = "color_generators" -> {"hue", "saturation", "luma"}
      [] s = "aux"              -> {"aux"}
      [] s = "downstream_keys"  -> {"dsk_sources", "dsk_mask", "dsk_gain", "dsk_on_air", "dsk_tie"}
      [] s = "media_players"    -> {"player"}
      [] s = "audio"            -> {"master", "master_band", "master_dynamics", "strip", "strip_eq",
                                    "strip_dynamics"}
      [] s = "macros"           -> {"macro1", "macro2"}
      [] s = "hyperdecks"       -> {"hyperdeck"}

\* What each section of the whole switcher sends
LEMMA OfAllSaves == \A s \in Several : Saves(OfAll(s), All, NamesOf(s))
<1>1. \A n \in SwitcherNames : Ctl(All, n) \in Sent
  BY EverythingIs DEF Sent, OfSwitcher
<1>2. ASSUME NEW N, NEW names \in Seq(N), N \subseteq SwitcherNames,
             N = {names[i] : i \in 1..Len(names)}
      PROVE  Saves(AsSaved(All, names), All, N)
  BY <1>1, <1>2, AsSavedSaves, Zenon
<1> HIDE DEF CmdT, Sent, Saves, AsSaved, All
<1>3. Saves(OfAll("video_mode"), All, NamesOf("video_mode"))
  <2> DEFINE N == NamesOf("video_mode")
             t == <<"video_mode">>
  <2>1. N = {t[i] : i \in 1..Len(t)} /\ t \in Seq(N)
    BY DEF NamesOf
  <2>2. N \subseteq SwitcherNames
    BY DEF NamesOf, SwitcherNames
  <2>3. OfAll("video_mode") = AsSaved(All, t)
    BY DEF OfAll
  <2> HIDE DEF t, N
  <2>4. Saves(AsSaved(All, t), All, N)
    BY <1>2, <2>1, <2>2
  <2> QED BY <2>3, <2>4 DEF N
<1>4. Saves(OfAll("inputs"), All, NamesOf("inputs"))
  <2> DEFINE N == NamesOf("inputs")
             t == <<"label1", "label2">>
  <2>1. N = {t[i] : i \in 1..Len(t)} /\ t \in Seq(N)
    BY DEF NamesOf
  <2>2. N \subseteq SwitcherNames
    BY DEF NamesOf, SwitcherNames
  <2>3. OfAll("inputs") = AsSaved(All, t)
    BY DEF OfAll, Inputs
  <2> HIDE DEF t, N
  <2>4. Saves(AsSaved(All, t), All, N)
    BY <1>2, <2>1, <2>2
  <2> QED BY <2>3, <2>4 DEF N
<1>5. Saves(OfAll("settings_flags"), All, NamesOf("settings_flags"))
  <2> DEFINE N == NamesOf("settings_flags")
             t == <<"ftb_enabled">>
  <2>1. N = {t[i] : i \in 1..Len(t)} /\ t \in Seq(N)
    BY DEF NamesOf
  <2>2. N \subseteq SwitcherNames
    BY DEF NamesOf, SwitcherNames
  <2>3. OfAll("settings_flags") = AsSaved(All, t)
    BY DEF OfAll, SettingsFlags
  <2> HIDE DEF t, N
  <2>4. Saves(AsSaved(All, t), All, N)
    BY <1>2, <2>1, <2>2
  <2> QED BY <2>3, <2>4 DEF N
<1>6. Saves(OfAll("color_generators"), All, NamesOf("color_generators"))
  <2> DEFINE N == NamesOf("color_generators")
             t == <<"hue", "saturation", "luma">>
  <2>1. N = {t[i] : i \in 1..Len(t)} /\ t \in Seq(N)
    BY DEF NamesOf
  <2>2. N \subseteq SwitcherNames
    BY DEF NamesOf, SwitcherNames
  <2>3. OfAll("color_generators") = AsSaved(All, t)
    BY DEF OfAll, ColorGenerators
  <2> HIDE DEF t, N
  <2>4. Saves(AsSaved(All, t), All, N)
    BY <1>2, <2>1, <2>2
  <2> QED BY <2>3, <2>4 DEF N
<1>7. Saves(OfAll("aux"), All, NamesOf("aux"))
  <2> DEFINE N == NamesOf("aux")
             t == <<"aux">>
  <2>1. N = {t[i] : i \in 1..Len(t)} /\ t \in Seq(N)
    BY DEF NamesOf
  <2>2. N \subseteq SwitcherNames
    BY DEF NamesOf, SwitcherNames
  <2>3. OfAll("aux") = AsSaved(All, t)
    BY DEF OfAll, Auxiliaries
  <2> HIDE DEF t, N
  <2>4. Saves(AsSaved(All, t), All, N)
    BY <1>2, <2>1, <2>2
  <2> QED BY <2>3, <2>4 DEF N
<1>8. Saves(OfAll("downstream_keys"), All, NamesOf("downstream_keys"))
  <2> DEFINE N == NamesOf("downstream_keys")
             t == <<"dsk_sources", "dsk_mask", "dsk_gain", "dsk_on_air",
             "dsk_tie">>
  <2>1. N = {t[i] : i \in 1..Len(t)} /\ t \in Seq(N)
    BY DEF NamesOf
  <2>2. N \subseteq SwitcherNames
    BY DEF NamesOf, SwitcherNames
  <2>3. OfAll("downstream_keys") = AsSaved(All, t)
    BY DEF OfAll, DownstreamKeys
  <2> HIDE DEF t, N
  <2>4. Saves(AsSaved(All, t), All, N)
    BY <1>2, <2>1, <2>2
  <2> QED BY <2>3, <2>4 DEF N
<1>9. Saves(OfAll("media_players"), All, NamesOf("media_players"))
  <2> DEFINE N == NamesOf("media_players")
             t == <<"player">>
  <2>1. N = {t[i] : i \in 1..Len(t)} /\ t \in Seq(N)
    BY DEF NamesOf
  <2>2. N \subseteq SwitcherNames
    BY DEF NamesOf, SwitcherNames
  <2>3. OfAll("media_players") = AsSaved(All, t)
    BY DEF OfAll, MediaPlayers
  <2> HIDE DEF t, N
  <2>4. Saves(AsSaved(All, t), All, N)
    BY <1>2, <2>1, <2>2
  <2> QED BY <2>3, <2>4 DEF N
<1>10. Saves(OfAll("audio"), All, NamesOf("audio"))
  <2> DEFINE N == NamesOf("audio")
             t == <<"master", "master_band", "master_dynamics", "strip",
             "strip_eq", "strip_dynamics">>
  <2>1. N = {t[i] : i \in 1..Len(t)} /\ t \in Seq(N)
    BY DEF NamesOf
  <2>2. N \subseteq SwitcherNames
    BY DEF NamesOf, SwitcherNames
  <2>3. OfAll("audio") = AsSaved(All, t)
    BY DEF OfAll, Fairlight
  <2> HIDE DEF t, N
  <2>4. Saves(AsSaved(All, t), All, N)
    BY <1>2, <2>1, <2>2
  <2> QED BY <2>3, <2>4 DEF N
<1>11. Saves(OfAll("macros"), All, NamesOf("macros"))
  <2> DEFINE N == NamesOf("macros")
             t == <<"macro1", "macro2">>
  <2>1. N = {t[i] : i \in 1..Len(t)} /\ t \in Seq(N)
    BY DEF NamesOf
  <2>2. N \subseteq SwitcherNames
    BY DEF NamesOf, SwitcherNames
  <2>3. OfAll("macros") = AsSaved(All, t)
    BY DEF OfAll
  <2> HIDE DEF t, N
  <2>4. Saves(AsSaved(All, t), All, N)
    BY <1>2, <2>1, <2>2
  <2> QED BY <2>3, <2>4 DEF N
<1>12. Saves(OfAll("hyperdecks"), All, NamesOf("hyperdecks"))
  <2> DEFINE N == NamesOf("hyperdecks")
             t == <<"hyperdeck">>
  <2>1. N = {t[i] : i \in 1..Len(t)} /\ t \in Seq(N)
    BY DEF NamesOf
  <2>2. N \subseteq SwitcherNames
    BY DEF NamesOf, SwitcherNames
  <2>3. OfAll("hyperdecks") = AsSaved(All, t)
    BY DEF OfAll, HyperDecks
  <2> HIDE DEF t, N
  <2>4. Saves(AsSaved(All, t), All, N)
    BY <1>2, <2>1, <2>2
  <2> QED BY <2>3, <2>4 DEF N
<1> QED BY <1>3, <1>4, <1>5, <1>6, <1>7, <1>8, <1>9, <1>10, <1>11, <1>12, Zenon DEF Several

\* What the options ask of an M/E section, section by section
MeNamesOf(s, me) ==
    LET flags == MeOpt(me).flags IN
    CASE s = "transition" -> (IF "style" \in flags THEN {"style", "parameters"} ELSE {})
                             \cup (IF "next" \in flags THEN {"next"} ELSE {})
      [] s = "fade_to_black" -> IF "ftb" \in flags THEN {"ftb_rate"} ELSE {}
      [] s = "program_preview" -> (IF "preview" \in flags THEN {"preview"} ELSE {})
                                  \cup (IF "program" \in flags THEN {"program"} ELSE {})
ByMe == {"transition", "fade_to_black", "program_preview"}

\* What each M/E section sends for one M/E
LEMMA OfMeSaves ==
    \A me \in MEs, s \in ByMe : Saves(OfMe(s, me), Me(me), MeNamesOf(s, me))
<1> SUFFICES ASSUME NEW me \in MEs
             PROVE  \A s \in ByMe : Saves(OfMe(s, me), Me(me), MeNamesOf(s, me))
  OBVIOUS
<1> DEFINE flags == MeOpt(me).flags
<1>1. \A n \in MeNames : Ctl(Me(me), n) \in Sent
  BY EverythingIs DEF Sent, OfMes
<1>2. ASSUME NEW N, NEW names \in Seq(N), N \subseteq MeNames,
             N = {names[i] : i \in 1..Len(names)}
      PROVE  Saves(AsSaved(Me(me), names), Me(me), N)
  BY <1>1, <1>2, AsSavedSaves, Zenon
<1>3. Saves(<<>>, Me(me), {})
  BY DEF Saves
<1> HIDE DEF CmdT, Sent, Saves, AsSaved, Me, flags
<1>4. ASSUME NEW a \in MeNames
      PROVE  Saves(AsSaved(Me(me), <<a>>), Me(me), {a})
  <2> DEFINE N == {a} t == <<a>>
  <2>1. N = {t[i] : i \in 1..Len(t)} /\ t \in Seq(N) /\ N \subseteq MeNames
    OBVIOUS
  <2> HIDE DEF N, t
  <2>2. Saves(AsSaved(Me(me), t), Me(me), N)
    BY <1>2, <2>1
  <2> QED BY <2>2 DEF N, t
<1>5. ASSUME NEW a \in MeNames, NEW b \in MeNames
      PROVE  Saves(AsSaved(Me(me), <<a, b>>), Me(me), {a, b})
  <2> DEFINE N == {a, b} t == <<a, b>>
  <2>1. N = {t[i] : i \in 1..Len(t)} /\ t \in Seq(N) /\ N \subseteq MeNames
    OBVIOUS
  <2> HIDE DEF N, t
  <2>2. Saves(AsSaved(Me(me), t), Me(me), N)
    BY <1>2, <2>1
  <2> QED BY <2>2 DEF N, t
<1>6. /\ "style" \in MeNames /\ "parameters" \in MeNames /\ "next" \in MeNames
      /\ "ftb_rate" \in MeNames /\ "preview" \in MeNames /\ "program" \in MeNames
  BY DEF MeNames
<1> HIDE DEF MeNames
<1>7. Saves(OfMe("transition", me), Me(me), MeNamesOf("transition", me))
  <2> DEFINE a == If("style" \in flags, AsSaved(Me(me), <<"style", "parameters">>))
             A == IF "style" \in flags THEN {"style", "parameters"} ELSE {}
             b == If("next" \in flags, AsSaved(Me(me), <<"next">>))
             B == IF "next" \in flags THEN {"next"} ELSE {}
  <2>1. Saves(a, Me(me), A)
    <3>1. CASE "style" \in flags
      <4>1. a = AsSaved(Me(me), <<"style", "parameters">>) /\ A = {"style", "parameters"}
        BY <3>1, Zenon DEF If
      <4>2. Saves(AsSaved(Me(me), <<"style", "parameters">>), Me(me), {"style", "parameters"})
        BY <1>4, <1>5, <1>6
      <4> HIDE DEF a, A
      <4> QED BY <4>1, <4>2
    <3>2. CASE "style" \notin flags
      <4>1. a = <<>> /\ A = {}
        BY <3>2, Zenon DEF If
      <4> HIDE DEF a, A
      <4> QED BY <4>1, <1>3
    <3> QED BY <3>1, <3>2
  <2>2. Saves(b, Me(me), B)
    <3>1. CASE "next" \in flags
      <4>1. b = AsSaved(Me(me), <<"next">>) /\ B = {"next"}
        BY <3>1, Zenon DEF If
      <4>2. Saves(AsSaved(Me(me), <<"next">>), Me(me), {"next"})
        BY <1>4, <1>5, <1>6
      <4> HIDE DEF b, B
      <4> QED BY <4>1, <4>2
    <3>2. CASE "next" \notin flags
      <4>1. b = <<>> /\ B = {}
        BY <3>2, Zenon DEF If
      <4> HIDE DEF b, B
      <4> QED BY <4>1, <1>3
    <3> QED BY <3>1, <3>2
  <2>3. OfMe("transition", me) = a \o b
    BY DEF OfMe, Transition, flags
  <2>4. MeNamesOf("transition", me) = A \cup B
    BY DEF MeNamesOf, flags
  <2> HIDE DEF a, b, A, B
  <2>5. Saves(a \o b, Me(me), A \cup B)
    BY <2>1, <2>2, SavesJoins
  <2> QED BY <2>3, <2>4, <2>5
<1>8. Saves(OfMe("fade_to_black", me), Me(me), MeNamesOf("fade_to_black", me))
  <2> DEFINE a == If("ftb" \in flags, AsSaved(Me(me), <<"ftb_rate">>))
             A == IF "ftb" \in flags THEN {"ftb_rate"} ELSE {}
  <2>1. Saves(a, Me(me), A)
    <3>1. CASE "ftb" \in flags
      <4>1. a = AsSaved(Me(me), <<"ftb_rate">>) /\ A = {"ftb_rate"}
        BY <3>1, Zenon DEF If
      <4>2. Saves(AsSaved(Me(me), <<"ftb_rate">>), Me(me), {"ftb_rate"})
        BY <1>4, <1>5, <1>6
      <4> HIDE DEF a, A
      <4> QED BY <4>1, <4>2
    <3>2. CASE "ftb" \notin flags
      <4>1. a = <<>> /\ A = {}
        BY <3>2, Zenon DEF If
      <4> HIDE DEF a, A
      <4> QED BY <4>1, <1>3
    <3> QED BY <3>1, <3>2
  <2>2. OfMe("fade_to_black", me) = a
    BY DEF OfMe, FadeToBlack, flags
  <2>3. MeNamesOf("fade_to_black", me) = A
    BY DEF MeNamesOf, flags
  <2> HIDE DEF a, A
  <2> QED BY <2>1, <2>2, <2>3
<1>9. Saves(OfMe("program_preview", me), Me(me), MeNamesOf("program_preview", me))
  <2> DEFINE a == If("preview" \in flags, AsSaved(Me(me), <<"preview">>))
             A == IF "preview" \in flags THEN {"preview"} ELSE {}
             b == If("program" \in flags, AsSaved(Me(me), <<"program">>))
             B == IF "program" \in flags THEN {"program"} ELSE {}
  <2>1. Saves(a, Me(me), A)
    <3>1. CASE "preview" \in flags
      <4>1. a = AsSaved(Me(me), <<"preview">>) /\ A = {"preview"}
        BY <3>1, Zenon DEF If
      <4>2. Saves(AsSaved(Me(me), <<"preview">>), Me(me), {"preview"})
        BY <1>4, <1>5, <1>6
      <4> HIDE DEF a, A
      <4> QED BY <4>1, <4>2
    <3>2. CASE "preview" \notin flags
      <4>1. a = <<>> /\ A = {}
        BY <3>2, Zenon DEF If
      <4> HIDE DEF a, A
      <4> QED BY <4>1, <1>3
    <3> QED BY <3>1, <3>2
  <2>2. Saves(b, Me(me), B)
    <3>1. CASE "program" \in flags
      <4>1. b = AsSaved(Me(me), <<"program">>) /\ B = {"program"}
        BY <3>1, Zenon DEF If
      <4>2. Saves(AsSaved(Me(me), <<"program">>), Me(me), {"program"})
        BY <1>4, <1>5, <1>6
      <4> HIDE DEF b, B
      <4> QED BY <4>1, <4>2
    <3>2. CASE "program" \notin flags
      <4>1. b = <<>> /\ B = {}
        BY <3>2, Zenon DEF If
      <4> HIDE DEF b, B
      <4> QED BY <4>1, <1>3
    <3> QED BY <3>1, <3>2
  <2>3. OfMe("program_preview", me) = a \o b
    BY DEF OfMe, ProgramPreview, flags
  <2>4. MeNamesOf("program_preview", me) = A \cup B
    BY DEF MeNamesOf, flags
  <2> HIDE DEF a, b, A, B
  <2>5. Saves(a \o b, Me(me), A \cup B)
    BY <2>1, <2>2, SavesJoins
  <2> QED BY <2>3, <2>4, <2>5
<1> QED BY <1>7, <1>8, <1>9, Zenon DEF ByMe

\* The commands of a keyer by their places
Full(block, key) ==
    /\ Len(block) = 18
    /\ block[1] = Cmd(Ctl(key, "type"), "saved")
    /\ block[2] = Cmd(Ctl(key, "sources"), "saved")
    /\ block[3] = Cmd(Ctl(key, "on_air"), "saved")
    /\ block[4] = Cmd(Ctl(key, "mask"), "saved")
    /\ block[5] = Cmd(Ctl(key, "luma"), "saved")
    /\ block[6] = Cmd(Ctl(key, "pattern"), "saved")
    /\ block[7] = Cmd(Ctl(key, "fly"), "A")
    /\ block[8] = Cmd(Ctl(key, "dve"), "A")
    /\ block[9] = Cmd(Ctl(key, "snapshot"), "A")
    /\ block[10] = Cmd(Ctl(key, "fly"), "B")
    /\ block[11] = Cmd(Ctl(key, "dve"), "B")
    /\ block[12] = Cmd(Ctl(key, "snapshot"), "B")
    /\ block[13] = Cmd(Ctl(key, "dve"), "saved")
    /\ block[14] = Cmd(Ctl(key, "chroma"), "saved")
    /\ block[15] = Cmd(Ctl(key, "cursor"), "saved")
    /\ block[16] = Cmd(Ctl(key, "colour"), "saved")
    /\ block[17] = Cmd(Ctl(key, "fly"), "saved")
    /\ block[18] = Cmd(Ctl(key, "rate"), "saved")
Plain(block, key) ==
    /\ Len(block) = 12
    /\ block[1] = Cmd(Ctl(key, "type"), "saved")
    /\ block[2] = Cmd(Ctl(key, "sources"), "saved")
    /\ block[3] = Cmd(Ctl(key, "on_air"), "saved")
    /\ block[4] = Cmd(Ctl(key, "mask"), "saved")
    /\ block[5] = Cmd(Ctl(key, "luma"), "saved")
    /\ block[6] = Cmd(Ctl(key, "pattern"), "saved")
    /\ block[7] = Cmd(Ctl(key, "dve"), "saved")
    /\ block[8] = Cmd(Ctl(key, "chroma"), "saved")
    /\ block[9] = Cmd(Ctl(key, "cursor"), "saved")
    /\ block[10] = Cmd(Ctl(key, "colour"), "saved")
    /\ block[11] = Cmd(Ctl(key, "fly"), "saved")
    /\ block[12] = Cmd(Ctl(key, "rate"), "saved")

\* The elements of a concatenation
LEMMA JoinedAt ==
    ASSUME NEW T, NEW a \in Seq(T), NEW b \in Seq(T)
    PROVE  /\ a \o b \in Seq(T) /\ Len(a \o b) = Len(a) + Len(b)
           /\ \A i \in 1..Len(a) + Len(b) :
                 (a \o b)[i] = IF i <= Len(a) THEN a[i] ELSE b[i - Len(a)]
OBVIOUS

\* The commands of AsSaved by their places
LEMMA AsSavedAt ==
    ASSUME NEW S, NEW where, NEW names \in Seq(S)
    PROVE  /\ Len(AsSaved(where, names)) = Len(names)
           /\ \A i \in 1..Len(names) : AsSaved(where, names)[i] = Cmd(Ctl(where, names[i]), "saved")
  BY DEF AsSaved

\* A keyer's block, with its keyframes and without
LEMMA UskBlockIs ==
    ASSUME NEW m, NEW k, opts.keyframes \in BOOLEAN
    PROVE  /\ opts.keyframes => Full(UskBlock(m, k), Key(m, k))
           /\ ~opts.keyframes => Plain(UskBlock(m, k), Key(m, k))
           /\ \E T : UskBlock(m, k) \in Seq(T)
<1> DEFINE key == Key(m, k)
           x == <<"type", "sources", "on_air", "mask", "luma", "pattern">>
           y == <<"dve", "chroma", "cursor", "colour", "fly", "rate">>
           a == AsSaved(key, x)
           z == AsSaved(key, y)
           f == FlyKeyframe(m, k, "A")
           g == FlyKeyframe(m, k, "B")
<1>1. /\ Len(x) = 6 /\ x[1] = "type" /\ x[2] = "sources" /\ x[3] = "on_air"
      /\ x[4] = "mask" /\ x[5] = "luma" /\ x[6] = "pattern"
  OBVIOUS
<1>2. /\ Len(y) = 6 /\ y[1] = "dve" /\ y[2] = "chroma" /\ y[3] = "cursor"
      /\ y[4] = "colour" /\ y[5] = "fly" /\ y[6] = "rate"
  OBVIOUS
<1>3. /\ Len(f) = 3 /\ f[1] = Cmd(Ctl(key, "fly"), "A") /\ f[2] = Cmd(Ctl(key, "dve"), "A")
      /\ f[3] = Cmd(Ctl(key, "snapshot"), "A")
  BY DEF FlyKeyframe
<1>4. /\ Len(g) = 3 /\ g[1] = Cmd(Ctl(key, "fly"), "B") /\ g[2] = Cmd(Ctl(key, "dve"), "B")
      /\ g[3] = Cmd(Ctl(key, "snapshot"), "B")
  BY DEF FlyKeyframe
<1>5. UskBlock(m, k) = a \o If(opts.keyframes, f \o g) \o z
  BY DEF UskBlock
<1>6. PICK S : x \in Seq(S) /\ y \in Seq(S)
  <2> DEFINE S == {"type", "sources", "on_air", "mask", "luma", "pattern",
                   "dve", "chroma", "cursor", "colour", "fly", "rate"}
  <2>1. x \in Seq(S)
    OBVIOUS
  <2>2. y \in Seq(S)
    OBVIOUS
  <2> HIDE DEF S, x, y
  <2> QED BY <2>1, <2>2
<1>7. f = <<f[1], f[2], f[3]>> /\ g = <<g[1], g[2], g[3]>>
  BY DEF FlyKeyframe
<1> HIDE DEF f, g, x, y, key
<1>8. /\ Len(a) = 6
      /\ a[1] = Cmd(Ctl(key, "type"), "saved") /\ a[2] = Cmd(Ctl(key, "sources"), "saved")
      /\ a[3] = Cmd(Ctl(key, "on_air"), "saved") /\ a[4] = Cmd(Ctl(key, "mask"), "saved")
      /\ a[5] = Cmd(Ctl(key, "luma"), "saved") /\ a[6] = Cmd(Ctl(key, "pattern"), "saved")
  BY <1>1, <1>6, AsSavedAt
<1>9. /\ Len(z) = 6
      /\ z[1] = Cmd(Ctl(key, "dve"), "saved") /\ z[2] = Cmd(Ctl(key, "chroma"), "saved")
      /\ z[3] = Cmd(Ctl(key, "cursor"), "saved") /\ z[4] = Cmd(Ctl(key, "colour"), "saved")
      /\ z[5] = Cmd(Ctl(key, "fly"), "saved") /\ z[6] = Cmd(Ctl(key, "rate"), "saved")
  BY <1>2, <1>6, AsSavedAt
<1> DEFINE T == {a[1], a[2], a[3], a[4], a[5], a[6], z[1], z[2], z[3], z[4], z[5], z[6],
                 f[1], f[2], f[3], g[1], g[2], g[3]}
<1>12. f \in Seq(T) /\ g \in Seq(T)
  <2> HIDE DEF a, z
  <2>1. f[1] \in T /\ f[2] \in T /\ f[3] \in T /\ g[1] \in T /\ g[2] \in T /\ g[3] \in T
    OBVIOUS
  <2> HIDE DEF T, f, g
  <2>2. <<f[1], f[2], f[3]>> \in Seq(T)
    BY <2>1
  <2>3. <<g[1], g[2], g[3]>> \in Seq(T)
    BY <2>1
  <2> QED BY <2>2, <2>3, <1>7, Zenon
<1>13. a \in Seq(T) /\ z \in Seq(T)
  <2>1. /\ a = [i \in 1..6 |-> Cmd(Ctl(key, x[i]), "saved")]
        /\ z = [i \in 1..6 |-> Cmd(Ctl(key, y[i]), "saved")]
    BY <1>1, <1>2 DEF AsSaved
  <2> HIDE DEF a, z
  <2>2. \A i \in 1..6 : a[i] \in T /\ z[i] \in T
    <3>1. \A i \in 1..6 : i = 1 \/ i = 2 \/ i = 3 \/ i = 4 \/ i = 5 \/ i = 6
      OBVIOUS
    <3> QED BY <3>1
  <2>3. \A i \in 1..6 : Cmd(Ctl(key, x[i]), "saved") \in T /\ Cmd(Ctl(key, y[i]), "saved") \in T
    <3> HIDE DEF T
    <3> QED BY <2>1, <2>2
  <2> HIDE DEF T
  <2> QED BY <2>1, <2>3
<1> HIDE DEF a, z, T
<1>10. CASE opts.keyframes
  <2>1. UskBlock(m, k) = a \o (f \o g) \o z
    BY <1>5, <1>10 DEF If
  <2> DEFINE h == f \o g
             b == a \o h
             u == b \o z
  <2>2. /\ Len(h) = 6 /\ h \in Seq(T) /\ h[1] = f[1] /\ h[2] = f[2] /\ h[3] = f[3]
        /\ h[4] = g[1] /\ h[5] = g[2] /\ h[6] = g[3]
    <3>1. /\ h \in Seq(T) /\ Len(h) = Len(f) + Len(g)
          /\ \A i \in 1..Len(f) + Len(g) : h[i] = IF i <= Len(f) THEN f[i] ELSE g[i - Len(f)]
       BY <1>12, JoinedAt, Zenon
    <3> HIDE DEF h
    <3>2. h \in Seq(T) /\ Len(h) = 6 /\ \A i \in 1..6 : h[i] = IF i <= 3 THEN f[i] ELSE g[i - 3]
      BY <3>1, <1>3, <1>4
    <3> QED BY <3>2
  <2> HIDE DEF h
  <2>3. /\ Len(b) = 12 /\ b \in Seq(T) /\ \A i \in 1..6 : b[i] = a[i] /\ b[6 + i] = h[i]
    <3>1. /\ b \in Seq(T) /\ Len(b) = Len(a) + Len(h)
          /\ \A i \in 1..Len(a) + Len(h) : b[i] = IF i <= Len(a) THEN a[i] ELSE h[i - Len(a)]
       BY <1>13, <2>2, JoinedAt, Zenon
    <3> HIDE DEF b
    <3>2. b \in Seq(T) /\ Len(b) = 12 /\ \A i \in 1..12 : b[i] = IF i <= 6 THEN a[i] ELSE h[i - 6]
      BY <3>1, <1>8, <2>2
    <3> QED BY <3>2
  <2> HIDE DEF b
  <2>4. Len(u) = 18 /\ \A i \in 1..18 : u[i] = IF i <= 12 THEN b[i] ELSE z[i - 12]
    <3>1. /\ u \in Seq(T) /\ Len(u) = Len(b) + Len(z)
          /\ \A i \in 1..Len(b) + Len(z) : u[i] = IF i <= Len(b) THEN b[i] ELSE z[i - Len(b)]
       BY <1>13, <2>3, JoinedAt, Zenon
    <3> HIDE DEF u
    <3> QED BY <3>1, <1>9, <2>3
  <2>5. (\A i \in 1..12 : u[i] = b[i]) /\ \A i \in 1..6 : u[12 + i] = z[i]
    <3> HIDE DEF u
    <3> QED BY <2>4
  <2> HIDE DEF u
  <2>6. /\ u[1] = a[1] /\ u[2] = a[2] /\ u[3] = a[3] /\ u[4] = a[4] /\ u[5] = a[5] /\ u[6] = a[6]
    BY <2>3, <2>5
  <2>7. /\ b[7] = h[1] /\ b[8] = h[2] /\ b[9] = h[3] /\ b[10] = h[4] /\ b[11] = h[5] /\ b[12] = h[6]
    BY <2>3
  <2>8. /\ u[7] = b[7] /\ u[8] = b[8] /\ u[9] = b[9]
        /\ u[10] = b[10] /\ u[11] = b[11] /\ u[12] = b[12]
    BY <2>5
  <2>9. /\ u[13] = z[1] /\ u[14] = z[2] /\ u[15] = z[3]
        /\ u[16] = z[4] /\ u[17] = z[5] /\ u[18] = z[6]
    BY <2>5
  <2>10. UskBlock(m, k) = u
    BY <2>1 DEF u, b, h
  <2>11. Full(u, key)
    BY <1>3, <1>4, <1>8, <1>9, <2>2, <2>4, <2>6, <2>7, <2>8, <2>9, Zenon DEF Full
  <2>12. u \in Seq(T)
    <3> HIDE DEF h, b
    <3> QED BY <2>3, <1>13, JoinedAt, Zenon DEF u
  <2> HIDE DEF u, T
  <2> QED BY <1>10, <2>10, <2>11, <2>12 DEF key
<1>11. CASE ~opts.keyframes
  <2>1. UskBlock(m, k) = a \o z
    BY <1>5, <1>11, <1>13 DEF If
  <2> DEFINE u == a \o z
  <2>2. /\ Len(u) = 12 /\ \A i \in 1..6 : u[i] = a[i] /\ u[6 + i] = z[i]
    <3>1. /\ u \in Seq(T) /\ Len(u) = Len(a) + Len(z)
          /\ \A i \in 1..Len(a) + Len(z) : u[i] = IF i <= Len(a) THEN a[i] ELSE z[i - Len(a)]
       BY <1>13, JoinedAt, Zenon
    <3> HIDE DEF u
    <3>2. Len(u) = 12 /\ \A i \in 1..12 : u[i] = IF i <= 6 THEN a[i] ELSE z[i - 6]
      BY <3>1, <1>8, <1>9
    <3> QED BY <3>2
  <2> HIDE DEF u
  <2>3. /\ u[1] = a[1] /\ u[2] = a[2] /\ u[3] = a[3] /\ u[4] = a[4] /\ u[5] = a[5] /\ u[6] = a[6]
        /\ u[7] = z[1] /\ u[8] = z[2] /\ u[9] = z[3] /\ u[10] = z[4] /\ u[11] = z[5] /\ u[12] = z[6]
    BY <2>2
  <2>4. Plain(u, key)
    BY <1>8, <1>9, <2>2, <2>3, Zenon DEF Plain
  <2>5. u \in Seq(T)
    BY <1>13, JoinedAt, Zenon DEF u
  <2>6. UskBlock(m, k) = u
    BY <2>1 DEF u
  <2> QED BY <1>11, <2>4, <2>5, <2>6 DEF key
<1> QED BY <1>10, <1>11

\* The section of a control, by its place in Sections
Stage(c) ==
    IF c[1] = All
    THEN CASE c[2] = "video_mode" -> 1
           [] c[2] \in {"label1", "label2"} -> 2
           [] c[2] = "ftb_enabled" -> 3
           [] c[2] \in {"hue", "saturation", "luma"} -> 4
           [] c[2] = "aux" -> 5
           [] c[2] \in {"dsk_sources", "dsk_mask", "dsk_gain", "dsk_on_air", "dsk_tie"} -> 8
           [] c[2] = "player" -> 10
           [] c[2] \in {"master", "master_band", "master_dynamics", "strip", "strip_eq",
                        "strip_dynamics"} -> 11
           [] c[2] \in {"macro1", "macro2"} -> 12
           [] c[2] = "hyperdeck" -> 13
    ELSE IF c[1][1] = "key" THEN 7
    ELSE CASE c[2] \in {"style", "parameters", "next"} -> 6
           [] c[2] = "ftb_rate" -> 9
           [] c[2] \in {"preview", "program"} -> 14

\* The order of Profile.apply
LEMMA SectionsAre ==
    /\ Len(Sections) = 14
    /\ Sections[1] = "video_mode" /\ Sections[2] = "inputs" /\ Sections[3] = "settings_flags"
    /\ Sections[4] = "color_generators" /\ Sections[5] = "aux" /\ Sections[6] = "transition"
    /\ Sections[7] = "upstream_keyers" /\ Sections[8] = "downstream_keys"
    /\ Sections[9] = "fade_to_black" /\ Sections[10] = "media_players" /\ Sections[11] = "audio"
    /\ Sections[12] = "macros" /\ Sections[13] = "hyperdecks" /\ Sections[14] = "program_preview"
  BY DEF Sections

\* A control of the switcher is of the section that sends it.
LEMMA StageOfSwitcher ==
    \A n \in SwitcherNames :
        /\ Stage(Ctl(All, n)) \in {1, 2, 3, 4, 5, 8, 10, 11, 12, 13}
        /\ \A p \in {1, 2, 3, 4, 5, 8, 10, 11, 12, 13} :
              Stage(Ctl(All, n)) = p <=> n \in NamesOf(Sections[p])
<1> TAKE n \in SwitcherNames
<1> DEFINE s == CASE n = "video_mode" -> 1
           [] n \in {"label1", "label2"} -> 2
           [] n = "ftb_enabled" -> 3
           [] n \in {"hue", "saturation", "luma"} -> 4
           [] n = "aux" -> 5
           [] n \in {"dsk_sources", "dsk_mask", "dsk_gain", "dsk_on_air", "dsk_tie"} -> 8
           [] n = "player" -> 10
           [] n \in {"master", "master_band", "master_dynamics", "strip", "strip_eq",
                        "strip_dynamics"} -> 11
           [] n \in {"macro1", "macro2"} -> 12
           [] n = "hyperdeck" -> 13
<1>1. Stage(Ctl(All, n)) = s
  BY CtlParts DEF Stage, SwitcherNames
<1>10. s = 1 <=> n \in NamesOf("video_mode")
  BY DEF NamesOf, SwitcherNames
<1>11. s = 2 <=> n \in NamesOf("inputs")
  BY DEF NamesOf, SwitcherNames
<1>12. s = 3 <=> n \in NamesOf("settings_flags")
  BY DEF NamesOf, SwitcherNames
<1>13. s = 4 <=> n \in NamesOf("color_generators")
  BY DEF NamesOf, SwitcherNames
<1>14. s = 5 <=> n \in NamesOf("aux")
  BY DEF NamesOf, SwitcherNames
<1>17. s = 8 <=> n \in NamesOf("downstream_keys")
  BY DEF NamesOf, SwitcherNames
<1>19. s = 10 <=> n \in NamesOf("media_players")
  BY DEF NamesOf, SwitcherNames
<1>20. s = 11 <=> n \in NamesOf("audio")
  BY DEF NamesOf, SwitcherNames
<1>21. s = 12 <=> n \in NamesOf("macros")
  BY DEF NamesOf, SwitcherNames
<1>22. s = 13 <=> n \in NamesOf("hyperdecks")
  BY DEF NamesOf, SwitcherNames
<1>4. s \in {1, 2, 3, 4, 5, 8, 10, 11, 12, 13}
  BY DEF SwitcherNames
<1> HIDE DEF s
<1> QED BY <1>1, <1>4, <1>10, <1>11, <1>12, <1>13, <1>14, <1>17, <1>19, <1>20, <1>21, <1>22,
          SectionsAre

\* What an M/E section can send
NamesByMe(s) ==
    CASE s = "transition"      -> {"style", "parameters", "next"}
      [] s = "fade_to_black"   -> {"ftb_rate"}
      [] s = "program_preview" -> {"preview", "program"}

\* A control of an M/E is of the section that sends it.
LEMMA StageOfMe ==
    \A m, n : n \in MeNames =>
        /\ Stage(Ctl(Me(m), n)) \in {6, 9, 14}
        /\ \A p \in {6, 9, 14} : Stage(Ctl(Me(m), n)) = p <=> n \in NamesByMe(Sections[p])
<1> SUFFICES ASSUME NEW m, NEW n \in MeNames
             PROVE  /\ Stage(Ctl(Me(m), n)) \in {6, 9, 14}
                    /\ \A p \in {6, 9, 14} :
                          Stage(Ctl(Me(m), n)) = p <=> n \in NamesByMe(Sections[p])
  OBVIOUS
<1> DEFINE s == CASE n \in {"style", "parameters", "next"} -> 6
           [] n = "ftb_rate" -> 9
           [] n \in {"preview", "program"} -> 14
<1>1. Stage(Ctl(Me(m), n)) = s
  BY CtlParts, WhereParts, WheresDiffer DEF Stage, MeNames
<1>2. /\ s = 6 <=> n \in NamesByMe("transition")
      /\ s = 9 <=> n \in NamesByMe("fade_to_black")
      /\ s = 14 <=> n \in NamesByMe("program_preview")
      /\ s \in {6, 9, 14}
  BY DEF NamesByMe, MeNames
<1> HIDE DEF s
<1> QED BY <1>1, <1>2, SectionsAre

\* An M/E section sends what is asked for of it.
LEMMA SelectedOfMe ==
    \A m, s, n : s \in ByMe /\ n \in NamesByMe(s) =>
        (n \in MeNamesOf(s, m) <=> Selected(Ctl(Me(m), n)))
<1> SUFFICES ASSUME NEW m, NEW s \in ByMe, NEW n \in NamesByMe(s)
             PROVE  n \in MeNamesOf(s, m) <=> Selected(Ctl(Me(m), n))
  OBVIOUS
<1> DEFINE flags == MeOpt(m).flags
           f == CASE n \in {"style", "parameters"} -> "style"
                  [] n = "ftb_rate" -> "ftb"
                  [] OTHER -> n
<1>1. Selected(Ctl(Me(m), n)) <=> f \in flags
  BY CtlParts, WhereParts, WheresDiffer DEF Selected
<1> HIDE DEF flags
<1>2. CASE s = "transition"
  <2>1. MeNamesOf(s, m) = (IF "style" \in flags THEN {"style", "parameters"} ELSE {})
                          \cup (IF "next" \in flags THEN {"next"} ELSE {})
    BY <1>2 DEF MeNamesOf, flags
  <2>2. n \in {"style", "parameters", "next"}
    BY <1>2 DEF NamesByMe
  <2> QED BY <2>1, <2>2, <1>1
<1>3. CASE s = "fade_to_black"
  <2>1. MeNamesOf(s, m) = IF "ftb" \in flags THEN {"ftb_rate"} ELSE {}
    BY <1>3 DEF MeNamesOf, flags
  <2>2. n = "ftb_rate"
    BY <1>3 DEF NamesByMe
  <2> QED BY <2>1, <2>2, <1>1
<1>4. CASE s = "program_preview"
  <2>1. MeNamesOf(s, m) = (IF "preview" \in flags THEN {"preview"} ELSE {})
                          \cup (IF "program" \in flags THEN {"program"} ELSE {})
    BY <1>4 DEF MeNamesOf, flags
  <2>2. n \in {"preview", "program"}
    BY <1>4 DEF NamesByMe
  <2> QED BY <2>1, <2>2, <1>1
<1> QED BY <1>2, <1>3, <1>4 DEF ByMe

\* An M/E section sends only controls of its own.
LEMMA MeNamesWithin ==
    \A m, s : s \in ByMe => MeNamesOf(s, m) \subseteq NamesByMe(s) /\ NamesByMe(s) \subseteq MeNames
<1> SUFFICES ASSUME NEW m, NEW s \in ByMe
             PROVE  MeNamesOf(s, m) \subseteq NamesByMe(s) /\ NamesByMe(s) \subseteq MeNames
  OBVIOUS
<1>1. CASE s = "transition"
  BY <1>1 DEF MeNamesOf, NamesByMe, MeNames
<1>2. CASE s = "fade_to_black"
  BY <1>2 DEF MeNamesOf, NamesByMe, MeNames
<1>3. CASE s = "program_preview"
  BY <1>3 DEF MeNamesOf, NamesByMe, MeNames
<1> QED BY <1>1, <1>2, <1>3 DEF ByMe

\* The M/Es a section goes through: the first of the profile's, as many as
\* the switcher shows at the moment.
LEMMA MeBlocksAre ==
    /\ MeCount \in Nat
    /\ \E n \in Nat : /\ MeBlocks = [i \in 1..n |-> i - 1]
                      /\ \A i \in 1..n : i - 1 \in MEs /\ i - 1 < MeCount
                      /\ \A m \in MEs : m < MeCount => m + 1 \in 1..n
<1>1. MeCount \in Nat /\ SavedMEs \in Nat
  BY ProfileBounds DEF MeCount
<1> DEFINE n == IF SavedMEs < MeCount THEN SavedMEs ELSE MeCount
<1>2. n \in Nat /\ MeBlocks = [i \in 1..n |-> i - 1]
  BY <1>1 DEF MeBlocks
<1>3. /\ \A i \in 1..n : i - 1 \in MEs /\ i - 1 < MeCount
      /\ \A m \in MEs : m < MeCount => m + 1 \in 1..n
  BY <1>1 DEF MEs
<1> HIDE DEF n
<1> QED BY <1>1, <1>2, <1>3

\* The pieces of an M/E section
LEMMA OfEveryMe ==
    ASSUME NEW s \in MeSections, \A m \in MEs : OfMe(s, m) \in Seq(CmdT)
    PROVE  /\ CommandsOf(s) \in Seq(CmdT)
           /\ \E at : /\ \A m \in MEs : m < MeCount =>
                            /\ at[m] \in Nat /\ at[m] + Len(OfMe(s, m)) <= Len(CommandsOf(s))
                            /\ \A j \in 1..Len(OfMe(s, m)) : CommandsOf(s)[at[m] + j] = OfMe(s, m)[j]
                      /\ \A i \in 1..Len(CommandsOf(s)) :
                            \E m \in MEs : m < MeCount /\ i - at[m] \in 1..Len(OfMe(s, m))
<1>1. PICK n \in Nat : /\ MeBlocks = [i \in 1..n |-> i - 1]
                       /\ \A i \in 1..n : i - 1 \in MEs /\ i - 1 < MeCount
                       /\ \A m \in MEs : m < MeCount => m + 1 \in 1..n
  BY MeBlocksAre
<1> DEFINE seqs == [i \in 1..n |-> OfMe(s, i - 1)]
<1>2. CommandsOf(s) = FlattenSeq(seqs)
  <2>1. CommandsOf(s) = FlattenSeq([i \in DOMAIN MeBlocks |-> OfMe(s, MeBlocks[i])])
    BY Zenon DEF CommandsOf
  <2>2. DOMAIN MeBlocks = 1..n /\ \A i \in 1..n : MeBlocks[i] = i - 1
    BY <1>1
  <2>3. [i \in DOMAIN MeBlocks |-> OfMe(s, MeBlocks[i])] = seqs
    BY <2>2
  <2> QED BY <2>1, <2>3, Zenon
<1> HIDE DEF CmdT
<1>3. seqs \in Seq(Seq(CmdT)) /\ Len(seqs) = n /\ \A i \in 1..n : seqs[i] = OfMe(s, i - 1)
  BY <1>1
<1> HIDE DEF seqs
<1> DEFINE all == FlattenSeq(seqs)
<1>4. all \in Seq(CmdT) /\ \E at : Pieces(at, seqs, all)
  BY <1>3, Flattened, Zenon
<1>5. PICK at : Pieces(at, seqs, all)
  BY <1>4
<1> DEFINE to == [m \in MEs |-> at[m + 1]]
<1> HIDE DEF all
<1>6. ASSUME NEW m \in MEs, m < MeCount
      PROVE  /\ to[m] \in Nat /\ to[m] + Len(OfMe(s, m)) <= Len(all)
             /\ \A j \in 1..Len(OfMe(s, m)) : all[to[m] + j] = OfMe(s, m)[j]
  <2>1. m + 1 \in 1..n /\ m \in Int
    BY <1>1, <1>6 DEF MEs
  <2>2. seqs[m + 1] = OfMe(s, m) /\ to[m] = at[m + 1]
    BY <2>1, <1>3
  <2> HIDE DEF to
  <2> QED BY <2>1, <2>2, <1>3, <1>5 DEF Pieces
<1>7. ASSUME NEW i \in 1..Len(all)
      PROVE  \E m \in MEs : m < MeCount /\ i - to[m] \in 1..Len(OfMe(s, m))
  <2>1. PICK k \in 1..n : i - at[k] \in 1..Len(seqs[k])
    BY <1>3, <1>5 DEF Pieces
  <2>2. PICK m \in MEs : m = k - 1 /\ k = m + 1 /\ m < MeCount
    BY <1>1
  <2>3. seqs[k] = OfMe(s, m) /\ to[m] = at[k]
    BY <2>2, <1>3
  <2> QED BY <2>1, <2>2, <2>3
<1> HIDE DEF to
<1>8. /\ all \in Seq(CmdT)
      /\ \E to_ : /\ \A m \in MEs : m < MeCount =>
                       /\ to_[m] \in Nat /\ to_[m] + Len(OfMe(s, m)) <= Len(all)
                       /\ \A j \in 1..Len(OfMe(s, m)) : all[to_[m] + j] = OfMe(s, m)[j]
                 /\ \A i \in 1..Len(all) :
                       \E m \in MEs : m < MeCount /\ i - to_[m] \in 1..Len(OfMe(s, m))
  BY <1>4, <1>6, <1>7
<1> QED BY <1>2, <1>8, Zenon DEF all

\* The commands of an M/E section: for each M/E it goes through, what is asked
\* for, and nothing else.
LEMMA ByMeCommands ==
    ASSUME NEW s \in ByMe
    PROVE  /\ CommandsOf(s) \in Seq(CmdT)
           /\ \A i \in 1..Len(CommandsOf(s)) :
                 \E m \in MEs : \E n \in MeNamesOf(s, m) :
                     m < MeCount /\ CommandsOf(s)[i] = Cmd(Ctl(Me(m), n), "saved")
           /\ \A m \in MEs : m < MeCount =>
                 \A n \in MeNamesOf(s, m) : \E i \in 1..Len(CommandsOf(s)) :
                     CommandsOf(s)[i] = Cmd(Ctl(Me(m), n), "saved")
<1> DEFINE all == CommandsOf(s)
<1>1. \A m \in MEs : Saves(OfMe(s, m), Me(m), MeNamesOf(s, m))
  BY OfMeSaves
<1>2. /\ s \in MeSections
      /\ \A m \in MEs : OfMe(s, m) \in Seq(CmdT)
  BY <1>1 DEF Saves, ByMe, MeSections
<1> HIDE DEF CmdT
<1>3. all \in Seq(CmdT)
  BY <1>2, OfEveryMe
<1>4. PICK at :
         /\ \A m \in MEs : m < MeCount =>
                 /\ at[m] \in Nat /\ at[m] + Len(OfMe(s, m)) <= Len(all)
                 /\ \A j \in 1..Len(OfMe(s, m)) : all[at[m] + j] = OfMe(s, m)[j]
         /\ \A i \in 1..Len(all) : \E m \in MEs : m < MeCount /\ i - at[m] \in 1..Len(OfMe(s, m))
  BY <1>2, OfEveryMe
<1> HIDE DEF all
<1>5. ASSUME NEW i \in 1..Len(all)
      PROVE  \E m \in MEs : \E n \in MeNamesOf(s, m) :
                 m < MeCount /\ all[i] = Cmd(Ctl(Me(m), n), "saved")
  <2>1. PICK m \in MEs : m < MeCount /\ i - at[m] \in 1..Len(OfMe(s, m))
    BY <1>4
  <2>2. PICK j \in 1..Len(OfMe(s, m)) : j = i - at[m]
    BY <2>1
  <2>3. at[m] \in Nat /\ i = at[m] + j
    BY <2>1, <2>2, <1>4
  <2>4. all[i] = OfMe(s, m)[j]
    BY <2>1, <2>3, <1>4
  <2> QED BY <2>1, <2>4, <1>1 DEF Saves
<1>6. ASSUME NEW m \in MEs, m < MeCount, NEW n \in MeNamesOf(s, m)
      PROVE  \E i \in 1..Len(all) : all[i] = Cmd(Ctl(Me(m), n), "saved")
  <2>1. PICK j \in 1..Len(OfMe(s, m)) : OfMe(s, m)[j] = Cmd(Ctl(Me(m), n), "saved")
    BY <1>1 DEF Saves
  <2>2. Len(OfMe(s, m)) \in Nat
    BY <1>2
  <2>3. at[m] + j \in 1..Len(all) /\ all[at[m] + j] = OfMe(s, m)[j]
    BY <1>3, <1>4, <1>6, <2>2
  <2> QED BY <2>1, <2>3
<1> QED BY <1>3, <1>5, <1>6 DEF all

\* The commands of a keyer's block are all for that keyer.
LEMMA BlockElements ==
    ASSUME NEW m \in MEs, NEW k \in KeyerNos, opts.keyframes \in BOOLEAN
    PROVE  /\ UskBlock(m, k) \in Seq(CmdT)
           /\ Len(UskBlock(m, k)) = IF opts.keyframes THEN 18 ELSE 12
           /\ \A i \in 1..Len(UskBlock(m, k)) : UskBlock(m, k)[i].c[1] = Key(m, k)
           /\ \A i \in 1..Len(UskBlock(m, k)) : \E n \in KeyNames \cup {"snapshot"} : \E v :
                 UskBlock(m, k)[i] = Cmd(Ctl(Key(m, k), n), v)
<1> DEFINE block == UskBlock(m, k)
           key == Key(m, k)
           Sends(x) == \E n \in KeyNames \cup {"snapshot"} : \E v : x = Cmd(Ctl(key, n), v)
           Of(x) == x \in CmdT /\ x.c[1] = key /\ Sends(x)
<1>1. /\ opts.keyframes => Full(block, key)
      /\ ~opts.keyframes => Plain(block, key)
      /\ \E T : block \in Seq(T)
  BY UskBlockIs
<1>2. ASSUME NEW n \in KeyNames \cup {"snapshot"}, NEW v \in {"saved", "A", "B"}
      PROVE  Of(Cmd(Ctl(key, n), v))
  <2>1. Ctl(key, n) \in Sent
    BY EverythingIs DEF Sent, OfKeys
  <2>2. Sends(Cmd(Ctl(key, n), v))
    OBVIOUS
  <2> HIDE DEF Sent, Sends
  <2> QED BY <2>1, <2>2, CmdParts, CtlParts DEF CmdT
<1>3. /\ "type" \in KeyNames /\ "sources" \in KeyNames /\ "on_air" \in KeyNames
      /\ "mask" \in KeyNames /\ "luma" \in KeyNames /\ "pattern" \in KeyNames
      /\ "dve" \in KeyNames /\ "chroma" \in KeyNames /\ "cursor" \in KeyNames
      /\ "colour" \in KeyNames /\ "fly" \in KeyNames /\ "rate" \in KeyNames
  BY DEF KeyNames
<1> HIDE DEF Of, Sends, KeyNames, block, key
<1>4. CASE opts.keyframes
  <2>1. Full(block, key)
    BY <1>1, <1>4
  <2>2. Len(block) = 18
    BY <2>1 DEF Full
  <2>3. /\ Of(block[1]) /\ Of(block[2]) /\ Of(block[3])
        /\ Of(block[4]) /\ Of(block[5]) /\ Of(block[6])
    BY <2>1, <1>2, <1>3 DEF Full
  <2>4. /\ Of(block[7]) /\ Of(block[8]) /\ Of(block[9]) /\ Of(block[10]) /\ Of(block[11])
        /\ Of(block[12])
    BY <2>1, <1>2, <1>3 DEF Full
  <2>5. /\ Of(block[13]) /\ Of(block[14]) /\ Of(block[15]) /\ Of(block[16]) /\ Of(block[17])
        /\ Of(block[18])
    BY <2>1, <1>2, <1>3 DEF Full
  <2>6. \A i \in 1..18 : Of(block[i])
    <3>1. \A i \in 1..18 : \/ i = 1 \/ i = 2 \/ i = 3 \/ i = 4 \/ i = 5 \/ i = 6 \/ i = 7 \/ i = 8
                           \/ i = 9 \/ i = 10 \/ i = 11 \/ i = 12 \/ i = 13 \/ i = 14 \/ i = 15
                           \/ i = 16 \/ i = 17 \/ i = 18
      OBVIOUS
    <3> QED BY <3>1, <2>3, <2>4, <2>5
  <2>7. /\ \A i \in 1..18 : block[i] \in CmdT
        /\ \A i \in 1..18 : block[i].c[1] = key
        /\ \A i \in 1..18 : Sends(block[i])
    BY <2>6, Zenon DEF Of
  <2>8. block \in Seq(CmdT)
    <3>1. block = [i \in 1..18 |-> block[i]]
      BY <1>1, <2>2
    <3> HIDE DEF CmdT
    <3> QED BY <3>1, <2>7
  <2> HIDE DEF CmdT
  <2> HIDE DEF Sends
  <2>9. /\ block \in Seq(CmdT) /\ Len(block) = 18
        /\ \A i \in 1..Len(block) : block[i].c[1] = key
        /\ \A i \in 1..Len(block) : Sends(block[i])
    BY <2>2, <2>7, <2>8
  <2> QED BY <1>4, <2>9, Zenon DEF block, key, Sends
<1>5. CASE ~opts.keyframes
  <2>1. Plain(block, key)
    BY <1>1, <1>5
  <2>2. Len(block) = 12
    BY <2>1 DEF Plain
  <2>3. /\ Of(block[1]) /\ Of(block[2]) /\ Of(block[3])
        /\ Of(block[4]) /\ Of(block[5]) /\ Of(block[6])
    BY <2>1, <1>2, <1>3 DEF Plain
  <2>4. /\ Of(block[7]) /\ Of(block[8]) /\ Of(block[9]) /\ Of(block[10]) /\ Of(block[11])
        /\ Of(block[12])
    BY <2>1, <1>2, <1>3 DEF Plain
  <2>6. \A i \in 1..12 : Of(block[i])
    <3>1. \A i \in 1..12 : \/ i = 1 \/ i = 2 \/ i = 3 \/ i = 4 \/ i = 5 \/ i = 6 \/ i = 7 \/ i = 8
                           \/ i = 9 \/ i = 10 \/ i = 11 \/ i = 12
      OBVIOUS
    <3> QED BY <3>1, <2>3, <2>4
  <2>7. /\ \A i \in 1..12 : block[i] \in CmdT
        /\ \A i \in 1..12 : block[i].c[1] = key
        /\ \A i \in 1..12 : Sends(block[i])
    BY <2>6, Zenon DEF Of
  <2>8. block \in Seq(CmdT)
    <3>1. block = [i \in 1..12 |-> block[i]]
      BY <1>1, <2>2
    <3> HIDE DEF CmdT
    <3> QED BY <3>1, <2>7
  <2> HIDE DEF CmdT
  <2> HIDE DEF Sends
  <2>9. /\ block \in Seq(CmdT) /\ Len(block) = 12
        /\ \A i \in 1..Len(block) : block[i].c[1] = key
        /\ \A i \in 1..Len(block) : Sends(block[i])
    BY <2>2, <2>7, <2>8
  <2> QED BY <1>5, <2>9, Zenon DEF block, key, Sends
<1> QED BY <1>4, <1>5

\* The block stands in the commands behind place o, whatever of it is left,
\* and the keyer has no command elsewhere.
Stands(cmds, o, block, key) ==
    /\ \A j \in 1..Len(block) : o + j >= 1 => o + j <= Len(cmds) /\ cmds[o + j] = block[j]
    /\ \A i \in 1..Len(cmds) : cmds[i].c[1] = key => i - o \in 1..Len(block)

\* Different keyers are different places.
LEMMA KeysDiffer == \A m, k, q, l : Key(m, k) = Key(q, l) => m = q /\ k = l
  BY WhereParts

\* The keyers of an M/E
LEMMA OfItsKeyers ==
    ASSUME NEW m \in MEs, opts.keyframes \in BOOLEAN
    PROVE  /\ UpstreamKeyers(m) \in Seq(CmdT)
           /\ \E at : /\ \A k \in KeyerNos : k \in MeOpt(m).usk =>
                            /\ at[k] \in Nat
                            /\ at[k] + Len(UskBlock(m, k)) <= Len(UpstreamKeyers(m))
                            /\ \A j \in 1..Len(UskBlock(m, k)) :
                                  UpstreamKeyers(m)[at[k] + j] = UskBlock(m, k)[j]
                      /\ \A i \in 1..Len(UpstreamKeyers(m)) : \E k \in KeyerNos :
                            k \in MeOpt(m).usk /\ i - at[k] \in 1..Len(UskBlock(m, k))
<1> DEFINE usk == MeOpt(m).usk
           seqs == [i \in 1..2 |-> If(i - 1 \in usk, UskBlock(m, i - 1))]
           all == UpstreamKeyers(m)
<1>1. all = FlattenSeq(seqs)
  BY Zenon DEF UpstreamKeyers
<1>2. \A k \in KeyerNos : UskBlock(m, k) \in Seq(CmdT)
  BY BlockElements
<1> HIDE DEF CmdT, usk
<1>3. \A i \in 1..2 : i - 1 \in KeyerNos /\ i = (i - 1) + 1
  BY DEF KeyerNos
<1>4. \A k \in KeyerNos : k + 1 \in 1..2 /\ (k + 1) - 1 = k /\ k \in Int
  BY DEF KeyerNos
<1>5. \A i \in 1..2 : seqs[i] \in Seq(CmdT)
  BY <1>2, <1>3 DEF If
<1>6. seqs \in Seq(Seq(CmdT)) /\ Len(seqs) = 2
  <2>1. seqs = [i \in 1..2 |-> seqs[i]]
    OBVIOUS
  <2> HIDE DEF seqs
  <2> QED BY <1>5, <2>1
<1>7. \A k \in KeyerNos : seqs[k + 1] = If(k \in usk, UskBlock(m, k))
  BY <1>4
<1> HIDE DEF all, seqs
<1>8. all \in Seq(CmdT) /\ \E at : Pieces(at, seqs, all)
  BY <1>1, <1>6, Flattened
<1>9. PICK at : Pieces(at, seqs, all)
  BY <1>8
<1> DEFINE to == [k \in KeyerNos |-> at[k + 1]]
<1>10. ASSUME NEW k \in KeyerNos, k \in usk
       PROVE  /\ to[k] \in Nat /\ to[k] + Len(UskBlock(m, k)) <= Len(all)
              /\ \A j \in 1..Len(UskBlock(m, k)) : all[to[k] + j] = UskBlock(m, k)[j]
  <2>1. seqs[k + 1] = UskBlock(m, k) /\ to[k] = at[k + 1] /\ k + 1 \in 1..2
    BY <1>4, <1>7, <1>10 DEF If
  <2> HIDE DEF to
  <2> QED BY <2>1, <1>6, <1>9 DEF Pieces
<1>11. ASSUME NEW i \in 1..Len(all)
       PROVE  \E k \in KeyerNos : k \in usk /\ i - to[k] \in 1..Len(UskBlock(m, k))
  <2>1. PICK p \in 1..2 : i - at[p] \in 1..Len(seqs[p])
    BY <1>6, <1>9 DEF Pieces
  <2>2. PICK k \in KeyerNos : p = k + 1
    BY <1>3
  <2>3. k \in usk
    <3>1. k \notin usk => Len(seqs[p]) = 0
      BY <2>2, <1>7 DEF If
    <3>2. Len(seqs[p]) # 0
      BY <2>1
    <3> QED BY <3>1, <3>2
  <2>4. seqs[p] = UskBlock(m, k) /\ to[k] = at[p]
    BY <2>2, <2>3, <1>7 DEF If
  <2> HIDE DEF to
  <2> QED BY <2>1, <2>3, <2>4
<1> HIDE DEF to
<1>12. /\ all \in Seq(CmdT)
       /\ \E to_ : /\ \A k \in KeyerNos : k \in usk =>
                        /\ to_[k] \in Nat
                        /\ to_[k] + Len(UskBlock(m, k)) <= Len(all)
                        /\ \A j \in 1..Len(UskBlock(m, k)) : all[to_[k] + j] = UskBlock(m, k)[j]
                  /\ \A i \in 1..Len(all) : \E k \in KeyerNos :
                        k \in usk /\ i - to_[k] \in 1..Len(UskBlock(m, k))
  BY <1>8, <1>10, <1>11
<1> QED BY <1>12, Zenon DEF all, usk

\* The keyers' section: one block for each keyer asked for, standing somewhere
\* in the commands, and nothing else.
LEMMA KeyCommands ==
    ASSUME opts.keyframes \in BOOLEAN
    PROVE  LET all == CommandsOf("upstream_keyers") IN
           /\ all \in Seq(CmdT)
           /\ \A i \in 1..Len(all) : all[i].c[1] \in Keys
           /\ \A m \in MEs : \A k \in KeyerNos :
                 IF k \in MeOpt(m).usk /\ m < MeCount
                 THEN \E o \in Nat : Stands(all, o, UskBlock(m, k), Key(m, k))
                 ELSE \A i \in 1..Len(all) : all[i].c[1] # Key(m, k)
<1> DEFINE all == CommandsOf("upstream_keyers")
<1>1. \A m \in MEs : OfMe("upstream_keyers", m) = UpstreamKeyers(m)
  BY DEF OfMe
<1>2. /\ "upstream_keyers" \in MeSections
      /\ \A m \in MEs : OfMe("upstream_keyers", m) \in Seq(CmdT)
  BY <1>1, OfItsKeyers DEF MeSections
<1> HIDE DEF CmdT
<1>3. all \in Seq(CmdT)
  BY <1>2, OfEveryMe
<1>4. PICK at :
         /\ \A m \in MEs : m < MeCount =>
               /\ at[m] \in Nat /\ at[m] + Len(UpstreamKeyers(m)) <= Len(all)
               /\ \A j \in 1..Len(UpstreamKeyers(m)) : all[at[m] + j] = UpstreamKeyers(m)[j]
         /\ \A i \in 1..Len(all) :
               \E m \in MEs : m < MeCount /\ i - at[m] \in 1..Len(UpstreamKeyers(m))
  <2>1. \E at : /\ \A m \in MEs : m < MeCount =>
                      /\ at[m] \in Nat /\ at[m] + Len(OfMe("upstream_keyers", m)) <= Len(all)
                      /\ \A j \in 1..Len(OfMe("upstream_keyers", m)) :
                            all[at[m] + j] = OfMe("upstream_keyers", m)[j]
                /\ \A i \in 1..Len(all) :
                      \E m \in MEs : m < MeCount /\ i - at[m] \in 1..Len(OfMe("upstream_keyers", m))
    BY <1>2, OfEveryMe
  <2> HIDE DEF all
  <2> QED BY <2>1, <1>1
<1> DEFINE Of(m, to) ==
             /\ \A k \in KeyerNos : k \in MeOpt(m).usk =>
                   /\ to[k] \in Nat
                   /\ to[k] + Len(UskBlock(m, k)) <= Len(UpstreamKeyers(m))
                   /\ \A j \in 1..Len(UskBlock(m, k)) :
                         UpstreamKeyers(m)[to[k] + j] = UskBlock(m, k)[j]
             /\ \A i \in 1..Len(UpstreamKeyers(m)) : \E k \in KeyerNos :
                   k \in MeOpt(m).usk /\ i - to[k] \in 1..Len(UskBlock(m, k))
           off == [m \in MEs |-> CHOOSE to : Of(m, to)]
<1>5. \A m \in MEs : Of(m, off[m])
  <2>1. \A m \in MEs : \E to : Of(m, to)
    BY OfItsKeyers
  <2> HIDE DEF Of
  <2> QED BY <2>1
<1> DEFINE place(m, k) == at[m] + off[m][k]
           size(m, k) == Len(UskBlock(m, k))
<1>6. \A m \in MEs : \A k \in KeyerNos : size(m, k) \in Nat
  BY BlockElements
<1>7. \A m \in MEs : Len(UpstreamKeyers(m)) \in Nat
  BY <1>1, <1>2
<1> HIDE DEF all, off
<1>8. ASSUME NEW m \in MEs, NEW k \in KeyerNos, k \in MeOpt(m).usk, m < MeCount
      PROVE  /\ place(m, k) \in Nat /\ place(m, k) + size(m, k) <= Len(all)
             /\ \A j \in 1..size(m, k) : all[place(m, k) + j] = UskBlock(m, k)[j]
  <2>1. /\ at[m] \in Nat /\ at[m] + Len(UpstreamKeyers(m)) <= Len(all)
        /\ \A j \in 1..Len(UpstreamKeyers(m)) : all[at[m] + j] = UpstreamKeyers(m)[j]
    BY <1>4, <1>8
  <2>2. /\ off[m][k] \in Nat
        /\ off[m][k] + Len(UskBlock(m, k)) <= Len(UpstreamKeyers(m))
        /\ \A j \in 1..Len(UskBlock(m, k)) : UpstreamKeyers(m)[off[m][k] + j] = UskBlock(m, k)[j]
    BY <1>5, <1>8
  <2>3. ASSUME NEW j \in 1..size(m, k) PROVE all[place(m, k) + j] = UskBlock(m, k)[j]
    <3>1. off[m][k] + j \in 1..Len(UpstreamKeyers(m))
      BY <2>2, <1>6, <1>7
    <3>2. all[at[m] + (off[m][k] + j)] = UskBlock(m, k)[j]
      BY <3>1, <2>1, <2>2
    <3>3. at[m] + (off[m][k] + j) = place(m, k) + j
      BY <2>1, <2>2
    <3> QED BY <3>2, <3>3
  <2>4. place(m, k) \in Nat /\ place(m, k) + size(m, k) <= Len(all)
    <3>1. at[m] \in Nat /\ off[m][k] \in Nat /\ size(m, k) \in Nat /\ Len(all) \in Nat
          /\ Len(UpstreamKeyers(m)) \in Nat
      BY <2>1, <2>2, <1>3, <1>6, <1>7
    <3> QED BY <3>1, <2>1, <2>2
  <2> QED BY <2>3, <2>4
<1>9. ASSUME NEW i \in 1..Len(all)
      PROVE  \E m \in MEs : \E k \in KeyerNos :
                 k \in MeOpt(m).usk /\ m < MeCount /\ i - place(m, k) \in 1..size(m, k)
  <2>1. PICK m \in MEs : m < MeCount /\ i - at[m] \in 1..Len(UpstreamKeyers(m))
    BY <1>4
  <2>2. PICK k \in KeyerNos : k \in MeOpt(m).usk
                              /\ (i - at[m]) - off[m][k] \in 1..Len(UskBlock(m, k))
    BY <2>1, <1>5
  <2>3. at[m] \in Nat /\ off[m][k] \in Nat
    BY <2>1, <2>2, <1>4, <1>5
  <2>4. i - place(m, k) \in 1..size(m, k)
    BY <2>2, <2>3
  <2> QED BY <2>1, <2>2, <2>4
<1>10. ASSUME NEW i \in 1..Len(all)
       PROVE  \E m \in MEs : \E k \in KeyerNos :
                 /\ k \in MeOpt(m).usk /\ m < MeCount /\ i - place(m, k) \in 1..size(m, k)
                 /\ all[i].c[1] = Key(m, k)
  <2>1. PICK m \in MEs : \E k \in KeyerNos :
                 k \in MeOpt(m).usk /\ m < MeCount /\ i - place(m, k) \in 1..size(m, k)
    BY <1>9
  <2>2. PICK k \in KeyerNos :
                 k \in MeOpt(m).usk /\ m < MeCount /\ i - place(m, k) \in 1..size(m, k)
    BY <2>1
  <2>3. PICK j \in 1..size(m, k) : j = i - place(m, k)
    BY <2>2
  <2>4. place(m, k) \in Nat /\ all[place(m, k) + j] = UskBlock(m, k)[j]
    BY <2>2, <1>8
  <2>5. i = place(m, k) + j
    <3> HIDE DEF place
    <3> QED BY <2>3, <2>4, <1>6
  <2>6. all[i] = UskBlock(m, k)[j]
    BY <2>4, <2>5
  <2>7. UskBlock(m, k)[j].c[1] = Key(m, k)
    BY BlockElements
  <2> QED BY <2>2, <2>6, <2>7
<1> HIDE DEF place, size
<1>11. ASSUME NEW m \in MEs, NEW k \in KeyerNos, k \in MeOpt(m).usk, m < MeCount
       PROVE  Stands(all, place(m, k), UskBlock(m, k), Key(m, k))
  <2>1. ASSUME NEW i \in 1..Len(all), all[i].c[1] = Key(m, k)
        PROVE  i - place(m, k) \in 1..size(m, k)
    <3>1. PICK q \in MEs : \E l \in KeyerNos :
             i - place(q, l) \in 1..size(q, l) /\ all[i].c[1] = Key(q, l)
      BY <1>10
    <3>2. PICK l \in KeyerNos : i - place(q, l) \in 1..size(q, l) /\ all[i].c[1] = Key(q, l)
      BY <3>1
    <3>3. q = m /\ l = k
      BY <2>1, <3>2, KeysDiffer
    <3> QED BY <3>2, <3>3
  <2>2. ASSUME NEW j \in 1..size(m, k)
        PROVE  place(m, k) + j <= Len(all) /\ all[place(m, k) + j] = UskBlock(m, k)[j]
    BY <1>3, <1>6, <1>8, <1>11
  <2> QED BY <2>1, <2>2 DEF Stands, size
<1>12. ASSUME NEW m \in MEs, NEW k \in KeyerNos, ~(k \in MeOpt(m).usk /\ m < MeCount),
              NEW i \in 1..Len(all)
       PROVE  all[i].c[1] # Key(m, k)
  <2>1. PICK q \in MEs : \E l \in KeyerNos :
           l \in MeOpt(q).usk /\ q < MeCount /\ all[i].c[1] = Key(q, l)
    BY <1>10
  <2>2. PICK l \in KeyerNos : l \in MeOpt(q).usk /\ q < MeCount /\ all[i].c[1] = Key(q, l)
    BY <2>1
  <2> QED BY <2>2, <1>12, KeysDiffer
<1>13. \A i \in 1..Len(all) : all[i].c[1] \in Keys
  BY <1>10 DEF Keys
<1>14. \A m \in MEs : \A k \in KeyerNos :
          k \in MeOpt(m).usk /\ m < MeCount => place(m, k) \in Nat
  BY <1>8
<1> QED BY <1>3, <1>11, <1>12, <1>13, <1>14 DEF all

\* The controls that take one command each
Singles    == OfSwitcher \cup OfMes
Reached(c) == c[1] = All \/ (Selected(c) /\ c[1][2] < MeCount)

\* Sections are for the switcher, by M/E, or the keyers'.
LEMMA SeveralSections ==
    /\ \A p \in {1, 2, 3, 4, 5, 8, 10, 11, 12, 13} : Sections[p] \in Several
    /\ \A p \in {6, 9, 14} : Sections[p] \in ByMe
    /\ \A p \in 1..14 : p = 7 \/ p \in {6, 9, 14} \/ p \in {1, 2, 3, 4, 5, 8, 10, 11, 12, 13}
<1>1. \A p \in {1, 2, 3, 4, 5, 8, 10, 11, 12, 13} : Sections[p] \in Several
  BY SectionsAre DEF Several
<1>2. \A p \in {6, 9, 14} : Sections[p] \in ByMe
  BY SectionsAre DEF ByMe
<1> QED BY <1>1, <1>2

\* No section is of two kinds.
LEMMA SeveralOnly ==
    /\ Several \cap MeSections = {} /\ ByMe \subseteq MeSections
    /\ MeSections = ByMe \cup {"upstream_keyers"} /\ "upstream_keyers" \notin ByMe
  BY DEF Several, MeSections, ByMe

\* No control that takes one command is of the keyers' section.
LEMMA SingleStages ==
    ASSUME NEW c \in Singles
    PROVE  Stage(c) \in 1..14 /\ Stage(c) # 7
<1>1. CASE c \in OfSwitcher
  <2>1. PICK n \in SwitcherNames : c = Ctl(All, n)
    BY <1>1 DEF OfSwitcher
  <2>2. Stage(c) \in {1, 2, 3, 4, 5, 8, 10, 11, 12, 13}
    BY <2>1, StageOfSwitcher
  <2> QED BY <2>2
<1>2. CASE c \in OfMes
  <2>1. PICK m \in MEs, n \in MeNames : c = Ctl(Me(m), n)
    BY <1>2 DEF OfMes
  <2>2. Stage(c) \in {6, 9, 14}
    BY <2>1, StageOfMe
  <2> QED BY <2>2
<1> QED BY <1>1, <1>2 DEF Singles

\* Every keyer's control is of the keyers' section.
LEMMA KeyStages ==
    /\ \A c : c \in OfKeys => Stage(c) = 7 /\ c[1] \in Keys
    /\ \A c : c[1] \in Keys => Stage(c) = 7
<1>1. \A m, k, c : c[1] = Key(m, k) => Stage(c) = 7
  BY WhereParts, WheresDiffer DEF Stage
<1>2. \A c : c[1] \in Keys => Stage(c) = 7
  BY <1>1 DEF Keys
<1>3. ASSUME NEW c \in OfKeys PROVE c[1] \in Keys
  BY CtlParts DEF OfKeys, Keys
<1> QED BY <1>2, <1>3

\* The commands of a section other than the keyers': exactly what it reaches.
LEMMA SectionCommands ==
    ASSUME NEW p \in 1..14, p # 7
    PROVE  LET all == CommandsOf(Sections[p]) IN
           /\ all \in Seq(CmdT)
           /\ \A i \in 1..Len(all) : /\ all[i].val = "saved" /\ all[i].c \in Singles
                                     /\ Stage(all[i].c) = p /\ Reached(all[i].c)
           /\ \A c \in Singles : Stage(c) = p /\ Reached(c) =>
                 \E i \in 1..Len(all) : all[i].c = c
<1> DEFINE s == Sections[p]
           all == CommandsOf(s)
<1>1. CASE p \in {1, 2, 3, 4, 5, 8, 10, 11, 12, 13}
  <2>1. s \in Several
    BY <1>1, SeveralSections
  <2>2. all = OfAll(s)
    BY <2>1, SeveralOnly, Zenon DEF CommandsOf
  <2>3. Saves(all, All, NamesOf(s))
    BY <2>1, <2>2, OfAllSaves
  <2> HIDE DEF all
  <2>4. ASSUME NEW i \in 1..Len(all)
        PROVE  /\ all[i].val = "saved" /\ all[i].c \in Singles
               /\ Stage(all[i].c) = p /\ Reached(all[i].c)
    <3>1. PICK n \in NamesOf(s) : all[i] = Cmd(Ctl(All, n), "saved")
      BY <2>3 DEF Saves
    <3>2. all[i].val = "saved" /\ all[i].c = Ctl(All, n) /\ all[i].c[1] = All
      BY <3>1, CmdParts, CtlParts
    <3>3. n \in SwitcherNames
      <4>1. NamesOf(s) \subseteq SwitcherNames
        BY <2>1 DEF NamesOf, Several, SwitcherNames
      <4> QED BY <4>1
    <3>4. Stage(Ctl(All, n)) = p
      BY <1>1, <3>3, StageOfSwitcher
    <3>5. Ctl(All, n) \in Singles
      BY <3>3 DEF Singles, OfSwitcher
    <3> QED BY <3>2, <3>4, <3>5 DEF Reached
  <2>5. ASSUME NEW c \in Singles, Stage(c) = p
        PROVE  \E i \in 1..Len(all) : all[i].c = c
    <3>1. c \notin OfMes
      <4>1. \A m, n : n \in MeNames => Stage(Ctl(Me(m), n)) \in {6, 9, 14}
        BY StageOfMe
      <4> QED BY <1>1, <2>5, <4>1 DEF OfMes
    <3>2. PICK n \in SwitcherNames : c = Ctl(All, n)
      BY <3>1 DEF Singles, OfSwitcher
    <3>3. n \in NamesOf(s)
      BY <1>1, <2>5, <3>2, StageOfSwitcher
    <3>4. PICK i \in 1..Len(all) : all[i] = Cmd(Ctl(All, n), "saved")
      BY <2>3, <3>3 DEF Saves
    <3> QED BY <3>2, <3>4, CmdParts
  <2> QED BY <2>3, <2>4, <2>5 DEF Saves, all
<1>2. CASE p \in {6, 9, 14}
  <2>1. s \in ByMe
    BY <1>2, SeveralSections
  <2>2. /\ all \in Seq(CmdT)
        /\ \A i \in 1..Len(all) :
                 \E m \in MEs : \E n \in MeNamesOf(s, m) :
                     m < MeCount /\ all[i] = Cmd(Ctl(Me(m), n), "saved")
        /\ \A m \in MEs : m < MeCount =>
                 \A n \in MeNamesOf(s, m) : \E i \in 1..Len(all) :
                     all[i] = Cmd(Ctl(Me(m), n), "saved")
    BY <2>1, ByMeCommands
  <2> HIDE DEF all, s
  <2>3. s = Sections[p]
    BY DEF s
  <2>4. ASSUME NEW i \in 1..Len(all)
        PROVE  /\ all[i].val = "saved" /\ all[i].c \in Singles
               /\ Stage(all[i].c) = p /\ Reached(all[i].c)
    <3>1. PICK m \in MEs : \E n \in MeNamesOf(s, m) :
                     m < MeCount /\ all[i] = Cmd(Ctl(Me(m), n), "saved")
      BY <2>2
    <3>2. PICK n \in MeNamesOf(s, m) : m < MeCount /\ all[i] = Cmd(Ctl(Me(m), n), "saved")
      BY <3>1
    <3>3. all[i].val = "saved" /\ all[i].c = Ctl(Me(m), n) /\ all[i].c[1] = Me(m)
      BY <3>2, CmdParts, CtlParts
    <3>4. n \in NamesByMe(s) /\ n \in MeNames
      BY <2>1, MeNamesWithin
    <3>5. Stage(Ctl(Me(m), n)) = p
      BY <1>2, <2>3, <3>4, StageOfMe
    <3>6. Selected(Ctl(Me(m), n))
      BY <2>1, <3>4, SelectedOfMe
    <3>7. Ctl(Me(m), n) \in Singles
      BY <3>4 DEF Singles, OfMes
    <3> QED BY <3>2, <3>3, <3>5, <3>6, <3>7, WhereParts DEF Reached
  <2>5. ASSUME NEW c \in Singles, Stage(c) = p, Reached(c)
        PROVE  \E i \in 1..Len(all) : all[i].c = c
    <3>1. c \notin OfSwitcher
      <4>1. \A n \in SwitcherNames : Stage(Ctl(All, n)) \in {1, 2, 3, 4, 5, 8, 10, 11, 12, 13}
        BY StageOfSwitcher
      <4> QED BY <1>2, <2>5, <4>1 DEF OfSwitcher
    <3>2. PICK m \in MEs, n \in MeNames : c = Ctl(Me(m), n)
      BY <3>1 DEF Singles, OfMes
    <3>3. n \in NamesByMe(s)
      BY <1>2, <2>3, <2>5, <3>2, StageOfMe
    <3>4. Selected(c) /\ m < MeCount
      BY <2>5, <3>2, CtlParts, WhereParts, WheresDiffer DEF Reached
    <3>5. n \in MeNamesOf(s, m)
      BY <2>1, <3>2, <3>3, <3>4, SelectedOfMe
    <3>6. PICK i \in 1..Len(all) : all[i] = Cmd(Ctl(Me(m), n), "saved")
      BY <2>2, <3>4, <3>5
    <3> QED BY <3>2, <3>6, CmdParts
  <2> QED BY <2>2, <2>4, <2>5 DEF all, s
<1> QED BY <1>1, <1>2, SeveralSections

\* What OptionsByName says of the options at work
LEMMA OptionsAre ==
    ASSUME opts \in Options
    PROVE  /\ opts.keyframes \in BOOLEAN
           /\ opts.on \subseteq Several
           /\ opts.mes \in Seq([flags : SUBSET {"program", "preview", "next", "style", "ftb"},
                                usk : SUBSET KeyerNos])
<1>1. opts.on \subseteq Range(Sections) \ MeSections
  BY OptionsByName
<1>2. \A s \in Range(Sections) : \E p \in 1..14 : s = Sections[p]
  BY SectionsAre DEF Range, Sections
<1>3. Sections[7] \in MeSections
  BY SectionsAre DEF MeSections
<1>4. ASSUME NEW s \in Range(Sections) \ MeSections PROVE s \in Several
  <2>1. PICK p \in 1..14 : s = Sections[p]
    BY <1>2
  <2> QED BY <2>1, <1>3, SeveralSections, SeveralOnly
<1>5. opts.on \subseteq Several
  BY <1>1, <1>4
<1> QED BY <1>5, OptionsByName

\* What the options say of an M/E
LEMMA MeOptIs ==
    ASSUME opts \in Options, NEW m \in MEs
    PROVE  \/ \E i \in DOMAIN opts.mes : MeOpt(m) = opts.mes[i]
           \/ MeOpt(m).flags = {} /\ MeOpt(m).usk = {}
<1> DEFINE S == [flags : SUBSET {"program", "preview", "next", "style", "ftb"},
                 usk : SUBSET KeyerNos]
<1>1. opts.mes \in Seq(S) /\ m \in Nat
  BY OptionsAre, ProfileBounds DEF MEs
<1> HIDE DEF S
<1>2. CASE m < Len(opts.mes)
  <2>1. m + 1 \in DOMAIN opts.mes /\ MeOpt(m) = opts.mes[m + 1]
    BY <1>1, <1>2 DEF MeOpt
  <2> QED BY <2>1
<1>3. CASE ~(m < Len(opts.mes))
  BY <1>3 DEF MeOpt
<1> QED BY <1>2, <1>3

\* A control of the switcher is asked for with its section
LEMMA SwitcherGate ==
    ASSUME opts \in Options, NEW c \in OfSwitcher
    PROVE  /\ Selected(c) <=> Sections[Stage(c)] \in opts.on
           /\ GatedOn(Sections[Stage(c)]) <=> Sections[Stage(c)] \in opts.on
<1>1. PICK n \in SwitcherNames : c = Ctl(All, n)
  BY DEF OfSwitcher
<1> DEFINE p == Stage(c)
           Q == {1, 2, 3, 4, 5, 8, 10, 11, 12, 13}
<1>2. p \in Q /\ \A q \in Q : p = q <=> n \in NamesOf(Sections[q])
  BY <1>1, StageOfSwitcher
<1>3. \A q \in Q : Sections[q] \in Several
  BY SeveralSections
<1>4. \A s \in Several : \E q \in Q : s = Sections[q]
  BY SectionsAre DEF Several
<1>5. opts.on \subseteq Several
  BY OptionsAre
<1>6. c[1] = All
  BY <1>1, CtlParts
<1>7. Selected(c) <=> \E s \in opts.on : \E i \in DOMAIN OfAll(s) : OfAll(s)[i].c = c
  BY <1>6, Zenon DEF Selected
<1>8. ASSUME NEW s \in Several
      PROVE  (\E i \in DOMAIN OfAll(s) : OfAll(s)[i].c = c) <=> s = Sections[p]
  <2>1. Saves(OfAll(s), All, NamesOf(s))
    BY OfAllSaves
  <2> DEFINE all == OfAll(s)
  <2>2. all \in Seq(CmdT)
    BY <2>1 DEF Saves
  <2>3. DOMAIN all = 1..Len(all)
    <3> HIDE DEF CmdT, all
    <3> QED BY <2>2
  <2>4. (\E i \in 1..Len(all) : all[i].c = c) <=> n \in NamesOf(s)
    <3>1. ASSUME n \in NamesOf(s) PROVE \E i \in 1..Len(all) : all[i].c = c
      <4>1. PICK i \in 1..Len(all) : all[i] = Cmd(Ctl(All, n), "saved")
        BY <2>1, <3>1 DEF Saves
      <4> QED BY <4>1, <1>1, CmdParts
    <3>2. ASSUME NEW i \in 1..Len(all), all[i].c = c PROVE n \in NamesOf(s)
      <4>1. PICK q \in NamesOf(s) : all[i] = Cmd(Ctl(All, q), "saved")
        BY <2>1 DEF Saves
      <4>2. Ctl(All, q) = Ctl(All, n)
        BY <4>1, <3>2, <1>1, CmdParts
      <4>3. q = n
        BY <4>2, CtlParts
      <4> QED BY <4>3
    <3> QED BY <3>1, <3>2
  <2>5. n \in NamesOf(s) <=> s = Sections[p]
    <3>1. PICK q \in Q : s = Sections[q]
      BY <1>4
    <3>2. \A a \in Q, b \in Q : Sections[a] = Sections[b] => a = b
      BY SectionsAre
    <3> HIDE DEF p, Q
    <3> QED BY <3>1, <3>2, <1>2
  <2> QED BY <2>3, <2>4, <2>5
<1>9. Selected(c) <=> Sections[p] \in opts.on
  <2> HIDE DEF p
  <2> QED BY <1>5, <1>7, <1>8
<1>10. GatedOn(Sections[p]) <=> Sections[p] \in opts.on
  <2>1. Sections[p] \in Several
    BY <1>2, <1>3
  <2>2. ASSUME NEW s \in Several PROVE GatedOn(s) <=> s \in opts.on
    BY DEF GatedOn, Several
  <2> HIDE DEF p
  <2> QED BY <2>1, <2>2
<1> QED BY <1>9, <1>10

\* What is gated off is not asked for
LEMMA GateOff ==
    ASSUME opts \in Options, NEW c \in Everything, ~GatedOn(Sections[Stage(c)])
    PROVE  ~Selected(c)
<1>1. CASE c \in OfSwitcher
  BY <1>1, SwitcherGate
<1>2. CASE c \in OfMes
  <2>1. PICK m \in MEs, n \in MeNames : c = Ctl(Me(m), n)
    BY <1>2 DEF OfMes
  <2> DEFINE f == CASE n \in {"style", "parameters"} -> "style"
                    [] n = "ftb_rate" -> "ftb"
                    [] OTHER -> n
  <2>2. Selected(c) <=> f \in MeOpt(m).flags
    BY <2>1, CtlParts, WhereParts, WheresDiffer DEF Selected
  <2>3. f \in MeOpt(m).flags => AnyMe(f)
    <3> HIDE DEF f
    <3> QED BY MeOptIs DEF AnyMe
  <2>4. Stage(c) \in {6, 9, 14}
        /\ \A p \in {6, 9, 14} : Stage(c) = p <=> n \in NamesByMe(Sections[p])
    BY <2>1, StageOfMe
  <2>5. CASE Stage(c) = 6
    <3>1. n \in NamesByMe("transition") /\ ~GatedOn("transition")
      BY <2>4, <2>5, SectionsAre
    <3>2. ~AnyMe("next") /\ ~AnyMe("style")
      BY <3>1 DEF GatedOn
    <3>3. f \in {"next", "style"}
      BY <3>1 DEF NamesByMe
    <3> QED BY <3>2, <3>3, <2>2, <2>3
  <2>6. CASE Stage(c) = 9
    <3>1. n \in NamesByMe("fade_to_black") /\ ~GatedOn("fade_to_black")
      BY <2>4, <2>6, SectionsAre
    <3>2. ~AnyMe("ftb")
      BY <3>1 DEF GatedOn
    <3>3. f = "ftb"
      BY <3>1 DEF NamesByMe
    <3> QED BY <3>2, <3>3, <2>2, <2>3
  <2>7. CASE Stage(c) = 14
    <3>1. n \in NamesByMe("program_preview") /\ ~GatedOn("program_preview")
      BY <2>4, <2>7, SectionsAre
    <3>2. ~AnyMe("program") /\ ~AnyMe("preview")
      BY <3>1 DEF GatedOn
    <3>3. f \in {"program", "preview"}
      BY <3>1 DEF NamesByMe
    <3> QED BY <3>2, <3>3, <2>2, <2>3
  <2> QED BY <2>4, <2>5, <2>6, <2>7
<1>3. CASE c \in OfKeys
  <2>1. PICK m \in MEs, k \in KeyerNos, n \in KeyNames : c = Ctl(Key(m, k), n)
    BY <1>3 DEF OfKeys
  <2>2. Selected(c) <=> k \in MeOpt(m).usk
    BY <2>1, CtlParts, WhereParts, WheresDiffer DEF Selected
  <2>3. ~GatedOn("upstream_keyers")
    BY <1>3, KeyStages, SectionsAre
  <2>4. \A i \in DOMAIN opts.mes : opts.mes[i].usk = {}
    BY <2>3 DEF GatedOn
  <2> QED BY <2>2, <2>4, MeOptIs
<1> QED BY <1>1, <1>2, <1>3, EverythingIs

\* The section that an M/E's control is passed over with is its own.
LEMMA SectionOfStage ==
    ASSUME NEW c \in Everything, c[1] # All
    PROVE  /\ SectionOf(c) = Sections[Stage(c)] /\ c[1][2] \in MEs /\ Stage(c) \in {6, 7, 9, 14}
           /\ Sections[Stage(c)] \in MeSections
<1>1. c \notin OfSwitcher
  BY CtlParts DEF OfSwitcher
<1>2. CASE c \in OfMes
  <2>1. PICK m \in MEs, n \in MeNames : c = Ctl(Me(m), n)
    BY <1>2 DEF OfMes
  <2>2. c[1][1] = "me" /\ c[2] = n /\ c[1][2] = m
    BY <2>1, CtlParts, WhereParts
  <2>3. Stage(c) \in {6, 9, 14}
        /\ \A p \in {6, 9, 14} : Stage(c) = p <=> n \in NamesByMe(Sections[p])
    BY <2>1, StageOfMe
  <2>4. CASE Stage(c) = 6
    <3>1. n \in NamesByMe("transition")
      BY <2>3, <2>4, SectionsAre
    <3>2. SectionOf(c) = "transition"
      BY <2>2, <3>1 DEF SectionOf, NamesByMe
    <3> QED BY <2>2, <2>4, <3>2, SectionsAre DEF MeSections
  <2>5. CASE Stage(c) = 9
    <3>1. n \in NamesByMe("fade_to_black")
      BY <2>3, <2>5, SectionsAre
    <3>2. SectionOf(c) = "fade_to_black"
      BY <2>2, <3>1 DEF SectionOf, NamesByMe
    <3> QED BY <2>2, <2>5, <3>2, SectionsAre DEF MeSections
  <2>6. CASE Stage(c) = 14
    <3>1. n \in NamesByMe("program_preview")
      BY <2>3, <2>6, SectionsAre
    <3>2. SectionOf(c) = "program_preview"
      BY <2>2, <3>1 DEF SectionOf, NamesByMe
    <3> QED BY <2>2, <2>6, <3>2, SectionsAre DEF MeSections
  <2> QED BY <2>3, <2>4, <2>5, <2>6
<1>3. CASE c \in OfKeys
  <2>1. PICK m \in MEs, k \in KeyerNos, n \in KeyNames : c = Ctl(Key(m, k), n)
    BY <1>3 DEF OfKeys
  <2>2. c[1][1] = "key" /\ c[1][2] = m /\ c[2] = n
    BY <2>1, CtlParts, WhereParts
  <2>3. SectionOf(c) = "upstream_keyers"
    <3>1. n \notin {"ftb_rate", "preview", "program"}
      BY DEF KeyNames
    <3> QED BY <2>2, <3>1 DEF SectionOf
  <2> QED BY <2>2, <2>3, <1>3, KeyStages, SectionsAre DEF MeSections
<1> QED BY <1>1, <1>2, <1>3, EverythingIs

-----------------------------------------------------------------------------
(* The invariant of apply() and of what it sent.                           *)

\* What the switcher is still to get and in which order: what is on its way,
\* and behind it what the section at work has left.
Out         == outbox \o run.cmds
OnItsWay(c) == \E i \in 1..Len(Out) : Out[i].c = c
\* A control of a section to come; commands that were noted as failed or lost
Future(c)   == Stage(c) >= run.next
Faults      == run.errors \cup lost
Failed(key) == \E e \in Faults : e[1] = key

\* A record of the fields of run
Shaped(r) == r = [next |-> r.next, at |-> r.at, cmds |-> r.cmds, errors |-> r.errors,
                  skipped |-> r.skipped, passed |-> r.passed, raised |-> r.raised]

\* A command as the sections make them
Sound(cmd) == \/ cmd.c \in Singles /\ cmd.val = "saved"
              \/ cmd.c[1] \in Keys

\* Types; the commands left are of the section at work, the others of earlier
\* ones, in the order of the sections.
RunTypes ==
    /\ opts \in Options
    /\ run.next \in 1..15
    /\ Shaped(run)
    /\ outbox \in Seq(CmdT) /\ run.cmds \in Seq(CmdT)
    /\ Working => run.next > 1 /\ run.at = Sections[run.next - 1]
    /\ ~Working => run.cmds = <<>>
    /\ \A i \in 1..Len(run.cmds) : Stage(run.cmds[i].c) = run.next - 1
    /\ \A i \in 1..Len(Out) : Sound(Out[i]) /\ Stage(Out[i].c) < run.next
    /\ \A i, j \in 1..Len(Out) : i < j => Stage(Out[i].c) <= Stage(Out[j].c)
    /\ \A x \in run.passed : \E n \in 1..14 : n < run.next /\ x[1] = Sections[n]

\* What comes later is untouched.
FutureInv == \A c \in Everything : Future(c) => Held(c) = "before"

\* A control that takes one command, once its section began: what is on its way
\* is due, and what is due is on its way, done or excused.
SingleOut(c) ==
    /\ OnItsWay(c) => Due(c)
    /\ Due(c) => OnItsWay(c) \/ Held(c) = "saved" \/ Excused(c)
    /\ ~Due(c) => Held(c) = "before"
SinglesInv == \A c \in Singles : ~Future(c) => SingleOut(c)

\* A keyer after the first p commands of its block: the live geometry goes
\* through both keyframes before it is the profile's.
Live(key) == [n \in KeyNames |-> Held(Ctl(key, n))]
KeyAt(st, p, frames) ==
    LET s == IF frames THEN 6 ELSE 0
    IN  /\ p >= 1 => st["type"] = "saved"
        /\ p >= 2 => st["sources"] = "saved"
        /\ p >= 3 => st["on_air"] = "saved"
        /\ p >= 4 => st["mask"] = "saved"
        /\ p >= 5 => st["luma"] = "saved"
        /\ p >= 6 => st["pattern"] = "saved"
        /\ frames => /\ p \in 7..9 => st["fly"] = "A"
                     /\ p \in 8..10 => st["dve"] = "A"
                     /\ p >= 9 => st["kfA"] = "A"
                     /\ p \in 10..16 => st["fly"] = "B"
                     /\ p \in 11..12 => st["dve"] = "B"
                     /\ p >= 12 => st["kfB"] = "B"
        /\ ~frames => st["kfA"] = "before" /\ st["kfB"] = "before"
        /\ p >= s + 7 => st["dve"] = "saved"
        /\ p >= s + 8 => st["chroma"] = "saved"
        /\ p >= s + 9 => st["cursor"] = "saved"
        /\ p >= s + 10 => st["colour"] = "saved"
        /\ p >= s + 11 => st["fly"] = "saved"
        /\ p >= s + 12 => st["rate"] = "saved"

KeyDue(m, k) == /\ k \in MeOpt(m).usk /\ m < LiveMEs
                /\ <<"upstream_keyers", m>> \notin run.passed
\* How much of a block behind place o is done
Done(o) == IF o >= 0 THEN 0 ELSE -o

\* A keyer whose commands all got through so far: what is on its way is the rest
\* of its block, and nothing else of it.
KeyOut(m, k) ==
    IF KeyDue(m, k)
    THEN \/ Failed(Key(m, k))
         \/ \E o \in Int :
               /\ o + Len(UskBlock(m, k)) >= 0
               /\ Stands(Out, o, UskBlock(m, k), Key(m, k))
               /\ KeyAt(Live(Key(m, k)), Done(o), opts.keyframes)
    ELSE /\ \A i \in 1..Len(Out) : Out[i].c[1] # Key(m, k)
         /\ \A n \in KeyNames : Held(Ctl(Key(m, k), n)) = "before"
KeysInv == run.next >= 8 => \A m \in MEs : \A k \in KeyerNos : KeyOut(m, k)

ApplyInv == RunTypes /\ FutureInv /\ SinglesInv /\ KeysInv

-----------------------------------------------------------------------------
\* What the switcher has when one control was set
LEMMA WithHeld ==
    ASSUME NEW c, NEW v, switcher' = With(switcher, c, v)
    PROVE  \A d : Held(d)' = IF d = c THEN v ELSE Held(d)
  BY DEF With, Held

\* apply() does not change its options.
LEMMA SelectedKept ==
    ASSUME opts' = opts, NEW c
    PROVE  Selected(c)' <=> Selected(c)
  BY DEF Selected, MeOpt

\* What is due stays due while no M/E is passed over.
LEMMA DueKept ==
    ASSUME opts' = opts, run'.passed = run.passed, NEW c
    PROVE  (Due(c)' <=> Due(c)) /\ Expected(c)' = Expected(c)
<1>1. Due(c)' <=> Due(c)
  BY SelectedKept DEF Due, PassedOver
<1>2. Wanted(c)' = Wanted(c)
  BY DEF Wanted
<1> QED BY <1>1, <1>2 DEF Expected

\* A fault is not taken back.
LEMMA ExcusedKept ==
    ASSUME Faults \subseteq Faults', run.skipped \subseteq run'.skipped, NEW c, Excused(c)
    PROVE  Excused(c)'
  BY DEF Excused, Faults

\* A control that takes one command takes the profile's value.
LEMMA SingleWanted ==
    ASSUME NEW c \in Singles
    PROVE  /\ Wanted(c) = "saved" /\ c \in Everything /\ c[1] \notin Keys
           /\ c[2] # "cursor" /\ c[2] # "snapshot" /\ c \notin OfKeys
<1>1. CASE c \in OfSwitcher
  <2>1. PICK n \in SwitcherNames : c = Ctl(All, n)
    BY <1>1 DEF OfSwitcher
  <2>2. n # "kfA" /\ n # "kfB" /\ n # "cursor" /\ n # "snapshot"
    BY DEF SwitcherNames
  <2>3. c[1] = All /\ c[2] = n
    BY <2>1, CtlParts
  <2>4. c[1] \notin Keys
    BY <2>3, WheresDiffer DEF Keys
  <2> QED BY <2>2, <2>3, <2>4, <1>1, EverythingIs, KeyStages DEF Wanted, Keyframe
<1>2. CASE c \in OfMes
  <2>1. PICK m \in MEs, n \in MeNames : c = Ctl(Me(m), n)
    BY <1>2 DEF OfMes
  <2>2. n # "kfA" /\ n # "kfB" /\ n # "cursor" /\ n # "snapshot"
    BY DEF MeNames
  <2>3. c[1] = Me(m) /\ c[2] = n
    BY <2>1, CtlParts
  <2>4. c[1] \notin Keys
    BY <2>3, WheresDiffer DEF Keys
  <2> QED BY <2>2, <2>3, <2>4, <1>2, EverythingIs, KeyStages DEF Wanted, Keyframe
<1> QED BY <1>1, <1>2 DEF Singles

\* Every control takes one command or is a keyer's.
LEMMA KindsOfControl == \A c \in Everything : c \in Singles \/ c \in OfKeys
  BY EverythingIs DEF Singles

\* Every control has a section.
LEMMA StagesInRange == \A c \in Everything : Stage(c) \in 1..14
  BY KindsOfControl, SingleStages, KeyStages

\* A sequence without its j-th element
Without(r, q, j) ==
    /\ Len(r) = Len(q) - 1
    /\ \A i \in 1..Len(r) : r[i] = IF i < j THEN q[i] ELSE q[i + 1]

\* The tail of a sequence
LEMMA TailIs ==
    ASSUME NEW S, NEW q \in Seq(S), q # <<>>
    PROVE  /\ Tail(q) \in Seq(S) /\ Len(q) \in Nat \ {0} /\ Len(Tail(q)) = Len(q) - 1
           /\ Head(q) = q[1] /\ Head(q) \in S
           /\ \A i \in 1..Len(Tail(q)) : Tail(q)[i] = q[i + 1]
OBVIOUS

\* The first of two sequences moves to the end of the other.
LEMMA HeadMoves ==
    ASSUME NEW S, NEW p \in Seq(S), NEW q \in Seq(S), q # <<>>
    PROVE  Append(p, Head(q)) \o Tail(q) = p \o q /\ Append(p, Head(q)) \in Seq(S)
<1> DEFINE h == Head(q)
           t == Tail(q)
           a == Append(p, h)
<1>1. /\ t \in Seq(S) /\ Len(q) \in Nat \ {0} /\ Len(t) = Len(q) - 1 /\ h = q[1] /\ h \in S
      /\ \A i \in 1..Len(t) : t[i] = q[i + 1]
  BY TailIs
<1> HIDE DEF h, t
<1>2. /\ a \in Seq(S) /\ Len(a) = Len(p) + 1 /\ Len(p) \in Nat
      /\ \A i \in 1..Len(p) : a[i] = p[i]
      /\ a[Len(p) + 1] = h
  BY <1>1
<1> HIDE DEF a
<1>3. /\ a \o t \in Seq(S) /\ Len(a \o t) = Len(a) + Len(t)
      /\ \A i \in 1..Len(a) + Len(t) : (a \o t)[i] = IF i <= Len(a) THEN a[i] ELSE t[i - Len(a)]
  BY <1>1, <1>2, JoinedAt
<1>4. /\ p \o q \in Seq(S) /\ Len(p \o q) = Len(p) + Len(q)
      /\ \A i \in 1..Len(p) + Len(q) : (p \o q)[i] = IF i <= Len(p) THEN p[i] ELSE q[i - Len(p)]
  BY JoinedAt
<1>5. Len(a \o t) = Len(p \o q)
  BY <1>1, <1>2, <1>3, <1>4
<1>6. ASSUME NEW i \in 1..Len(p \o q) PROVE (a \o t)[i] = (p \o q)[i]
  <2>1. i \in 1..Len(p) + Len(q) /\ i \in 1..Len(a) + Len(t)
    BY <1>3, <1>4, <1>5
  <2>2. CASE i <= Len(p)
    BY <2>1, <2>2, <1>2, <1>3, <1>4
  <2>3. CASE i = Len(p) + 1
    BY <2>1, <2>3, <1>1, <1>2, <1>3, <1>4
  <2>4. CASE i > Len(p) + 1
    <3>1. i - Len(a) \in 1..Len(t) /\ i - Len(a) + 1 = i - Len(p)
      BY <2>1, <2>4, <1>1, <1>2
    <3>2. (a \o t)[i] = t[i - Len(a)] /\ (p \o q)[i] = q[i - Len(p)]
      BY <2>1, <2>4, <1>2, <1>3, <1>4
    <3> QED BY <3>1, <3>2, <1>1
  <2> QED BY <2>1, <2>2, <2>3, <2>4, <1>2
<1>7. a \o t = p \o q
  <2>1. PICK u \in Seq(S), v \in Seq(S) : u = a \o t /\ v = p \o q
    BY <1>3, <1>4
  <2>2. Len(u) = Len(v) /\ \A i \in 1..Len(v) : u[i] = v[i]
    BY <2>1, <1>5, <1>6
  <2>3. u = v
    BY <2>2
  <2> QED BY <2>1, <2>3
<1> QED BY <1>2, <1>7 DEF a, h, t

\* Out of two sequences the first element goes, or the first of the second.
LEMMA HeadGoes ==
    ASSUME NEW S, NEW p \in Seq(S), NEW q \in Seq(S), p # <<>>
    PROVE  /\ 1 \in 1..Len(p \o q) /\ (p \o q)[1] = Head(p)
           /\ Without(Tail(p) \o q, p \o q, 1)
<1> DEFINE t == Tail(p)
<1>1. /\ t \in Seq(S) /\ Len(p) \in Nat \ {0} /\ Len(t) = Len(p) - 1 /\ Head(p) = p[1]
      /\ \A i \in 1..Len(t) : t[i] = p[i + 1]
      /\ Len(q) \in Nat
  BY TailIs
<1> HIDE DEF t
<1>2. /\ Len(t \o q) = Len(t) + Len(q)
      /\ \A i \in 1..Len(t) + Len(q) : (t \o q)[i] = IF i <= Len(t) THEN t[i] ELSE q[i - Len(t)]
  BY <1>1, JoinedAt
<1>3. /\ Len(p \o q) = Len(p) + Len(q)
      /\ \A i \in 1..Len(p) + Len(q) : (p \o q)[i] = IF i <= Len(p) THEN p[i] ELSE q[i - Len(p)]
  BY JoinedAt
<1>4. 1 \in 1..Len(p \o q) /\ (p \o q)[1] = Head(p)
  BY <1>1, <1>3
<1>5. ASSUME NEW i \in 1..Len(t \o q) PROVE (t \o q)[i] = (p \o q)[i + 1]
  <2>1. i \in 1..Len(t) + Len(q) /\ i + 1 \in 1..Len(p) + Len(q)
    BY <1>1, <1>2
  <2>2. CASE i <= Len(t)
    BY <2>1, <2>2, <1>1, <1>2, <1>3
  <2>3. CASE i > Len(t)
    <3>1. (i + 1) - Len(p) = i - Len(t) /\ ~(i + 1 <= Len(p))
      BY <2>1, <2>3, <1>1
    <3>2. (t \o q)[i] = q[i - Len(t)] /\ (p \o q)[i + 1] = q[(i + 1) - Len(p)]
      BY <2>1, <2>3, <3>1, <1>1, <1>2, <1>3
    <3> QED BY <3>1, <3>2
  <2> QED BY <2>1, <2>2, <2>3, <1>1
<1>6. Len(t \o q) = Len(p \o q) - 1 /\ \A i \in 1..Len(t \o q) : ~(i < 1)
  BY <1>1, <1>2, <1>3
<1> QED BY <1>4, <1>5, <1>6 DEF Without, t

\* As HeadGoes, for the first of the second sequence
LEMMA NextGoes ==
    ASSUME NEW S, NEW p \in Seq(S), NEW q \in Seq(S), q # <<>>
    PROVE  /\ Len(p) + 1 \in 1..Len(p \o q) /\ (p \o q)[Len(p) + 1] = Head(q)
           /\ Without(p \o Tail(q), p \o q, Len(p) + 1)
<1> DEFINE t == Tail(q)
<1>1. /\ t \in Seq(S) /\ Len(q) \in Nat \ {0} /\ Len(t) = Len(q) - 1 /\ Head(q) = q[1]
      /\ \A i \in 1..Len(t) : t[i] = q[i + 1]
      /\ Len(p) \in Nat
  BY TailIs
<1> HIDE DEF t
<1>2. /\ Len(p \o t) = Len(p) + Len(t)
      /\ \A i \in 1..Len(p) + Len(t) : (p \o t)[i] = IF i <= Len(p) THEN p[i] ELSE t[i - Len(p)]
  BY <1>1, JoinedAt
<1>3. /\ Len(p \o q) = Len(p) + Len(q)
      /\ \A i \in 1..Len(p) + Len(q) : (p \o q)[i] = IF i <= Len(p) THEN p[i] ELSE q[i - Len(p)]
  BY JoinedAt
<1>4. Len(p) + 1 \in 1..Len(p \o q) /\ (p \o q)[Len(p) + 1] = Head(q)
  BY <1>1, <1>3
<1>5. ASSUME NEW i \in 1..Len(p \o t)
      PROVE  (p \o t)[i] = IF i < Len(p) + 1 THEN (p \o q)[i] ELSE (p \o q)[i + 1]
  <2>1. i \in 1..Len(p) + Len(t) /\ i \in 1..Len(p) + Len(q) /\ i + 1 \in 1..Len(p) + Len(q)
    BY <1>1, <1>2
  <2>2. CASE i <= Len(p)
    BY <2>1, <2>2, <1>1, <1>2, <1>3
  <2>3. CASE i > Len(p)
    <3>1. (i + 1) - Len(p) = (i - Len(p)) + 1 /\ ~(i + 1 <= Len(p)) /\ i - Len(p) \in 1..Len(t)
      BY <2>1, <2>3, <1>1
    <3>2. (p \o t)[i] = t[i - Len(p)] /\ (p \o q)[i + 1] = q[(i + 1) - Len(p)]
      BY <2>1, <2>3, <3>1, <1>1, <1>2, <1>3
    <3>3. t[i - Len(p)] = q[(i - Len(p)) + 1]
      BY <3>1, <1>1
    <3>4. ~(i < Len(p) + 1)
      BY <2>1, <2>3, <1>1
    <3> QED BY <3>1, <3>2, <3>3, <3>4
  <2> QED BY <2>1, <2>2, <2>3, <1>1
<1>6. Len(p \o t) = Len(p \o q) - 1
  BY <1>1, <1>2, <1>3
<1> QED BY <1>4, <1>5, <1>6 DEF Without, t

\* What is on its way, by its two parts
LEMMA OutIs ==
    ASSUME RunTypes
    PROVE  /\ Out \in Seq(CmdT) /\ Len(outbox) \in Nat /\ Len(run.cmds) \in Nat
           /\ Len(Out) = Len(outbox) + Len(run.cmds) /\ Len(Out) \in Nat
           /\ \A i \in 1..Len(Out) :
                 Out[i] = IF i <= Len(outbox) THEN outbox[i] ELSE run.cmds[i - Len(outbox)]
<1>1. outbox \in Seq(CmdT) /\ run.cmds \in Seq(CmdT)
  BY DEF RunTypes
<1> HIDE DEF CmdT
<1>2. Len(outbox) \in Nat /\ Len(run.cmds) \in Nat
  BY <1>1
<1>3. /\ Out \in Seq(CmdT) /\ Len(Out) = Len(outbox) + Len(run.cmds)
      /\ \A i \in 1..Len(outbox) + Len(run.cmds) :
            Out[i] = IF i <= Len(outbox) THEN outbox[i] ELSE run.cmds[i - Len(outbox)]
  BY <1>1, JoinedAt DEF Out
<1> QED BY <1>2, <1>3

\* Nothing is touched before apply() starts.
LEMMA InitApply == ProfileInit => ApplyInv
<1> SUFFICES ASSUME ProfileInit PROVE ApplyInv
  OBVIOUS
<1>1. /\ run.next = 1 /\ run.at = "none" /\ run.cmds = <<>> /\ run.passed = {}
      /\ outbox = <<>> /\ Shaped(run) /\ opts \in Options
  BY DEF ProfileInit, Shaped
<1>2. \A c : Held(c) = "before"
  BY DEF ProfileInit, Held
<1>3. Len(Out) = 0 /\ 1..Len(Out) = {} /\ 1..Len(run.cmds) = {}
  BY <1>1 DEF Out
<1>4. outbox \in Seq(CmdT) /\ run.cmds \in Seq(CmdT)
  <2> HIDE DEF CmdT
  <2> QED BY <1>1
<1>5. RunTypes
  BY <1>1, <1>3, <1>4 DEF RunTypes, Working
<1>6. \A c \in Everything : Future(c)
  BY <1>1, StagesInRange DEF Future
<1>7. FutureInv /\ SinglesInv /\ KeysInv
  BY <1>1, <1>2, <1>6, SingleWanted DEF FutureInv, SinglesInv, KeysInv
<1> QED BY <1>5, <1>7 DEF ApplyInv

\* What a command makes of the keyer's controls
Moved(st, new, n, v) ==
    \A x \in KeyNames : new[x] =
        IF n = "snapshot"
        THEN IF x = (IF v = "A" THEN "kfA" ELSE "kfB")
             THEN IF st["fly"] = st["dve"] THEN st["dve"] ELSE "torn"
             ELSE st[x]
        ELSE IF n = "cursor" /\ x = "colour" THEN "sampled"
        ELSE IF x = n THEN v ELSE st[x]

\* A keyer's command changes that keyer only.
LEMMA EffectOnKey ==
    ASSUME NEW m \in MEs, NEW k \in KeyerNos, NEW n \in KeyNames \cup {"snapshot"}, NEW v,
           switcher' = Effect(Cmd(Ctl(Key(m, k), n), v))
    PROVE  /\ Moved(Live(Key(m, k)), Live(Key(m, k))', n, v)
           /\ \A d : d[1] # Key(m, k) => Held(d)' = Held(d)
<1> DEFINE key == Key(m, k)
           cmd == Cmd(Ctl(key, n), v)
           kf == IF v = "A" THEN "kfA" ELSE "kfB"
           shot == IF Held(Ctl(key, "fly")) = Held(Ctl(key, "dve"))
                   THEN Held(Ctl(key, "dve")) ELSE "torn"
<1>8. switcher' = Effect(cmd)
  OBVIOUS
<1>0. cmd.c = Ctl(key, n) /\ cmd.val = v /\ cmd.c[1] = key /\ cmd.c[2] = n
  BY CmdParts, CtlParts
<1>1. \A x, y : Ctl(key, x) = Ctl(key, y) => x = y
  BY CtlParts
<1>2. \A x, d : d[1] # key => d # Ctl(key, x)
  BY CtlParts
<1>3. \A x \in KeyNames : Live(key)[x] = Held(Ctl(key, x)) /\ Live(key)'[x] = Held(Ctl(key, x))'
  BY DEF Live
<1>4. "fly" \in KeyNames /\ "dve" \in KeyNames
  BY DEF KeyNames
<1> HIDE DEF KeyNames, key
<1>5. CASE n = "snapshot"
  <2>1. Effect(cmd) = With(switcher, Ctl(key, kf), shot)
    BY <1>0, <1>5 DEF Effect
  <2> HIDE DEF shot, kf
  <2>2. \A d : Held(d)' = IF d = Ctl(key, kf) THEN shot ELSE Held(d)
    BY <2>1, <1>8, WithHeld
  <2>3. \A d : d[1] # key => Held(d)' = Held(d)
    BY <2>2, <1>2
  <2>4. \A x \in KeyNames : Live(key)'[x] = IF x = kf THEN shot ELSE Live(key)[x]
    BY <2>2, <1>1, <1>3
  <2>5. shot = IF Live(key)["fly"] = Live(key)["dve"] THEN Live(key)["dve"] ELSE "torn"
    BY <1>3, <1>4, Zenon DEF shot
  <2>6. Moved(Live(key), Live(key)', n, v)
    BY <2>4, <2>5, <1>5 DEF Moved, kf
  <2> QED BY <2>3, <2>6 DEF key
<1>6. CASE n = "cursor"
  <2> DEFINE f == With(switcher, Ctl(key, n), v)
  <2>1. Effect(cmd) = With(f, Ctl(key, "colour"), "sampled")
    BY <1>0, <1>6 DEF Effect
  <2>2. \A d : Held(d)' = IF d = Ctl(key, "colour") THEN "sampled"
                          ELSE IF d = Ctl(key, n) THEN v ELSE Held(d)
    BY <2>1, <1>8 DEF With, Held
  <2>3. \A d : d[1] # key => Held(d)' = Held(d)
    BY <2>2, <1>2
  <2>4. \A x \in KeyNames : Live(key)'[x] = IF x = "colour" THEN "sampled"
                                            ELSE IF x = n THEN v ELSE Live(key)[x]
    BY <2>2, <1>1, <1>3
  <2>5. Moved(Live(key), Live(key)', n, v)
    BY <2>4, <1>6 DEF Moved
  <2> QED BY <2>3, <2>5 DEF key
<1>7. CASE n # "snapshot" /\ n # "cursor"
  <2>1. Effect(cmd) = With(switcher, Ctl(key, n), v)
    BY <1>0, <1>7 DEF Effect
  <2>2. \A d : Held(d)' = IF d = Ctl(key, n) THEN v ELSE Held(d)
    BY <2>1, <1>8, WithHeld
  <2>3. \A d : d[1] # key => Held(d)' = Held(d)
    BY <2>2, <1>2
  <2>4. \A x \in KeyNames : Live(key)'[x] = IF x = n THEN v ELSE Live(key)[x]
    BY <2>2, <1>1, <1>3
  <2>5. Moved(Live(key), Live(key)', n, v)
    BY <2>4, <1>7 DEF Moved
  <2> QED BY <2>3, <2>5 DEF key
<1> QED BY <1>5, <1>6, <1>7

\* The next command of a block with its keyframes
LEMMA FullStep ==
    ASSUME NEW st, NEW new, NEW p \in 0..17, NEW block, NEW key, Full(block, key),
           KeyAt(st, p, TRUE), NEW n, NEW v, block[p + 1] = Cmd(Ctl(key, n), v),
           Moved(st, new, n, v)
    PROVE  KeyAt(new, p + 1, TRUE)
<1>1. \A x, y, a, b : Cmd(Ctl(key, x), a) = Cmd(Ctl(key, y), b) => x = y /\ a = b
  BY CmdParts, CtlParts
<1>2. Moved(st, new, n, v)
  OBVIOUS
<1>3. CASE p = 0
  <2>1. n = "type" /\ v = "saved"
    BY <1>1, <1>3 DEF Full
  <2> QED BY <2>1, <1>2, <1>3 DEF KeyAt, Moved, KeyNames
<1>4. CASE p = 1
  <2>1. n = "sources" /\ v = "saved"
    BY <1>1, <1>4 DEF Full
  <2> QED BY <2>1, <1>2, <1>4 DEF KeyAt, Moved, KeyNames
<1>5. CASE p = 2
  <2>1. n = "on_air" /\ v = "saved"
    BY <1>1, <1>5 DEF Full
  <2> QED BY <2>1, <1>2, <1>5 DEF KeyAt, Moved, KeyNames
<1>6. CASE p = 3
  <2>1. n = "mask" /\ v = "saved"
    BY <1>1, <1>6 DEF Full
  <2> QED BY <2>1, <1>2, <1>6 DEF KeyAt, Moved, KeyNames
<1>7. CASE p = 4
  <2>1. n = "luma" /\ v = "saved"
    BY <1>1, <1>7 DEF Full
  <2> QED BY <2>1, <1>2, <1>7 DEF KeyAt, Moved, KeyNames
<1>8. CASE p = 5
  <2>1. n = "pattern" /\ v = "saved"
    BY <1>1, <1>8 DEF Full
  <2> QED BY <2>1, <1>2, <1>8 DEF KeyAt, Moved, KeyNames
<1>9. CASE p = 6
  <2>1. n = "fly" /\ v = "A"
    BY <1>1, <1>9 DEF Full
  <2> QED BY <2>1, <1>2, <1>9 DEF KeyAt, Moved, KeyNames
<1>10. CASE p = 7
  <2>1. n = "dve" /\ v = "A"
    BY <1>1, <1>10 DEF Full
  <2> QED BY <2>1, <1>2, <1>10 DEF KeyAt, Moved, KeyNames
<1>11. CASE p = 8
  <2>1. n = "snapshot" /\ v = "A"
    BY <1>1, <1>11 DEF Full
  <2> QED BY <2>1, <1>2, <1>11 DEF KeyAt, Moved, KeyNames
<1>12. CASE p = 9
  <2>1. n = "fly" /\ v = "B"
    BY <1>1, <1>12 DEF Full
  <2> QED BY <2>1, <1>2, <1>12 DEF KeyAt, Moved, KeyNames
<1>13. CASE p = 10
  <2>1. n = "dve" /\ v = "B"
    BY <1>1, <1>13 DEF Full
  <2> QED BY <2>1, <1>2, <1>13 DEF KeyAt, Moved, KeyNames
<1>14. CASE p = 11
  <2>1. n = "snapshot" /\ v = "B"
    BY <1>1, <1>14 DEF Full
  <2> QED BY <2>1, <1>2, <1>14 DEF KeyAt, Moved, KeyNames
<1>15. CASE p = 12
  <2>1. n = "dve" /\ v = "saved"
    BY <1>1, <1>15 DEF Full
  <2> QED BY <2>1, <1>2, <1>15 DEF KeyAt, Moved, KeyNames
<1>16. CASE p = 13
  <2>1. n = "chroma" /\ v = "saved"
    BY <1>1, <1>16 DEF Full
  <2> QED BY <2>1, <1>2, <1>16 DEF KeyAt, Moved, KeyNames
<1>17. CASE p = 14
  <2>1. n = "cursor" /\ v = "saved"
    BY <1>1, <1>17 DEF Full
  <2> QED BY <2>1, <1>2, <1>17 DEF KeyAt, Moved, KeyNames
<1>18. CASE p = 15
  <2>1. n = "colour" /\ v = "saved"
    BY <1>1, <1>18 DEF Full
  <2> QED BY <2>1, <1>2, <1>18 DEF KeyAt, Moved, KeyNames
<1>19. CASE p = 16
  <2>1. n = "fly" /\ v = "saved"
    BY <1>1, <1>19 DEF Full
  <2> QED BY <2>1, <1>2, <1>19 DEF KeyAt, Moved, KeyNames
<1>20. CASE p = 17
  <2>1. n = "rate" /\ v = "saved"
    BY <1>1, <1>20 DEF Full
  <2> QED BY <2>1, <1>2, <1>20 DEF KeyAt, Moved, KeyNames
<1>21. \/ p = 0 \/ p = 1 \/ p = 2 \/ p = 3 \/ p = 4 \/ p = 5 \/ p = 6 \/ p = 7 \/ p = 8
       \/ p = 9 \/ p = 10 \/ p = 11 \/ p = 12 \/ p = 13 \/ p = 14 \/ p = 15 \/ p = 16 \/ p = 17
  OBVIOUS
<1> QED BY <1>3, <1>4, <1>5, <1>6, <1>7, <1>8, <1>9, <1>10, <1>11, <1>12, <1>13, <1>14,
          <1>15, <1>16, <1>17, <1>18, <1>19, <1>20, <1>21, Zenon

\* The next command of a block without
LEMMA PlainStep ==
    ASSUME NEW st, NEW new, NEW p \in 0..11, NEW block, NEW key, Plain(block, key),
           KeyAt(st, p, FALSE), NEW n, NEW v, block[p + 1] = Cmd(Ctl(key, n), v),
           Moved(st, new, n, v)
    PROVE  KeyAt(new, p + 1, FALSE)
<1>1. \A x, y, a, b : Cmd(Ctl(key, x), a) = Cmd(Ctl(key, y), b) => x = y /\ a = b
  BY CmdParts, CtlParts
<1>2. Moved(st, new, n, v)
  OBVIOUS
<1>3. CASE p = 0
  <2>1. n = "type" /\ v = "saved"
    BY <1>1, <1>3 DEF Plain
  <2> QED BY <2>1, <1>2, <1>3 DEF KeyAt, Moved, KeyNames
<1>4. CASE p = 1
  <2>1. n = "sources" /\ v = "saved"
    BY <1>1, <1>4 DEF Plain
  <2> QED BY <2>1, <1>2, <1>4 DEF KeyAt, Moved, KeyNames
<1>5. CASE p = 2
  <2>1. n = "on_air" /\ v = "saved"
    BY <1>1, <1>5 DEF Plain
  <2> QED BY <2>1, <1>2, <1>5 DEF KeyAt, Moved, KeyNames
<1>6. CASE p = 3
  <2>1. n = "mask" /\ v = "saved"
    BY <1>1, <1>6 DEF Plain
  <2> QED BY <2>1, <1>2, <1>6 DEF KeyAt, Moved, KeyNames
<1>7. CASE p = 4
  <2>1. n = "luma" /\ v = "saved"
    BY <1>1, <1>7 DEF Plain
  <2> QED BY <2>1, <1>2, <1>7 DEF KeyAt, Moved, KeyNames
<1>8. CASE p = 5
  <2>1. n = "pattern" /\ v = "saved"
    BY <1>1, <1>8 DEF Plain
  <2> QED BY <2>1, <1>2, <1>8 DEF KeyAt, Moved, KeyNames
<1>9. CASE p = 6
  <2>1. n = "dve" /\ v = "saved"
    BY <1>1, <1>9 DEF Plain
  <2> QED BY <2>1, <1>2, <1>9 DEF KeyAt, Moved, KeyNames
<1>10. CASE p = 7
  <2>1. n = "chroma" /\ v = "saved"
    BY <1>1, <1>10 DEF Plain
  <2> QED BY <2>1, <1>2, <1>10 DEF KeyAt, Moved, KeyNames
<1>11. CASE p = 8
  <2>1. n = "cursor" /\ v = "saved"
    BY <1>1, <1>11 DEF Plain
  <2> QED BY <2>1, <1>2, <1>11 DEF KeyAt, Moved, KeyNames
<1>12. CASE p = 9
  <2>1. n = "colour" /\ v = "saved"
    BY <1>1, <1>12 DEF Plain
  <2> QED BY <2>1, <1>2, <1>12 DEF KeyAt, Moved, KeyNames
<1>13. CASE p = 10
  <2>1. n = "fly" /\ v = "saved"
    BY <1>1, <1>13 DEF Plain
  <2> QED BY <2>1, <1>2, <1>13 DEF KeyAt, Moved, KeyNames
<1>14. CASE p = 11
  <2>1. n = "rate" /\ v = "saved"
    BY <1>1, <1>14 DEF Plain
  <2> QED BY <2>1, <1>2, <1>14 DEF KeyAt, Moved, KeyNames
<1>15. \/ p = 0 \/ p = 1 \/ p = 2 \/ p = 3 \/ p = 4 \/ p = 5 \/ p = 6
       \/ p = 7 \/ p = 8 \/ p = 9 \/ p = 10 \/ p = 11
  OBVIOUS
<1> QED BY <1>3, <1>4, <1>5, <1>6, <1>7, <1>8, <1>9, <1>10, <1>11, <1>12, <1>13, <1>14, <1>15, Zenon

\* What StartSection does
LEMMA StartSteps ==
    ASSUME RunTypes, StartSection, NEW s, s = Sections[run.next]
    PROVE  /\ run.next \in 1..14 /\ ~Working /\ run.cmds = <<>>
           /\ opts' = opts /\ switcher' = switcher /\ outbox' = outbox /\ lost' = lost
           /\ GatedOn(s) /\ Shaped(run')
           /\ run'.next = run.next + 1 /\ run'.at = s /\ run'.cmds = CommandsOf(s)
           /\ run'.errors = run.errors /\ run'.skipped = run.skipped
           /\ run'.passed = run.passed \cup NewlyPassed(s)
<1>1. /\ run.next \in 1..14 /\ ~Working /\ run.cmds = <<>>
  BY SectionsAre DEF StartSection, RunTypes, Ended
<1>2. PICK a, b, c, e, f, g, h :
         run = [next |-> a, at |-> b, cmds |-> c, errors |-> e, skipped |-> f, passed |-> g,
                raised |-> h]
  BY DEF RunTypes, Shaped
<1> DEFINE cm == CommandsOf(s)
           pa == NewlyPassed(s)
<1> HIDE DEF cm, pa
<1>3. /\ opts' = opts /\ switcher' = switcher /\ outbox' = outbox /\ lost' = lost
      /\ GatedOn(s)
      /\ run' = [run EXCEPT !.next = @ + 1, !.at = s, !.cmds = cm, !.passed = @ \cup pa]
  BY Zenon DEF StartSection, cm, pa
<1>4. run' = [next |-> a + 1, at |-> s, cmds |-> cm, errors |-> e, skipped |-> f,
              passed |-> g \cup pa, raised |-> h]
  BY <1>2, <1>3
<1>5. /\ Shaped(run')
      /\ run'.next = run.next + 1 /\ run'.at = s /\ run'.cmds = cm
      /\ run'.errors = run.errors /\ run'.skipped = run.skipped
      /\ run'.passed = run.passed \cup pa
  BY <1>2, <1>4 DEF Shaped
<1> QED BY <1>1, <1>3, <1>5, Zenon DEF cm, pa

\* What LeaveSection does
LEMMA LeaveSteps ==
    ASSUME RunTypes, LeaveSection, NEW s, s = Sections[run.next]
    PROVE  /\ run.next \in 1..14 /\ ~Working
           /\ opts' = opts /\ switcher' = switcher /\ outbox' = outbox /\ lost' = lost
           /\ Shaped(run')
           /\ run'.next = run.next + 1 /\ run'.at = run.at /\ run'.cmds = run.cmds
           /\ run'.errors = run.errors /\ run.skipped \subseteq run'.skipped
           /\ run'.passed = run.passed
           /\ ~GatedOn(s) \/ (s \in {"macros", "video_mode"} /\ s \in run'.skipped)
<1>1. run.next \in 1..14 /\ ~Working
  BY SectionsAre DEF LeaveSection, RunTypes, Ended
<1>2. PICK a, b, c, e, f, g, h :
         run = [next |-> a, at |-> b, cmds |-> c, errors |-> e, skipped |-> f, passed |-> g,
                raised |-> h]
  BY DEF RunTypes, Shaped
<1> DEFINE sk == IF GatedOn(s) THEN run.skipped \cup {s} ELSE run.skipped
<1>3. /\ opts' = opts /\ switcher' = switcher /\ outbox' = outbox /\ lost' = lost
      /\ ~GatedOn(s) \/ s \in {"macros", "video_mode"}
      /\ run' = [run EXCEPT !.next = @ + 1, !.skipped = sk]
  BY Zenon DEF LeaveSection
<1>4. run.skipped \subseteq sk /\ (GatedOn(s) => s \in sk)
  OBVIOUS
<1> HIDE DEF sk
<1>5. run' = [next |-> a + 1, at |-> b, cmds |-> c, errors |-> e, skipped |-> sk, passed |-> g,
              raised |-> h]
  BY <1>2, <1>3
<1>6. /\ Shaped(run')
      /\ run'.next = run.next + 1 /\ run'.at = run.at /\ run'.cmds = run.cmds
      /\ run'.errors = run.errors /\ run'.skipped = sk /\ run'.passed = run.passed
  BY <1>2, <1>5 DEF Shaped
<1> QED BY <1>1, <1>3, <1>4, <1>6, Zenon

\* No section comes twice.
LEMMA SectionsDiffer == \A a, b \in 1..14 : Sections[a] = Sections[b] => a = b
<1>1. \A a \in 1..14 : \/ a = 1 \/ a = 2 \/ a = 3 \/ a = 4 \/ a = 5 \/ a = 6 \/ a = 7 \/ a = 8
                       \/ a = 9 \/ a = 10 \/ a = 11 \/ a = 12 \/ a = 13 \/ a = 14
  OBVIOUS
<1> QED BY <1>1, SectionsAre

\* Only the section that starts has M/Es newly passed over
LEMMA DueElsewhere ==
    ASSUME opts' = opts, NEW p \in 1..14,
           run'.passed = run.passed \cup NewlyPassed(Sections[p]),
           NEW c \in Everything, Stage(c) # p
    PROVE  (Due(c)' <=> Due(c)) /\ Expected(c)' = Expected(c)
<1>1. PassedOver(c)' <=> PassedOver(c)
  <2>1. CASE c[1] = All
    BY <2>1 DEF PassedOver
  <2>2. CASE c[1] # All
    <3>1. SectionOf(c) # Sections[p]
      BY <2>2, SectionOfStage, StagesInRange, SectionsDiffer
    <3>2. <<SectionOf(c), c[1][2]>> \notin NewlyPassed(Sections[p])
      BY <3>1 DEF NewlyPassed
    <3> HIDE DEF SectionOf, NewlyPassed
    <3>3. PassedOver(c)' <=> c[1] # All /\ <<SectionOf(c), c[1][2]>> \in run'.passed
      BY Zenon DEF PassedOver
    <3>4. PassedOver(c) <=> c[1] # All /\ <<SectionOf(c), c[1][2]>> \in run.passed
      BY Zenon DEF PassedOver
    <3> QED BY <3>2, <3>3, <3>4
  <2> QED BY <2>1, <2>2
<1>2. Due(c)' <=> Due(c)
  BY <1>1, SelectedKept DEF Due
<1>3. Wanted(c)' = Wanted(c)
  BY DEF Wanted
<1> QED BY <1>2, <1>3 DEF Expected

\* The switcher never shows more M/Es than it has.
LEMMA MeCountAtMost == MeCount \in Nat /\ MeCount <= LiveMEs /\ LiveMEs \in Nat
  BY ProfileBounds DEF MeCount

\* What the section that starts is to set: what its commands reach
LEMMA DueAtStart ==
    ASSUME RunTypes, opts' = opts, run.next \in 1..14, GatedOn(Sections[run.next]),
           run'.passed = run.passed \cup NewlyPassed(Sections[run.next]),
           NEW c \in Everything, Stage(c) = run.next
    PROVE  Due(c)' <=> Reached(c)
<1>1. CASE c[1] = All
  <2>1. c \in OfSwitcher
    <3>1. \A d \in OfMes : d[1] # All
      BY CtlParts, WheresDiffer DEF OfMes
    <3>2. \A d \in OfKeys : d[1] # All
      BY CtlParts, WheresDiffer DEF OfKeys
    <3> QED BY <1>1, <3>1, <3>2, EverythingIs
  <2>2. Selected(c)
    BY <2>1, SwitcherGate DEF RunTypes
  <2>3. Selected(c)'
    BY <2>2, SelectedKept
  <2>4. Due(c)'
    BY <1>1, <2>3 DEF Due, PassedOver
  <2> QED BY <2>4, <1>1 DEF Reached
<1>2. CASE c[1] # All
  <2> DEFINE m == c[1][2]
             s == Sections[run.next]
  <2>1. SectionOf(c) = s /\ m \in MEs /\ s \in MeSections
    BY <1>2, SectionOfStage
  <2>2. <<s, m>> \notin run.passed
    <3>1. ASSUME <<s, m>> \in run.passed PROVE FALSE
      <4>1. PICK n \in 1..14 : n < run.next /\ <<s, m>>[1] = Sections[n]
        BY <3>1 DEF RunTypes
      <4>2. Sections[n] = s
        BY <4>1
      <4> QED BY <4>1, <4>2, SectionsDiffer
    <3> QED BY <3>1
  <2>3. m \in Int
    BY <2>1, ProfileBounds DEF MEs
  <2> HIDE DEF m, s
  <2>4. <<s, m>> \in NewlyPassed(s) <=> m >= MeCount /\ m < LiveMEs
    <3>1. NewlyPassed(s) = {<<s, me>> : me \in {q \in MEs : q >= MeCount /\ q < LiveMEs}}
      BY <2>1 DEF NewlyPassed
    <3> HIDE DEF MEs, MeCount
    <3> QED BY <3>1, <2>1
  <2>5. PassedOver(c)' <=> m >= MeCount /\ m < LiveMEs
    <3>1. PassedOver(c)' <=> <<s, m>> \in run'.passed
      BY <1>2, <2>1, Zenon DEF PassedOver, m
    <3>2. run'.passed = run.passed \cup NewlyPassed(s)
      BY DEF s
    <3> QED BY <3>1, <3>2, <2>2, <2>4
  <2>6. Due(c)' <=> Selected(c)' /\ ~PassedOver(c)' /\ m < LiveMEs
    BY <1>2, Zenon DEF Due, m
  <2>7. Reached(c) <=> Selected(c) /\ m < MeCount
    BY <1>2 DEF Reached, m
  <2>8. Selected(c)' <=> Selected(c)
    BY SelectedKept
  <2> HIDE DEF MeCount, Selected, Due, PassedOver, Reached
  <2> QED BY <2>3, <2>5, <2>6, <2>7, <2>8, MeCountAtMost
<1> QED BY <1>1, <1>2

\* The commands of a section: its own, in their place
LEMMA NewCommands ==
    ASSUME RunTypes, NEW p \in 1..14
    PROVE  /\ CommandsOf(Sections[p]) \in Seq(CmdT)
           /\ \A i \in 1..Len(CommandsOf(Sections[p])) :
                 /\ Stage(CommandsOf(Sections[p])[i].c) = p
                 /\ Sound(CommandsOf(Sections[p])[i])
<1>1. CASE p = 7
  <2>1. Sections[p] = "upstream_keyers" /\ opts.keyframes \in BOOLEAN
    BY <1>1, SectionsAre, OptionsAre DEF RunTypes
  <2>2. /\ CommandsOf(Sections[p]) \in Seq(CmdT)
        /\ \A i \in 1..Len(CommandsOf(Sections[p])) : CommandsOf(Sections[p])[i].c[1] \in Keys
    BY <2>1, KeyCommands
  <2> QED BY <2>2, <1>1, KeyStages DEF Sound
<1>2. CASE p # 7
  BY <1>2, SectionCommands DEF Sound
<1> QED BY <1>1, <1>2

\* What is on its way when a section starts: what was, and its commands
LEMMA OutAtStart ==
    ASSUME RunTypes, StartSection
    PROVE  LET all == CommandsOf(Sections[run.next]) IN
           /\ all \in Seq(CmdT) /\ Out \in Seq(CmdT) /\ Out' = Out \o all
           /\ Len(Out) \in Nat /\ Len(all) \in Nat
           /\ Len(Out') = Len(Out) + Len(all)
           /\ \A i \in 1..Len(Out') : Out'[i] = IF i <= Len(Out) THEN Out[i] ELSE all[i - Len(Out)]
<1> DEFINE all == CommandsOf(Sections[run.next])
<1>1. /\ run.next \in 1..14 /\ run.cmds = <<>> /\ outbox' = outbox /\ run'.cmds = all
  BY StartSteps
<1>2. all \in Seq(CmdT) /\ outbox \in Seq(CmdT)
  BY <1>1, NewCommands DEF RunTypes
<1> HIDE DEF all, CmdT
<1>3. Out = outbox
  BY <1>1, <1>2 DEF Out
<1>4. Out' = Out \o all
  BY <1>1, <1>3 DEF Out
<1>5. Len(Out) \in Nat /\ Len(all) \in Nat /\ Out \in Seq(CmdT)
  BY <1>2, <1>3
<1>6. /\ Len(Out \o all) = Len(Out) + Len(all)
      /\ \A i \in 1..Len(Out) + Len(all) :
            (Out \o all)[i] = IF i <= Len(Out) THEN Out[i] ELSE all[i - Len(Out)]
  BY <1>2, <1>5, JoinedAt
<1> QED BY <1>2, <1>4, <1>5, <1>6 DEF all

\* A command as the sections make them is of a section.
LEMMA SoundStages == \A cmd : Sound(cmd) => Stage(cmd.c) \in 1..14
  BY SingleStages, KeyStages DEF Sound

\* The types, when a section starts
LEMMA NewRunTypes ==
    ASSUME RunTypes, StartSection
    PROVE  RunTypes'
<1> DEFINE p == run.next
           s == Sections[p]
           all == CommandsOf(s)
<1>1. /\ p \in 1..14 /\ ~Working /\ opts' = opts /\ outbox' = outbox /\ Shaped(run')
      /\ run'.next = p + 1 /\ run'.at = s /\ run'.cmds = all
      /\ run'.passed = run.passed \cup NewlyPassed(s)
  BY StartSteps
<1>2. \A x \in run'.passed : \E n \in 1..14 : n < run'.next /\ x[1] = Sections[n]
  <2>1. \A x \in run.passed : \E n \in 1..14 : n < p /\ x[1] = Sections[n]
    BY DEF RunTypes
  <2>2. \A x \in NewlyPassed(s) : x[1] = s
    BY DEF NewlyPassed
  <2> QED BY <2>1, <2>2, <1>1
<1>3. /\ all \in Seq(CmdT)
      /\ \A i \in 1..Len(all) : Stage(all[i].c) = p /\ Sound(all[i])
  BY <1>1, NewCommands
<1>4. /\ Len(Out) \in Nat /\ Len(all) \in Nat /\ Len(Out') = Len(Out) + Len(all)
      /\ \A i \in 1..Len(Out') : Out'[i] = IF i <= Len(Out) THEN Out[i] ELSE all[i - Len(Out)]
  BY OutAtStart
<1> HIDE DEF all, CmdT
<1>5. /\ \A i \in 1..Len(Out) : Sound(Out[i]) /\ Stage(Out[i].c) < p
      /\ \A i, j \in 1..Len(Out) : i < j => Stage(Out[i].c) <= Stage(Out[j].c)
  BY DEF RunTypes
<1>6. ASSUME NEW i \in 1..Len(Out')
      PROVE  /\ i <= Len(Out) => i \in 1..Len(Out) /\ Out'[i] = Out[i]
             /\ ~(i <= Len(Out)) => Stage(Out'[i].c) = p /\ Sound(Out'[i])
  <2>1. i <= Len(Out) => i \in 1..Len(Out) /\ Out'[i] = Out[i]
    BY <1>4
  <2>2. ASSUME ~(i <= Len(Out)) PROVE Stage(Out'[i].c) = p /\ Sound(Out'[i])
    <3>1. i - Len(Out) \in 1..Len(all) /\ Out'[i] = all[i - Len(Out)]
      BY <2>2, <1>4
    <3> QED BY <3>1, <1>3
  <2> QED BY <2>1, <2>2
<1> HIDE DEF Sound, Stage
<1>7. \A i \in 1..Len(Out') : Sound(Out'[i]) /\ Stage(Out'[i].c) < p + 1
  <2> SUFFICES ASSUME NEW i \in 1..Len(Out') PROVE Sound(Out'[i]) /\ Stage(Out'[i].c) < p + 1
    OBVIOUS
  <2>1. CASE i <= Len(Out)
    <3>1. Out'[i] = Out[i] /\ Sound(Out[i]) /\ Stage(Out[i].c) < p
      BY <2>1, <1>5, <1>6
    <3>2. Stage(Out[i].c) \in 1..14
      BY <3>1, SoundStages
    <3> QED BY <3>1, <3>2, <1>1
  <2>2. CASE ~(i <= Len(Out))
    BY <2>2, <1>1, <1>6
  <2> QED BY <2>1, <2>2
<1>8. \A i, j \in 1..Len(Out') : i < j => Stage(Out'[i].c) <= Stage(Out'[j].c)
  <2> SUFFICES ASSUME NEW i \in 1..Len(Out'), NEW j \in 1..Len(Out'), i < j
               PROVE  Stage(Out'[i].c) <= Stage(Out'[j].c)
    OBVIOUS
  <2>1. CASE j <= Len(Out)
    <3>1. i <= Len(Out)
      BY <2>1, <1>4
    <3> QED BY <3>1, <2>1, <1>5, <1>6
  <2>2. CASE ~(j <= Len(Out))
    <3>1. Stage(Out'[i].c) < p + 1 /\ Stage(Out'[j].c) = p
      BY <2>2, <1>6, <1>7
    <3>2. Stage(Out'[i].c) \in 1..14
      BY <1>7, SoundStages
    <3>3. \A a, b \in 1..14 : a < b + 1 => a <= b
      OBVIOUS
    <3>4. p \in 1..14
      BY <1>1
    <3> HIDE DEF p
    <3> QED BY <3>1, <3>2, <3>3, <3>4, Zenon
  <2> QED BY <2>1, <2>2
<1>9. Working' /\ run'.next - 1 = p /\ run'.next > 1 /\ run'.next \in 1..15 /\ opts' \in Options
  <2>1. s # "none"
    BY <1>1, SeveralSections, SectionsAre DEF Several, ByMe
  <2> QED BY <2>1, <1>1 DEF RunTypes, Working
<1>10. outbox' \in Seq(CmdT) /\ run'.cmds \in Seq(CmdT)
       /\ \A i \in 1..Len(run'.cmds) : Stage(run'.cmds[i].c) = run'.next - 1
  BY <1>1, <1>3, <1>9 DEF RunTypes
<1> QED BY <1>1, <1>2, <1>7, <1>8, <1>9, <1>10 DEF RunTypes

\* A block that stands in the commands stands there when others follow.
LEMMA StandsBefore ==
    ASSUME NEW q, NEW r, NEW all, NEW o \in Int, NEW block, NEW key, Stands(q, o, block, key),
           Len(q) \in Nat, Len(all) \in Nat, Len(block) \in Nat, Len(r) = Len(q) + Len(all),
           \A i \in 1..Len(r) : r[i] = IF i <= Len(q) THEN q[i] ELSE all[i - Len(q)],
           \A i \in 1..Len(all) : all[i].c[1] # key
    PROVE  Stands(r, o, block, key)
<1>1. ASSUME NEW j \in 1..Len(block), o + j >= 1
      PROVE  o + j <= Len(r) /\ r[o + j] = block[j]
  <2>1. o + j <= Len(q) /\ q[o + j] = block[j]
    BY <1>1 DEF Stands
  <2>2. o + j \in 1..Len(r)
    BY <2>1, <1>1
  <2> QED BY <2>1, <2>2
<1>2. ASSUME NEW i \in 1..Len(r), r[i].c[1] = key
      PROVE  i - o \in 1..Len(block)
  <2>1. CASE i <= Len(q)
    <3>1. i \in 1..Len(q) /\ q[i].c[1] = key
      BY <2>1, <1>2
    <3> QED BY <3>1 DEF Stands
  <2>2. CASE ~(i <= Len(q))
    <3>1. i - Len(q) \in 1..Len(all) /\ r[i] = all[i - Len(q)]
      BY <2>2
    <3> QED BY <3>1, <1>2
  <2> QED BY <2>1, <2>2
<1> QED BY <1>1, <1>2 DEF Stands

\* A block that stands in commands stands in them when others come before.
LEMMA StandsBehind ==
    ASSUME NEW q, NEW r, NEW all, NEW o \in Nat, NEW block, NEW key, Stands(all, o, block, key),
           Len(q) \in Nat, Len(all) \in Nat, Len(block) \in Nat, Len(r) = Len(q) + Len(all),
           \A i \in 1..Len(r) : r[i] = IF i <= Len(q) THEN q[i] ELSE all[i - Len(q)],
           \A i \in 1..Len(q) : q[i].c[1] # key
    PROVE  Stands(r, Len(q) + o, block, key)
<1>1. ASSUME NEW j \in 1..Len(block)
      PROVE  (Len(q) + o) + j <= Len(r) /\ r[(Len(q) + o) + j] = block[j]
  <2>1. o + j <= Len(all) /\ all[o + j] = block[j]
    BY DEF Stands
  <2>2. (Len(q) + o) + j \in 1..Len(r) /\ ~((Len(q) + o) + j <= Len(q))
        /\ ((Len(q) + o) + j) - Len(q) = o + j
    BY <2>1
  <2>3. r[(Len(q) + o) + j] = all[((Len(q) + o) + j) - Len(q)]
    BY <2>2
  <2> QED BY <2>1, <2>2, <2>3
<1>2. ASSUME NEW i \in 1..Len(r), r[i].c[1] = key
      PROVE  i - (Len(q) + o) \in 1..Len(block)
  <2>1. CASE i <= Len(q)
    <3>1. i \in 1..Len(q) /\ r[i] = q[i]
      BY <2>1
    <3> QED BY <3>1, <1>2
  <2>2. CASE ~(i <= Len(q))
    <3>1. i - Len(q) \in 1..Len(all) /\ r[i] = all[i - Len(q)]
      BY <2>2
    <3>2. (i - Len(q)) - o \in 1..Len(block)
      BY <3>1, <1>2 DEF Stands
    <3> QED BY <3>2
  <2> QED BY <2>1, <2>2
<1> QED BY <1>1, <1>2 DEF Stands

\* A keyer has no command on its way before its section starts.
LEMMA NoneOfKey ==
    ASSUME RunTypes, run.next <= 7, NEW key \in Keys
    PROVE  \A i \in 1..Len(Out) : Out[i].c[1] # key
<1> SUFFICES ASSUME NEW i \in 1..Len(Out), Out[i].c[1] = key PROVE FALSE
  OBVIOUS
<1>1. Stage(Out[i].c) < run.next /\ run.next \in 1..15
  BY DEF RunTypes
<1>2. Stage(Out[i].c) = 7
  BY KeyStages
<1> QED BY <1>1, <1>2


\* What comes on its way when a section starts
LEMMA OnItsWayAtStart ==
    ASSUME RunTypes, StartSection, NEW c
    PROVE  OnItsWay(c)' <=>
             \/ OnItsWay(c)
             \/ \E i \in 1..Len(CommandsOf(Sections[run.next])) :
                   CommandsOf(Sections[run.next])[i].c = c
<1> DEFINE all == CommandsOf(Sections[run.next])
<1>1. /\ Len(Out) \in Nat /\ Len(all) \in Nat /\ Len(Out') = Len(Out) + Len(all)
      /\ \A i \in 1..Len(Out') : Out'[i] = IF i <= Len(Out) THEN Out[i] ELSE all[i - Len(Out)]
  BY OutAtStart
<1> HIDE DEF all
<1>2. ASSUME NEW i \in 1..Len(Out'), Out'[i].c = c
      PROVE  OnItsWay(c) \/ \E j \in 1..Len(all) : all[j].c = c
  <2>1. CASE i <= Len(Out)
    <3>1. i \in 1..Len(Out) /\ Out[i].c = c
      BY <2>1, <1>1, <1>2
    <3> QED BY <3>1 DEF OnItsWay
  <2>2. CASE ~(i <= Len(Out))
    <3>1. i - Len(Out) \in 1..Len(all) /\ all[i - Len(Out)].c = c
      BY <2>2, <1>1, <1>2
    <3> QED BY <3>1
  <2> QED BY <2>1, <2>2
<1>3. ASSUME NEW i \in 1..Len(Out), Out[i].c = c
      PROVE  \E j \in 1..Len(Out') : Out'[j].c = c
  <2>1. i \in 1..Len(Out') /\ Out'[i] = Out[i]
    BY <1>1
  <2> QED BY <2>1, <1>3
<1>4. ASSUME NEW i \in 1..Len(all), all[i].c = c
      PROVE  \E j \in 1..Len(Out') : Out'[j].c = c
  <2>1. /\ Len(Out) + i \in 1..Len(Out') /\ ~(Len(Out) + i <= Len(Out))
        /\ (Len(Out) + i) - Len(Out) = i
    BY <1>1
  <2>2. Out'[Len(Out) + i] = all[i]
    BY <2>1, <1>1
  <2> QED BY <2>1, <2>2, <1>4
<1>5. (OnItsWay(c)' <=> \E j \in 1..Len(Out') : Out'[j].c = c)
      /\ (OnItsWay(c) <=> \E j \in 1..Len(Out) : Out[j].c = c)
  BY DEF OnItsWay
<1> HIDE DEF OnItsWay
<1> QED BY <1>2, <1>3, <1>4, <1>5, Zenon DEF all

\* A section starts: the controls that take one command
LEMMA BeginSingles ==
    ASSUME ApplyInv, StartSection
    PROVE  SinglesInv'
<1> DEFINE p == run.next
           s == Sections[p]
           all == CommandsOf(s)
<1>1. /\ p \in 1..14 /\ opts' = opts /\ switcher' = switcher /\ lost' = lost /\ GatedOn(s)
      /\ run'.next = p + 1 /\ run'.errors = run.errors /\ run'.skipped = run.skipped
      /\ run'.passed = run.passed \cup NewlyPassed(s)
  BY StartSteps DEF ApplyInv
<1>2. RunTypes /\ FutureInv /\ SinglesInv
  BY DEF ApplyInv
<1>3. \A c : Held(c)' = Held(c)
  BY <1>1 DEF Held
<1>4. \A i \in 1..Len(all) : Stage(all[i].c) = p
  BY <1>1, <1>2, NewCommands
<1>5. \A i \in 1..Len(Out) : Stage(Out[i].c) < p
  BY <1>2 DEF RunTypes
<1>6. \A c : OnItsWay(c)' <=> OnItsWay(c) \/ \E i \in 1..Len(all) : all[i].c = c
  BY <1>2, OnItsWayAtStart
<1> SUFFICES ASSUME NEW c \in Singles, ~Future(c)' PROVE SingleOut(c)'
  BY DEF SinglesInv
<1>7. c \in Everything /\ Stage(c) \in 1..14 /\ Stage(c) # 7
  BY SingleWanted, SingleStages
<1>8. ~(Stage(c) >= p + 1)
  BY <1>1 DEF Future
<1> HIDE DEF Stage
<1>9. CASE Stage(c) < p
  <2>1. SingleOut(c)
    BY <1>1, <1>2, <1>7, <1>9 DEF SinglesInv, Future
  <2>2. Due(c)' <=> Due(c)
    BY <1>1, <1>7, <1>9, DueElsewhere
  <2>3. OnItsWay(c)' <=> OnItsWay(c)
    BY <1>1, <1>4, <1>6, <1>7, <1>9
  <2>4. Excused(c) => Excused(c)'
    BY <1>1, ExcusedKept DEF Faults
  <2> HIDE DEF Due, OnItsWay, Excused
  <2> QED BY <2>1, <2>2, <2>3, <2>4, <1>3 DEF SingleOut
<1>10. CASE Stage(c) = p
  <2>1. Due(c)' <=> Reached(c)
    BY <1>1, <1>2, <1>7, <1>10, DueAtStart
  <2>2. Held(c)' = "before"
    BY <1>2, <1>3, <1>7, <1>10 DEF FutureInv, Future
  <2>3. ~OnItsWay(c)
    <3>1. \A i \in 1..Len(Out) : Stage(Out[i].c) # p
      BY <1>1, <1>5
    <3> QED BY <3>1, <1>10 DEF OnItsWay
  <2>4. /\ \A i \in 1..Len(all) : Reached(all[i].c)
        /\ Reached(c) => \E i \in 1..Len(all) : all[i].c = c
    BY <1>1, <1>7, <1>10, SectionCommands
  <2>5. OnItsWay(c)' <=> Reached(c)
    <3> HIDE DEF OnItsWay, Reached, all
    <3> QED BY <2>3, <2>4, <1>6
  <2> HIDE DEF Due, OnItsWay, Excused, Reached
  <2> QED BY <2>1, <2>2, <2>5 DEF SingleOut
<1> QED BY <1>1, <1>7, <1>8, <1>9, <1>10

\* What is due of a keyer, by its controls
LEMMA KeyDueIs ==
    ASSUME NEW m, NEW k, NEW n \in KeyNames
    PROVE  /\ Due(Ctl(Key(m, k), n)) <=> KeyDue(m, k)
           /\ Due(Ctl(Key(m, k), n))' <=> KeyDue(m, k)'
<1> DEFINE key == Key(m, k)
           c == Ctl(key, n)
<1>1. c[1] = key /\ c[2] = n /\ key[1] = "key" /\ key[2] = m /\ key[3] = k /\ key # All
  BY CtlParts, WhereParts, WheresDiffer
<1>2. SectionOf(c) = "upstream_keyers"
  <2>1. n \notin {"ftb_rate", "preview", "program"}
    BY DEF KeyNames
  <2> QED BY <1>1, <2>1 DEF SectionOf
<1>3. (Selected(c) <=> k \in MeOpt(m).usk) /\ (Selected(c)' <=> k \in MeOpt(m)'.usk)
  BY <1>1 DEF Selected
<1>4. /\ PassedOver(c) <=> <<"upstream_keyers", m>> \in run.passed
      /\ PassedOver(c)' <=> <<"upstream_keyers", m>> \in run'.passed
  BY <1>1, <1>2, Zenon DEF PassedOver
<1>5. /\ Due(c) <=> Selected(c) /\ ~PassedOver(c) /\ m < LiveMEs
      /\ Due(c)' <=> Selected(c)' /\ ~PassedOver(c)' /\ m < LiveMEs
  BY <1>1, Zenon DEF Due
<1> HIDE DEF c
<1>6. (Due(c) <=> KeyDue(m, k)) /\ (Due(c)' <=> KeyDue(m, k)')
  BY <1>3, <1>4, <1>5, Zenon DEF KeyDue
<1> QED BY <1>6 DEF c

\* The controls of the keyers are controls of their section.
LEMMA KeyControls ==
    ASSUME NEW m \in MEs, NEW k \in KeyerNos, NEW n \in KeyNames
    PROVE  /\ Ctl(Key(m, k), n) \in OfKeys /\ Ctl(Key(m, k), n) \in Everything
           /\ Stage(Ctl(Key(m, k), n)) = 7 /\ Key(m, k) \in Keys
<1>1. Ctl(Key(m, k), n) \in OfKeys
  BY DEF OfKeys
<1>2. Key(m, k) \in Keys
  BY DEF Keys
<1> QED BY <1>1, <1>2, EverythingIs, KeyStages

\* A section starts: the keyers
LEMMA BeginKeys ==
    ASSUME ApplyInv, StartSection
    PROVE  KeysInv'
<1> DEFINE p == run.next
           s == Sections[p]
           all == CommandsOf(s)
<1>1. /\ p \in 1..14 /\ opts' = opts /\ switcher' = switcher /\ lost' = lost /\ GatedOn(s)
      /\ run'.next = p + 1 /\ run'.errors = run.errors
      /\ run'.passed = run.passed \cup NewlyPassed(s)
  BY StartSteps DEF ApplyInv
<1>2. RunTypes /\ FutureInv /\ KeysInv /\ opts.keyframes \in BOOLEAN
  BY OptionsAre DEF ApplyInv, RunTypes
<1>3. \A c : Held(c)' = Held(c)
  BY <1>1 DEF Held
<1>4. \A i \in 1..Len(all) : Stage(all[i].c) = p
  BY <1>1, <1>2, NewCommands
<1>5. /\ Len(Out) \in Nat /\ Len(all) \in Nat /\ Len(Out') = Len(Out) + Len(all)
      /\ \A i \in 1..Len(Out') : Out'[i] = IF i <= Len(Out) THEN Out[i] ELSE all[i - Len(Out)]
  BY <1>2, OutAtStart
<1> SUFFICES ASSUME p + 1 >= 8, NEW m \in MEs, NEW k \in KeyerNos PROVE KeyOut(m, k)'
  BY <1>1 DEF KeysInv
<1> DEFINE key == Key(m, k)
           block == UskBlock(m, k)
<1>6. /\ block \in Seq(CmdT) /\ Len(block) \in Nat /\ block' = block
      /\ opts'.keyframes = opts.keyframes
  BY <1>1, <1>2, BlockElements DEF UskBlock
<1>7. \A n \in KeyNames : Held(Ctl(key, n))' = Held(Ctl(key, n))
  BY <1>3
<1>8. Live(key)' = Live(key)
  BY <1>7 DEF Live
<1>9. "type" \in KeyNames /\ "kfA" \in KeyNames /\ "kfB" \in KeyNames
  BY DEF KeyNames
<1> DEFINE c == Ctl(key, "type")
<1>10. (Due(c) <=> KeyDue(m, k)) /\ (Due(c)' <=> KeyDue(m, k)')
  BY <1>9, KeyDueIs
<1>11. c \in Everything /\ Stage(c) = 7 /\ key \in Keys
  BY <1>9, KeyControls
<1> HIDE DEF CmdT, all, block, c
<1>12. CASE p = 7
  <2>1. s = "upstream_keyers"
    BY <1>12, SectionsAre
  <2>2. \A n \in KeyNames : Held(Ctl(key, n))' = "before"
    <3>1. ASSUME NEW n \in KeyNames PROVE Held(Ctl(key, n)) = "before"
      <4>1. Ctl(key, n) \in Everything /\ Stage(Ctl(key, n)) = 7
        BY KeyControls
      <4> QED BY <4>1, <1>2, <1>12 DEF FutureInv, Future
    <3> QED BY <3>1, <1>3
  <2>3. Due(c)' <=> Reached(c)
    <3>1. Stage(c) = run.next /\ run.next \in 1..14
      BY <1>1, <1>11, <1>12
    <3> QED BY <3>1, <1>1, <1>2, <1>11, DueAtStart
  <2>4. Reached(c) <=> k \in MeOpt(m).usk /\ m < MeCount
    <3>1. c[1] = key /\ key # All /\ key[1] = "key" /\ key[2] = m /\ key[3] = k
      BY CtlParts, WhereParts, WheresDiffer DEF c
    <3>2. Selected(c) <=> k \in MeOpt(m).usk
      BY <3>1 DEF Selected
    <3> HIDE DEF key
    <3> QED BY <3>1, <3>2 DEF Reached
  <2>5. IF k \in MeOpt(m).usk /\ m < MeCount
        THEN \E o \in Nat : Stands(all, o, block, key)
        ELSE \A i \in 1..Len(all) : all[i].c[1] # key
    BY <2>1, <1>2, KeyCommands DEF all, block
  <2>6. \A i \in 1..Len(Out) : Out[i].c[1] # key
    BY <1>2, <1>11, <1>12, NoneOfKey
  <2>7. CASE k \in MeOpt(m).usk /\ m < MeCount
    <3>1. PICK o \in Nat : Stands(all, o, block, key)
      BY <2>5, <2>7
    <3> DEFINE to == Len(Out) + o
    <3>2. Stands(Out', to, block, key)
      <4> HIDE DEF key
      <4> QED BY <3>1, <2>6, <1>5, <1>6, StandsBehind
    <3>3. to \in Int /\ to + Len(block) >= 0 /\ Done(to) = 0
      BY <1>5, <1>6 DEF Done
    <3> HIDE DEF to
    <3>4. KeyAt(Live(key)', Done(to), opts.keyframes)
      <4>1. Live(key)'["kfA"] = "before" /\ Live(key)'["kfB"] = "before"
        BY <2>2, <1>9 DEF Live
      <4> QED BY <4>1, <3>3, <1>2 DEF KeyAt
    <3>5. /\ to \in Int /\ to + Len(block') >= 0 /\ Stands(Out', to, block', key)
          /\ KeyAt(Live(key)', Done(to), opts'.keyframes)
      BY <3>2, <3>3, <3>4, <1>6
    <3>6. KeyDue(m, k)'
      BY <1>10, <2>3, <2>4, <2>7
    <3> QED BY <3>5, <3>6, Zenon DEF KeyOut, block
  <2>8. CASE ~(k \in MeOpt(m).usk /\ m < MeCount)
    <3>1. \A i \in 1..Len(all) : all[i].c[1] # key
      BY <2>5, <2>8
    <3>2. \A i \in 1..Len(Out') : Out'[i].c[1] # key
      <4> SUFFICES ASSUME NEW i \in 1..Len(Out') PROVE Out'[i].c[1] # key
        OBVIOUS
      <4>1. CASE i <= Len(Out)
        <5>1. i \in 1..Len(Out) /\ Out'[i] = Out[i]
          BY <4>1, <1>5
        <5> QED BY <5>1, <2>6
      <4>2. CASE ~(i <= Len(Out))
        <5>1. i - Len(Out) \in 1..Len(all) /\ Out'[i] = all[i - Len(Out)]
          BY <4>2, <1>5
        <5> QED BY <5>1, <3>1
      <4> QED BY <4>1, <4>2
    <3>3. ~KeyDue(m, k)'
      BY <1>10, <2>3, <2>4, <2>8
    <3> QED BY <2>2, <3>2, <3>3, Zenon DEF KeyOut
  <2> QED BY <2>7, <2>8
<1>13. CASE p # 7
  <2>1. run.next >= 8
    BY <1>1, <1>13
  <2>2. KeyOut(m, k)
    BY <2>1, <1>2 DEF KeysInv
  <2>3. KeyDue(m, k)' <=> KeyDue(m, k)
    <3>1. Stage(c) # p
      BY <1>11, <1>13
    <3>2. Due(c)' <=> Due(c)
      BY <3>1, <1>1, <1>11, DueElsewhere
    <3> QED BY <3>2, <1>10
  <2>4. \A i \in 1..Len(all) : all[i].c[1] # key
    <3> SUFFICES ASSUME NEW i \in 1..Len(all), all[i].c[1] = key PROVE FALSE
      OBVIOUS
    <3>1. Stage(all[i].c) = 7
      BY <1>11, KeyStages
    <3> QED BY <3>1, <1>4, <1>13
  <2>5. Failed(key)' <=> Failed(key)
    BY <1>1 DEF Failed, Faults
  <2>6. CASE KeyDue(m, k) /\ Failed(key)
    BY <2>3, <2>5, <2>6, Zenon DEF KeyOut
  <2>7. CASE KeyDue(m, k) /\ ~Failed(key)
    <3>1. PICK o \in Int : /\ o + Len(block) >= 0 /\ Stands(Out, o, block, key)
                           /\ KeyAt(Live(key), Done(o), opts.keyframes)
      BY <2>2, <2>7, Zenon DEF KeyOut, block
    <3>2. Stands(Out', o, block, key)
      <4> HIDE DEF key
      <4> QED BY <3>1, <2>4, <1>5, <1>6, StandsBefore
    <3>3. /\ o + Len(block') >= 0 /\ Stands(Out', o, block', key)
          /\ KeyAt(Live(key)', Done(o), opts'.keyframes)
      BY <3>1, <3>2, <1>6, <1>8
    <3> QED BY <3>3, <2>3, <2>7, Zenon DEF KeyOut, block
  <2>8. CASE ~KeyDue(m, k)
    <3>1. /\ \A i \in 1..Len(Out) : Out[i].c[1] # key
          /\ \A n \in KeyNames : Held(Ctl(key, n)) = "before"
      BY <2>2, <2>8, Zenon DEF KeyOut
    <3>2. \A i \in 1..Len(Out') : Out'[i].c[1] # key
      <4> SUFFICES ASSUME NEW i \in 1..Len(Out') PROVE Out'[i].c[1] # key
        OBVIOUS
      <4>1. CASE i <= Len(Out)
        <5>1. i \in 1..Len(Out) /\ Out'[i] = Out[i]
          BY <4>1, <1>5
        <5> QED BY <5>1, <3>1
      <4>2. CASE ~(i <= Len(Out))
        <5>1. i - Len(Out) \in 1..Len(all) /\ Out'[i] = all[i - Len(Out)]
          BY <4>2, <1>5
        <5> QED BY <5>1, <2>4
      <4> QED BY <4>1, <4>2
    <3>3. \A n \in KeyNames : Held(Ctl(key, n))' = "before"
      BY <3>1, <1>7
    <3> QED BY <2>3, <2>8, <3>2, <3>3, Zenon DEF KeyOut
  <2> QED BY <2>6, <2>7, <2>8
<1> QED BY <1>12, <1>13

\* A section starts.
LEMMA BeginKeeps == ApplyInv /\ StartSection => ApplyInv'
<1> SUFFICES ASSUME ApplyInv, StartSection PROVE ApplyInv'
  OBVIOUS
<1>1. RunTypes /\ FutureInv
  BY DEF ApplyInv
<1>2. run.next \in 1..14 /\ run'.next = run.next + 1 /\ switcher' = switcher
  BY <1>1, StartSteps
<1>3. FutureInv'
  <2>1. \A c \in Everything : Future(c)' => Future(c)
    BY <1>2, StagesInRange DEF Future
  <2>2. \A c : Held(c)' = Held(c)
    BY <1>2 DEF Held
  <2> QED BY <2>1, <2>2, <1>1 DEF FutureInv
<1> QED BY <1>1, <1>3, NewRunTypes, BeginSingles, BeginKeys DEF ApplyInv

\* What of a step changes nothing that the switcher is to get keeps the rest.
LEMMA StayKeeps ==
    ASSUME ApplyInv, RunTypes', opts' = opts, switcher' = switcher, Out' = Out,
           run'.next = run.next, run'.passed = run.passed, run'.skipped = run.skipped,
           Faults' = Faults
    PROVE  ApplyInv'
<1>1. \A c : /\ Held(c)' = Held(c) /\ (Future(c)' <=> Future(c))
             /\ (OnItsWay(c)' <=> OnItsWay(c)) /\ (Failed(c)' <=> Failed(c))
             /\ Live(c)' = Live(c)
  BY DEF Held, Future, OnItsWay, Failed, Live
<1>2. \A c : (Due(c)' <=> Due(c)) /\ (Excused(c) => Excused(c)')
  BY DueKept, ExcusedKept
<1>3. \A m, k : KeyOut(m, k)' <=> KeyOut(m, k)
  BY <1>1 DEF KeyOut, KeyDue, MeOpt, UskBlock
<1>4. FutureInv => FutureInv'
  BY <1>1 DEF FutureInv
<1>5. SinglesInv => SinglesInv'
  <2>1. \A c : SingleOut(c) => SingleOut(c)'
    <3> HIDE DEF Held, OnItsWay, Due, Excused
    <3> QED BY <1>1, <1>2 DEF SingleOut
  <2> QED BY <2>1, <1>1 DEF SinglesInv
<1>6. KeysInv => KeysInv'
  BY <1>3 DEF KeysInv
<1> QED BY <1>4, <1>5, <1>6 DEF ApplyInv

\* A section that is left has no control that is due, but excused ones.
LEMMA LeaveDue ==
    ASSUME RunTypes, LeaveSection, NEW c \in Everything, Stage(c) = run.next
    PROVE  Excused(c)' \/ ~Due(c)'
<1> DEFINE s == Sections[run.next]
<1>1. /\ run.next \in 1..14 /\ opts' = opts
      /\ ~GatedOn(s) \/ (s \in {"macros", "video_mode"} /\ s \in run'.skipped)
  BY LeaveSteps
<1>2. CASE ~GatedOn(s)
  <2>1. ~Selected(c)
    BY <1>2, GateOff DEF RunTypes
  <2>2. ~Selected(c)'
    BY <1>1, <2>1, SelectedKept
  <2> QED BY <2>2 DEF Due
<1>3. CASE s = "macros" /\ s \in run'.skipped
  <2>1. run.next = 12
    <3>1. Sections[run.next] = Sections[12]
      BY <1>3, SectionsAre
    <3> QED BY <3>1, <1>1, SectionsDiffer
  <2>2. c \notin OfKeys /\ c \notin OfMes
    BY <2>1, KeyStages, StageOfMe DEF OfMes
  <2>3. PICK n \in SwitcherNames : c = Ctl(All, n)
    BY <2>2, EverythingIs DEF OfSwitcher
  <2>4. n \in NamesOf("macros")
    BY <2>1, <2>3, StageOfSwitcher, SectionsAre
  <2>5. n \in {"macro1", "macro2"}
    BY <2>4 DEF NamesOf
  <2> QED BY <1>3, <2>3, <2>5, CtlParts DEF Excused
<1>4. CASE s = "video_mode" /\ s \in run'.skipped
  <2>1. run.next = 1
    <3>1. Sections[run.next] = Sections[1]
      BY <1>4, SectionsAre
    <3> QED BY <3>1, <1>1, SectionsDiffer
  <2>2. c \notin OfKeys /\ c \notin OfMes
    BY <2>1, KeyStages, StageOfMe DEF OfMes
  <2>3. PICK n \in SwitcherNames : c = Ctl(All, n)
    BY <2>2, EverythingIs DEF OfSwitcher
  <2>4. n \in NamesOf("video_mode")
    BY <2>1, <2>3, StageOfSwitcher, SectionsAre
  <2>5. n = "video_mode"
    BY <2>4 DEF NamesOf
  <2> QED BY <1>4, <2>3, <2>5, CtlParts DEF Excused
<1> QED BY <1>1, <1>2, <1>3, <1>4

\* A section is left.
LEMMA LeaveKeeps == ApplyInv /\ LeaveSection => ApplyInv'
<1> SUFFICES ASSUME ApplyInv, LeaveSection PROVE ApplyInv'
  OBVIOUS
<1> DEFINE p == run.next
           s == Sections[p]
<1>1. RunTypes /\ FutureInv /\ SinglesInv /\ KeysInv
  BY DEF ApplyInv
<1>2. /\ p \in 1..14 /\ ~Working /\ opts' = opts /\ switcher' = switcher
      /\ outbox' = outbox /\ lost' = lost /\ Shaped(run')
      /\ run'.next = p + 1 /\ run'.at = run.at /\ run'.cmds = run.cmds
      /\ run'.errors = run.errors /\ run.skipped \subseteq run'.skipped
      /\ run'.passed = run.passed
      /\ ~GatedOn(s) \/ (s \in {"macros", "video_mode"} /\ s \in run'.skipped)
  BY <1>1, LeaveSteps
<1>3. Out' = Out /\ Faults' = Faults /\ run.cmds = <<>> /\ ~Working'
  BY <1>1, <1>2 DEF Out, Faults, RunTypes, Working
<1>4. /\ \A i \in 1..Len(Out) : Sound(Out[i]) /\ Stage(Out[i].c) < p
      /\ \A i, j \in 1..Len(Out) : i < j => Stage(Out[i].c) <= Stage(Out[j].c)
  BY <1>1 DEF RunTypes
<1>5. \A c : Held(c)' = Held(c)
  BY <1>2 DEF Held
<1>6. RunTypes'
  <2>1. \A i \in 1..Len(Out') : Sound(Out'[i]) /\ Stage(Out'[i].c) < run'.next
    <3> SUFFICES ASSUME NEW i \in 1..Len(Out) PROVE Sound(Out[i]) /\ Stage(Out[i].c) < p + 1
      BY <1>2, <1>3
    <3>1. Sound(Out[i]) /\ Stage(Out[i].c) < p /\ Stage(Out[i].c) \in 1..14
      BY <1>4, SoundStages
    <3>2. \A a, b \in 1..14 : a < b => a < b + 1
      OBVIOUS
    <3> HIDE DEF p
    <3> QED BY <3>1, <3>2, <1>2, Zenon
  <2>2. \A x \in run'.passed : \E n \in 1..14 : n < run'.next /\ x[1] = Sections[n]
    <3> SUFFICES ASSUME NEW x \in run.passed PROVE \E n \in 1..14 : n < p + 1 /\ x[1] = Sections[n]
      BY <1>2
    <3>1. PICK n \in 1..14 : n < p /\ x[1] = Sections[n]
      BY <1>1 DEF RunTypes
    <3>2. n < p + 1
      BY <3>1, <1>2
    <3> QED BY <3>1, <3>2
  <2>3. \A i, j \in 1..Len(Out') : i < j => Stage(Out'[i].c) <= Stage(Out'[j].c)
    BY <1>3, <1>4
  <2>4. outbox' \in Seq(CmdT) /\ run'.cmds \in Seq(CmdT) /\ opts' \in Options
    BY <1>1, <1>2 DEF RunTypes
  <2>5. Len(run'.cmds) = 0 /\ run'.cmds = <<>>
    BY <1>2, <1>3
  <2>6. \A i \in 1..Len(run'.cmds) : Stage(run'.cmds[i].c) = run'.next - 1
    BY <2>5
  <2>7. run'.next \in 1..15
    BY <1>2
  <2> QED BY <1>2, <1>3, <2>1, <2>2, <2>3, <2>4, <2>5, <2>6, <2>7 DEF RunTypes
<1>7. FutureInv'
  <2>1. \A c \in Everything : Future(c)' => Future(c)
    BY <1>2, StagesInRange DEF Future
  <2> QED BY <2>1, <1>1, <1>5 DEF FutureInv
<1>8. \A c : (Due(c)' <=> Due(c)) /\ (OnItsWay(c)' <=> OnItsWay(c)) /\ (Excused(c) => Excused(c)')
  BY <1>2, <1>3, DueKept, ExcusedKept DEF OnItsWay
<1>9. SinglesInv'
  <2> SUFFICES ASSUME NEW c \in Singles, ~Future(c)' PROVE SingleOut(c)'
    BY DEF SinglesInv
  <2>1. c \in Everything /\ Stage(c) \in 1..14
    BY SingleWanted, SingleStages
  <2>2. Stage(c) < p \/ Stage(c) = p
    BY <2>1, <1>2 DEF Future
  <2>3. CASE Stage(c) < p
    <3>1. SingleOut(c)
      BY <2>1, <2>3, <1>1, <1>2 DEF SinglesInv, Future
    <3> HIDE DEF Held, OnItsWay, Due, Excused
    <3> QED BY <3>1, <1>5, <1>8 DEF SingleOut
  <2>4. CASE Stage(c) = p
    <3>1. Held(c) = "before"
      BY <2>1, <2>4, <1>1, <1>2 DEF FutureInv, Future
    <3>2. ~OnItsWay(c)
      <4>1. \A i \in 1..Len(Out) : Stage(Out[i].c) # p
        BY <1>2, <1>4
      <4> QED BY <4>1, <2>4 DEF OnItsWay
    <3>3. Excused(c)' \/ ~Due(c)'
      BY <2>1, <2>4, <1>1, LeaveDue
    <3> HIDE DEF Held, OnItsWay, Due, Excused
    <3> QED BY <3>1, <3>2, <3>3, <1>5, <1>8 DEF SingleOut
  <2> QED BY <2>2, <2>3, <2>4
<1>10. KeysInv'
  <2> SUFFICES ASSUME p + 1 >= 8, NEW m \in MEs, NEW k \in KeyerNos PROVE KeyOut(m, k)'
    BY <1>2 DEF KeysInv
  <2>1. \A key : Live(key)' = Live(key) /\ (Failed(key)' <=> Failed(key))
    BY <1>3, <1>5 DEF Live, Failed
  <2>2. CASE p = 7
    <3> DEFINE key == Key(m, k)
    <3>1. "type" \in KeyNames /\ key \in Keys
      BY DEF KeyNames, Keys
    <3>2. ~GatedOn(s)
      <4>1. s \notin {"macros", "video_mode"}
        BY <2>2, SectionsAre
      <4> QED BY <4>1, <1>2
    <3>3. ~Selected(Ctl(key, "type"))
      <4>1. Ctl(key, "type") \in Everything /\ Stage(Ctl(key, "type")) = 7
        BY <3>1, KeyControls
      <4>2. opts \in Options /\ ~GatedOn(Sections[Stage(Ctl(key, "type"))])
        BY <4>1, <3>2, <2>2, <1>1 DEF RunTypes
      <4> QED BY <4>1, <4>2, GateOff
    <3>4. ~KeyDue(m, k)'
      <4>1. ~Due(Ctl(key, "type"))
        BY <3>3 DEF Due
      <4>2. ~Due(Ctl(key, "type"))'
        BY <4>1, <1>8
      <4> QED BY <4>2, <3>1, KeyDueIs
    <3>5. \A n \in KeyNames : Held(Ctl(key, n))' = "before"
      <4>1. ASSUME NEW n \in KeyNames PROVE Held(Ctl(key, n)) = "before"
        <5>1. Ctl(key, n) \in Everything /\ Stage(Ctl(key, n)) = 7
          BY KeyControls
        <5> QED BY <5>1, <1>1, <2>2 DEF FutureInv, Future
      <4> QED BY <4>1, <1>5
    <3>6. \A i \in 1..Len(Out') : Out'[i].c[1] # key
      BY <1>1, <1>3, <2>2, <3>1, NoneOfKey
    <3> QED BY <3>4, <3>5, <3>6, Zenon DEF KeyOut
  <2>3. CASE p # 7
    <3>1. KeyOut(m, k)
      BY <2>3, <1>1, <1>2 DEF KeysInv
    <3>2. KeyDue(m, k)' <=> KeyDue(m, k)
      BY <1>2 DEF KeyDue, MeOpt
    <3>3. UskBlock(m, k)' = UskBlock(m, k) /\ opts'.keyframes = opts.keyframes
      BY <1>2 DEF UskBlock
    <3> QED BY <3>1, <3>2, <3>3, <2>1, <1>3, <1>5, Zenon DEF KeyOut
  <2> QED BY <2>2, <2>3
<1> QED BY <1>6, <1>7, <1>9, <1>10 DEF ApplyInv

\* A command is sent: it is on its way before and after.
LEMMA SendKeeps == ApplyInv /\ SendNext => ApplyInv'
<1> SUFFICES ASSUME ApplyInv, SendNext PROVE ApplyInv'
  OBVIOUS
<1>1. RunTypes /\ run.cmds # <<>> /\ Working
  BY DEF ApplyInv, SendNext, HasNext
<1>2. PICK a, b, c, e, f, g, h :
         run = [next |-> a, at |-> b, cmds |-> c, errors |-> e, skipped |-> f, passed |-> g,
                raised |-> h]
  BY <1>1 DEF RunTypes, Shaped
<1>3. /\ run' = [run EXCEPT !.cmds = Tail(@)] /\ outbox' = Append(outbox, Head(run.cmds))
      /\ opts' = opts /\ lost' = lost /\ switcher' = switcher
  BY DEF SendNext
<1>4. run' = [next |-> a, at |-> b, cmds |-> Tail(c), errors |-> e, skipped |-> f, passed |-> g,
              raised |-> h]
  BY <1>2, <1>3
<1>5. /\ Shaped(run') /\ run'.next = run.next /\ run'.at = run.at /\ run'.cmds = Tail(run.cmds)
      /\ run'.errors = run.errors /\ run'.skipped = run.skipped /\ run'.passed = run.passed
  BY <1>2, <1>4 DEF Shaped
<1>6. /\ Out' = Out /\ outbox' \in Seq(CmdT)
      /\ Tail(run.cmds) \in Seq(CmdT)
      /\ \A i \in 1..Len(Tail(run.cmds)) : Tail(run.cmds)[i] = run.cmds[i + 1]
                                           /\ i + 1 \in 1..Len(run.cmds)
  <2>1. outbox \in Seq(CmdT) /\ run.cmds \in Seq(CmdT)
    BY <1>1 DEF RunTypes
  <2> HIDE DEF CmdT
  <2>2. Append(outbox, Head(run.cmds)) \o Tail(run.cmds) = outbox \o run.cmds
        /\ outbox' \in Seq(CmdT)
    BY <2>1, <1>1, <1>3, HeadMoves
  <2>3. Out' = Out
    BY <2>2, <1>3, <1>5 DEF Out
  <2>4. Tail(run.cmds) \in Seq(CmdT) /\ \A i \in 1..Len(Tail(run.cmds)) :
            Tail(run.cmds)[i] = run.cmds[i + 1] /\ i + 1 \in 1..Len(run.cmds)
    BY <2>1, <1>1, TailIs
  <2> QED BY <2>2, <2>3, <2>4
<1>7. Faults' = Faults /\ Working'
  BY <1>1, <1>3, <1>5 DEF Faults, Working
<1>8. RunTypes'
  <2>1. \A i \in 1..Len(run'.cmds) : Stage(run'.cmds[i].c) = run'.next - 1
    <3>1. \A i \in 1..Len(run.cmds) : Stage(run.cmds[i].c) = run.next - 1
      BY <1>1 DEF RunTypes
    <3> HIDE DEF Stage
    <3> QED BY <3>1, <1>5, <1>6
  <2>2. \A i \in 1..Len(Out') : Sound(Out'[i]) /\ Stage(Out'[i].c) < run'.next
    BY <1>1, <1>5, <1>6 DEF RunTypes
  <2>3. \A i, j \in 1..Len(Out') : i < j => Stage(Out'[i].c) <= Stage(Out'[j].c)
    BY <1>1, <1>6 DEF RunTypes
  <2>4. /\ \A x \in run'.passed : \E n \in 1..14 : n < run'.next /\ x[1] = Sections[n]
        /\ opts' \in Options /\ run'.next \in 1..15
        /\ run'.next > 1 /\ run'.at = Sections[run'.next - 1]
    BY <1>1, <1>3, <1>5 DEF RunTypes
  <2>5. run'.cmds \in Seq(CmdT)
    BY <1>5, <1>6
  <2> QED BY <1>5, <1>6, <1>7, <2>1, <2>2, <2>3, <2>4, <2>5 DEF RunTypes
<1> QED BY <1>3, <1>5, <1>6, <1>7, <1>8, StayKeeps

\* A block still stands when a command of another place goes.
LEMMA StandsWithout ==
    ASSUME NEW q, NEW r, NEW j \in 1..Len(q), Without(r, q, j), Len(q) \in Nat, NEW o \in Int,
           NEW block, Len(block) \in Nat, NEW key, Stands(q, o, block, key),
           \A x \in 1..Len(block) : block[x].c[1] = key,
           q[j].c[1] # key
    PROVE  \E to \in Int : /\ Stands(r, to, block, key) /\ Done(to) = Done(o)
                           /\ o + Len(block) >= 0 => to + Len(block) >= 0
<1>1. /\ Len(r) = Len(q) - 1
      /\ \A i \in 1..Len(r) : i < j => r[i] = q[i]
      /\ \A i \in 1..Len(r) : ~(i < j) => r[i] = q[i + 1]
  BY DEF Without
<1>2. /\ \A x \in 1..Len(block) : o + x >= 1 => o + x <= Len(q) /\ q[o + x] = block[x]
      /\ \A i \in 1..Len(q) : q[i].c[1] = key => i - o \in 1..Len(block)
  BY DEF Stands
<1>3. j > o + Len(block) \/ j <= o
  <2> SUFFICES ASSUME j <= o + Len(block), j > o PROVE FALSE
    OBVIOUS
  <2>1. j - o \in 1..Len(block) /\ o + (j - o) = j
    OBVIOUS
  <2>2. q[j] = block[j - o]
    BY <2>1, <1>2
  <2> QED BY <2>1, <2>2
<1>4. CASE j > o + Len(block)
  <2>1. ASSUME NEW x \in 1..Len(block), o + x >= 1
        PROVE  o + x <= Len(r) /\ r[o + x] = block[x]
    <3>1. o + x <= Len(q) /\ q[o + x] = block[x] /\ o + x < j /\ o + x \in 1..Len(r)
      BY <2>1, <1>1, <1>2, <1>4
    <3> QED BY <3>1, <1>1
  <2>2. ASSUME NEW i \in 1..Len(r), r[i].c[1] = key
        PROVE  i - o \in 1..Len(block)
    <3>1. CASE i < j
      <4>1. r[i] = q[i] /\ i \in 1..Len(q)
        BY <3>1, <1>1
      <4> QED BY <4>1, <2>2, <1>2
    <3>2. CASE ~(i < j)
      <4>1. r[i] = q[i + 1] /\ i + 1 \in 1..Len(q)
        BY <3>2, <1>1
      <4>2. (i + 1) - o \in 1..Len(block)
        BY <4>1, <2>2, <1>2
      <4> QED BY <4>2, <3>2, <1>4
    <3> QED BY <3>1, <3>2
  <2>3. Stands(r, o, block, key)
    BY <2>1, <2>2 DEF Stands
  <2> QED BY <2>3
<1>5. CASE j <= o
  <2>1. ASSUME NEW x \in 1..Len(block), (o - 1) + x >= 1
        PROVE  (o - 1) + x <= Len(r) /\ r[(o - 1) + x] = block[x]
    <3>1. o + x <= Len(q) /\ q[o + x] = block[x]
      BY <1>2, <1>5
    <3>2. (o - 1) + x \in 1..Len(r) /\ ~((o - 1) + x < j) /\ ((o - 1) + x) + 1 = o + x
      BY <3>1, <2>1, <1>1, <1>5
    <3>3. r[(o - 1) + x] = q[((o - 1) + x) + 1]
      BY <3>2, <1>1
    <3> QED BY <3>1, <3>2, <3>3
  <2>2. ASSUME NEW i \in 1..Len(r), r[i].c[1] = key
        PROVE  i - (o - 1) \in 1..Len(block)
    <3>1. CASE i < j
      <4>1. r[i] = q[i] /\ i \in 1..Len(q)
        BY <3>1, <1>1
      <4>2. i - o \in 1..Len(block)
        BY <4>1, <2>2, <1>2
      <4> QED BY <4>2, <3>1, <1>5
    <3>2. CASE ~(i < j)
      <4>1. r[i] = q[i + 1] /\ i + 1 \in 1..Len(q)
        BY <3>2, <1>1
      <4>2. (i + 1) - o \in 1..Len(block)
        BY <4>1, <2>2, <1>2
      <4> QED BY <4>2
    <3> QED BY <3>1, <3>2
  <2>3. Stands(r, o - 1, block, key)
    BY <2>1, <2>2 DEF Stands
  <2>4. Done(o - 1) = Done(o) /\ o - 1 \in Int /\ (o - 1) + Len(block) >= 0
    BY <1>5 DEF Done
  <2> QED BY <2>3, <2>4
<1> QED BY <1>3, <1>4, <1>5

\* Of a block whose command is the first, one more is done when it goes.
LEMMA StandsOn ==
    ASSUME NEW q, NEW r, Without(r, q, 1), Len(q) \in Nat \ {0}, NEW o \in Int,
           NEW block, Len(block) \in Nat, NEW key, Stands(q, o, block, key),
           q[1].c[1] = key
    PROVE  /\ -o \in 0..Len(block) - 1 /\ Done(o) = -o /\ q[1] = block[-o + 1]
           /\ (o - 1) + Len(block) >= 0 /\ Stands(r, o - 1, block, key)
           /\ Done(o - 1) = -o + 1
<1>1. Len(r) = Len(q) - 1 /\ \A i \in 1..Len(r) : r[i] = q[i + 1]
  BY DEF Without
<1>2. /\ \A x \in 1..Len(block) : o + x >= 1 => o + x <= Len(q) /\ q[o + x] = block[x]
      /\ \A i \in 1..Len(q) : q[i].c[1] = key => i - o \in 1..Len(block)
  BY DEF Stands
<1>3. 1 - o \in 1..Len(block)
  BY <1>2
<1>4. q[1] = block[-o + 1]
  <2>1. -o + 1 \in 1..Len(block) /\ o + (-o + 1) = 1
    BY <1>3
  <2> QED BY <2>1, <1>2
<1>5. ASSUME NEW x \in 1..Len(block), (o - 1) + x >= 1
      PROVE  (o - 1) + x <= Len(r) /\ r[(o - 1) + x] = block[x]
  <2>1. o + x <= Len(q) /\ q[o + x] = block[x]
    BY <1>2, <1>5
  <2>2. (o - 1) + x \in 1..Len(r) /\ ((o - 1) + x) + 1 = o + x
    BY <2>1, <1>1, <1>5
  <2> QED BY <2>1, <2>2, <1>1
<1>6. ASSUME NEW i \in 1..Len(r), r[i].c[1] = key
      PROVE  i - (o - 1) \in 1..Len(block)
  <2>1. i + 1 \in 1..Len(q) /\ q[i + 1].c[1] = key
    BY <1>1, <1>6
  <2>2. (i + 1) - o \in 1..Len(block)
    BY <2>1, <1>2
  <2> QED BY <2>2
<1>7. Stands(r, o - 1, block, key)
  BY <1>5, <1>6 DEF Stands
<1>8. /\ -o \in 0..Len(block) - 1 /\ Done(o) = -o /\ Done(o - 1) = -o + 1
      /\ (o - 1) + Len(block) >= 0
  BY <1>3 DEF Done
<1> QED BY <1>4, <1>7, <1>8

\* What is on its way when one command goes
LEMMA TakenOnItsWay ==
    ASSUME Len(Out) \in Nat, NEW j \in 1..Len(Out), Without(Out', Out, j), NEW c
    PROVE  OnItsWay(c) <=> c = Out[j].c \/ OnItsWay(c)'
<1>1. /\ Len(Out') = Len(Out) - 1
      /\ \A i \in 1..Len(Out') : i < j => Out'[i] = Out[i]
      /\ \A i \in 1..Len(Out') : ~(i < j) => Out'[i] = Out[i + 1]
  BY DEF Without
<1>2. ASSUME NEW i \in 1..Len(Out), Out[i].c = c, c # Out[j].c
      PROVE  \E x \in 1..Len(Out') : Out'[x].c = c
  <2>1. CASE i < j
    <3>1. i \in 1..Len(Out') /\ Out'[i] = Out[i]
      BY <2>1, <1>1
    <3> QED BY <3>1, <1>2
  <2>2. CASE i > j
    <3>1. i - 1 \in 1..Len(Out') /\ ~(i - 1 < j) /\ (i - 1) + 1 = i
      BY <2>2, <1>1
    <3>2. Out'[i - 1] = Out[i]
      BY <3>1, <1>1
    <3> QED BY <3>1, <3>2, <1>2
  <2>3. i # j
    BY <1>2
  <2> QED BY <2>1, <2>2, <2>3
<1>3. ASSUME NEW i \in 1..Len(Out'), Out'[i].c = c
      PROVE  \E x \in 1..Len(Out) : Out[x].c = c
  <2>1. CASE i < j
    <3>1. i \in 1..Len(Out) /\ Out'[i] = Out[i]
      BY <2>1, <1>1
    <3> QED BY <3>1, <1>3
  <2>2. CASE ~(i < j)
    <3>1. i + 1 \in 1..Len(Out) /\ Out'[i] = Out[i + 1]
      BY <2>2, <1>1
    <3> QED BY <3>1, <1>3
  <2> QED BY <2>1, <2>2
<1>4. (OnItsWay(c)' <=> \E x \in 1..Len(Out') : Out'[x].c = c)
      /\ (OnItsWay(c) <=> \E x \in 1..Len(Out) : Out[x].c = c)
  BY DEF OnItsWay
<1> HIDE DEF OnItsWay
<1> QED BY <1>2, <1>3, <1>4, Zenon

\* Of a keyer that the command is not for, or that it failed for, nothing changes.
LEMMA OtherKeyStays ==
    ASSUME RunTypes, NEW m \in MEs, NEW k \in KeyerNos, KeyOut(m, k), opts' = opts,
           NEW j \in 1..Len(Out), Without(Out', Out, j), run'.passed = run.passed,
           Faults \subseteq Faults',
           \A n \in KeyNames : Held(Ctl(Key(m, k), n))' = Held(Ctl(Key(m, k), n)),
           Out[j].c[1] # Key(m, k) \/ Failed(Key(m, k))'
    PROVE  KeyOut(m, k)'
<1> DEFINE key == Key(m, k)
           block == UskBlock(m, k)
<1>1. Len(Out) \in Nat /\ opts.keyframes \in BOOLEAN
  BY OptionsAre, OutIs DEF RunTypes
<1>2. /\ Len(block) \in Nat /\ block' = block
      /\ \A x \in 1..Len(block) : block[x].c[1] = key
  BY <1>1, BlockElements DEF UskBlock
<1>3. (KeyDue(m, k)' <=> KeyDue(m, k)) /\ opts'.keyframes = opts.keyframes
  BY DEF KeyDue, MeOpt
<1>4. Live(key)' = Live(key)
  BY DEF Live
<1>5. Failed(key) => Failed(key)'
  BY DEF Failed
<1> HIDE DEF block
<1>6. CASE KeyDue(m, k) /\ Failed(key)'
  BY <1>3, <1>6, Zenon DEF KeyOut
<1>7. CASE KeyDue(m, k) /\ ~Failed(key)'
  <2>1. PICK o \in Int : /\ o + Len(block) >= 0 /\ Stands(Out, o, block, key)
                         /\ KeyAt(Live(key), Done(o), opts.keyframes)
    BY <1>5, <1>7, Zenon DEF KeyOut, block
  <2>2. Out[j].c[1] # key
    BY <1>7
  <2>3. PICK to \in Int : /\ Stands(Out', to, block, key) /\ Done(to) = Done(o)
                          /\ to + Len(block) >= 0
    <3> HIDE DEF key
    <3> QED BY <1>1, <1>2, <2>1, <2>2, StandsWithout
  <2>4. /\ to + Len(block') >= 0 /\ Stands(Out', to, block', key)
        /\ KeyAt(Live(key)', Done(to), opts'.keyframes)
    BY <2>1, <2>3, <1>2, <1>3, <1>4
  <2> QED BY <2>4, <1>3, <1>7, Zenon DEF KeyOut, block
<1>8. CASE ~KeyDue(m, k)
  <2>1. /\ \A i \in 1..Len(Out) : Out[i].c[1] # key
        /\ \A n \in KeyNames : Held(Ctl(key, n)) = "before"
    BY <1>8, Zenon DEF KeyOut
  <2>2. \A i \in 1..Len(Out') : Out'[i].c[1] # key
    <3>1. \A i \in 1..Len(Out') : \E x \in 1..Len(Out) : Out'[i] = Out[x]
      BY <1>1 DEF Without
    <3> QED BY <2>1, <3>1
  <2>3. \A n \in KeyNames : Held(Ctl(key, n))' = "before"
    BY <2>1
  <2> QED BY <2>2, <2>3, <1>3, <1>8, Zenon DEF KeyOut
<1> QED BY <1>6, <1>7, <1>8

\* A command goes from what is on its way: it arrived, or it is noted or lost.
Taken(j) ==
    /\ Without(Out', Out, j) /\ opts' = opts
    /\ run'.next = run.next /\ run'.passed = run.passed /\ run'.skipped = run.skipped
    /\ Faults \subseteq Faults'
    /\ \/ switcher' = switcher /\ Out[j].c \in Faults'
       \/ switcher' = Effect(Out[j]) /\ (j = 1 \/ Out[j].c \in Singles)

\* The types, when a command goes
LEMMA TakenTypes ==
    ASSUME RunTypes, NEW j \in 1..Len(Out), Without(Out', Out, j), opts' = opts, Shaped(run'),
           run'.next = run.next, run'.at = run.at, run'.passed = run.passed,
           outbox' \in Seq(CmdT), run'.cmds \in Seq(CmdT), ~Working => run'.cmds = <<>>,
           \A i \in 1..Len(run'.cmds) : Stage(run'.cmds[i].c) = run.next - 1
    PROVE  RunTypes'
<1>1. Len(Out) \in Nat
  BY OutIs
<1>2. /\ \A i \in 1..Len(Out) : Sound(Out[i]) /\ Stage(Out[i].c) < run.next
      /\ \A i, n \in 1..Len(Out) : i < n => Stage(Out[i].c) <= Stage(Out[n].c)
  BY DEF RunTypes
<1> DEFINE was(i) == IF i < j THEN i ELSE i + 1
<1>3. /\ \A i \in 1..Len(Out') : was(i) \in 1..Len(Out) /\ Out'[i] = Out[was(i)]
      /\ \A i, n \in 1..Len(Out') : i < n => was(i) < was(n)
  BY <1>1 DEF Without
<1> HIDE DEF was, Stage, Sound
<1>4. \A i \in 1..Len(Out') : Sound(Out'[i]) /\ Stage(Out'[i].c) < run'.next
  BY <1>2, <1>3
<1>5. \A i, n \in 1..Len(Out') : i < n => Stage(Out'[i].c) <= Stage(Out'[n].c)
  BY <1>2, <1>3
<1>6. Working' <=> Working
  BY DEF Working
<1>7. /\ \A x \in run'.passed : \E n \in 1..14 : n < run'.next /\ x[1] = Sections[n]
      /\ opts' \in Options /\ run'.next \in 1..15
      /\ Working => run'.next > 1 /\ run'.at = Sections[run'.next - 1]
  BY DEF RunTypes
<1>8. \A i \in 1..Len(run'.cmds) : Stage(run'.cmds[i].c) = run'.next - 1
  OBVIOUS
<1> QED BY <1>4, <1>5, <1>6, <1>7, <1>8 DEF RunTypes

\* The first of the queue goes.
LEMMA QueueTakes ==
    ASSUME RunTypes, Arrives \/ Loses
    PROVE  /\ 1 \in 1..Len(Out) /\ Taken(1) /\ RunTypes'
           /\ switcher' # switcher => Arrives
<1>1. /\ outbox # <<>> /\ outbox' = Tail(outbox) /\ run' = run /\ opts' = opts
      /\ \/ switcher' = Effect(Head(outbox)) /\ lost' = lost /\ Arrives
         \/ switcher' = switcher /\ lost' = lost \cup {Head(outbox).c}
  BY DEF Arrives, Loses
<1>2. /\ 1 \in 1..Len(Out) /\ Out[1] = Head(outbox) /\ Without(Out', Out, 1)
      /\ outbox' \in Seq(CmdT)
  <2>1. outbox \in Seq(CmdT) /\ run.cmds \in Seq(CmdT)
    BY DEF RunTypes
  <2> HIDE DEF CmdT
  <2>2. /\ 1 \in 1..Len(outbox \o run.cmds) /\ (outbox \o run.cmds)[1] = Head(outbox)
        /\ Without(Tail(outbox) \o run.cmds, outbox \o run.cmds, 1)
    BY <2>1, <1>1, HeadGoes
  <2>3. Out = outbox \o run.cmds /\ Out' = Tail(outbox) \o run.cmds
    BY <1>1 DEF Out
  <2>4. Tail(outbox) \in Seq(CmdT)
    BY <2>1, <1>1, TailIs
  <2> QED BY <2>2, <2>3, <2>4, <1>1
<1>3. Taken(1)
  <2>1. Faults \subseteq Faults'
    BY <1>1 DEF Faults
  <2>2. \/ switcher' = switcher /\ Out[1].c \in Faults'
        \/ switcher' = Effect(Out[1])
    BY <1>1, <1>2 DEF Faults
  <2> QED BY <2>1, <2>2, <1>1, <1>2 DEF Taken
<1>4. RunTypes'
  <2>1. /\ Shaped(run') /\ run'.cmds \in Seq(CmdT)
        /\ ~Working => run'.cmds = <<>>
        /\ \A i \in 1..Len(run'.cmds) : Stage(run'.cmds[i].c) = run.next - 1
    BY <1>1 DEF RunTypes
  <2>2. /\ run'.next = run.next /\ run'.at = run.at /\ run'.passed = run.passed
        /\ opts' = opts
    BY <1>1
  <2> HIDE DEF Shaped, Working, Stage, CmdT
  <2> QED BY <2>1, <2>2, <1>2, TakenTypes
<1> QED BY <1>1, <1>2, <1>3, <1>4

\* The first of the section at work goes: a macro, or a setter that raised.
LEMMA SectionTakes ==
    ASSUME RunTypes, UploadMacro \/ Raises
    PROVE  /\ Len(outbox) + 1 \in 1..Len(Out) /\ Taken(Len(outbox) + 1) /\ RunTypes'
           /\ switcher' # switcher => run.at = "macros" /\ Working
<1>1. /\ Working /\ run.cmds # <<>> /\ outbox' = outbox /\ lost' = lost /\ opts' = opts
      /\ \/ /\ run' = [run EXCEPT !.cmds = Tail(@)]
            /\ run.at = "macros" /\ switcher' = Effect(Head(run.cmds))
         \/ /\ run' = [run EXCEPT !.cmds = Tail(@), !.errors = @ \cup {Head(run.cmds).c}]
            /\ switcher' = switcher \/ (run.at = "macros" /\ switcher' = Effect(Head(run.cmds)))
  BY DEF UploadMacro, Raises, HasNext
<1>2. PICK a, b, c, e, f, g, h :
         run = [next |-> a, at |-> b, cmds |-> c, errors |-> e, skipped |-> f, passed |-> g,
                raised |-> h]
  BY DEF RunTypes, Shaped
<1> DEFINE hd == Head(run.cmds)
<1>3. \/ /\ run' = [next |-> a, at |-> b, cmds |-> Tail(c), errors |-> e, skipped |-> f,
                    passed |-> g, raised |-> h]
         /\ run.at = "macros" /\ switcher' = Effect(hd)
      \/ /\ run' = [next |-> a, at |-> b, cmds |-> Tail(c), errors |-> e \cup {hd.c},
                    skipped |-> f, passed |-> g, raised |-> h]
         /\ switcher' = switcher \/ (run.at = "macros" /\ switcher' = Effect(hd))
  BY <1>1, <1>2
<1> HIDE DEF hd
<1>4. /\ Shaped(run') /\ run'.next = run.next /\ run'.at = run.at /\ run'.cmds = Tail(run.cmds)
      /\ run'.skipped = run.skipped /\ run'.passed = run.passed
      /\ run.errors \subseteq run'.errors
      /\ \/ switcher' = switcher /\ hd.c \in run'.errors
         \/ switcher' = Effect(hd) /\ run.at = "macros"
  BY <1>2, <1>3 DEF Shaped
<1>5. /\ Len(outbox) + 1 \in 1..Len(Out) /\ Out[Len(outbox) + 1] = hd
      /\ Without(Out', Out, Len(outbox) + 1)
      /\ Tail(run.cmds) \in Seq(CmdT) /\ 1 \in 1..Len(run.cmds) /\ hd = run.cmds[1]
      /\ \A i \in 1..Len(Tail(run.cmds)) : Tail(run.cmds)[i] = run.cmds[i + 1]
                                           /\ i + 1 \in 1..Len(run.cmds)
  <2>1. outbox \in Seq(CmdT) /\ run.cmds \in Seq(CmdT)
    BY DEF RunTypes
  <2> HIDE DEF CmdT
  <2>2. /\ Len(outbox) + 1 \in 1..Len(outbox \o run.cmds)
        /\ (outbox \o run.cmds)[Len(outbox) + 1] = hd
        /\ Without(outbox \o Tail(run.cmds), outbox \o run.cmds, Len(outbox) + 1)
    BY <2>1, <1>1, NextGoes DEF hd
  <2>3. Out = outbox \o run.cmds /\ Out' = outbox \o Tail(run.cmds)
    BY <1>1, <1>4 DEF Out
  <2>4. /\ Tail(run.cmds) \in Seq(CmdT) /\ 1 \in 1..Len(run.cmds) /\ hd = run.cmds[1]
        /\ \A i \in 1..Len(Tail(run.cmds)) : Tail(run.cmds)[i] = run.cmds[i + 1]
                                             /\ i + 1 \in 1..Len(run.cmds)
    BY <2>1, <1>1, TailIs DEF hd
  <2> QED BY <2>2, <2>3, <2>4
<1>6. run.at = "macros" => hd.c \in Singles
  <2> SUFFICES ASSUME run.at = "macros" PROVE hd.c \in Singles
    OBVIOUS
  <2>1. Stage(hd.c) = run.next - 1 /\ run.next - 1 \in 1..14 /\ run.at = Sections[run.next - 1]
    BY <1>1, <1>5 DEF RunTypes
  <2>2. run.next - 1 # 7
    BY <2>1, SectionsAre
  <2>3. Sound(hd)
    BY <1>5 DEF RunTypes
  <2> QED BY <2>1, <2>2, <2>3, KeyStages DEF Sound
<1>7. Taken(Len(outbox) + 1)
  <2>1. Faults \subseteq Faults' /\ run'.errors \subseteq Faults'
    BY <1>1, <1>4 DEF Faults
  <2> QED BY <2>1, <1>1, <1>4, <1>5, <1>6 DEF Taken
<1>8. RunTypes'
  <2>1. \A i \in 1..Len(run'.cmds) : Stage(run'.cmds[i].c) = run.next - 1
    <3>1. \A i \in 1..Len(run.cmds) : Stage(run.cmds[i].c) = run.next - 1
      BY DEF RunTypes
    <3> HIDE DEF Stage
    <3> QED BY <3>1, <1>4, <1>5
  <2>2. outbox' \in Seq(CmdT) /\ run'.cmds \in Seq(CmdT)
    BY <1>1, <1>4, <1>5 DEF RunTypes
  <2> QED BY <2>1, <2>2, <1>1, <1>4, <1>5, TakenTypes
<1> QED BY <1>1, <1>4, <1>5, <1>7, <1>8

\* A command goes and changes nothing: it is noted or lost.
LEMMA FaultTaken ==
    ASSUME ApplyInv, RunTypes', NEW j \in 1..Len(Out), Taken(j),
           switcher' = switcher, Out[j].c \in Faults'
    PROVE  ApplyInv'
<1> DEFINE cmd == Out[j]
<1>1. RunTypes /\ FutureInv /\ SinglesInv /\ KeysInv
  BY DEF ApplyInv
<1>2. /\ Without(Out', Out, j) /\ opts' = opts
      /\ run'.next = run.next /\ run'.passed = run.passed /\ run'.skipped = run.skipped
      /\ Faults \subseteq Faults'
  BY DEF Taken
<1>3. \A c : Held(c)' = Held(c) /\ (Future(c)' <=> Future(c))
  BY <1>2 DEF Held, Future
<1>4. \A c : (Due(c)' <=> Due(c)) /\ (Excused(c) => Excused(c)')
  BY <1>2, DueKept, ExcusedKept
<1>5. \A c : OnItsWay(c) <=> c = cmd.c \/ OnItsWay(c)'
  BY <1>1, <1>2, OutIs, TakenOnItsWay
<1>6. \A c : c = cmd.c => Excused(c)'
  <2> HIDE DEF cmd
  <2>1. cmd.c \in run'.errors \cup lost'
    BY DEF Faults, cmd
  <2>2. ASSUME NEW c, c = cmd.c PROVE Excused(c)'
    <3>1. c \in run'.errors \cup lost'
      BY <2>1, <2>2
    <3> QED BY <3>1 DEF Excused
  <2> QED BY <2>2
<1>7. FutureInv'
  BY <1>1, <1>3 DEF FutureInv
<1>8. SinglesInv'
  <2>1. \A c : SingleOut(c) => SingleOut(c)'
    <3> HIDE DEF Held, OnItsWay, Due, Excused, cmd
    <3> QED BY <1>3, <1>4, <1>5, <1>6 DEF SingleOut
  <2> QED BY <2>1, <1>1, <1>3 DEF SinglesInv
<1>9. KeysInv'
  <2> SUFFICES ASSUME run.next >= 8, NEW m \in MEs, NEW k \in KeyerNos PROVE KeyOut(m, k)'
    BY <1>2 DEF KeysInv
  <2>1. KeyOut(m, k)
    BY <1>1 DEF KeysInv
  <2>2. cmd.c[1] # Key(m, k) \/ Failed(Key(m, k))'
    BY DEF Failed
  <2>3. \A n \in KeyNames : Held(Ctl(Key(m, k), n))' = Held(Ctl(Key(m, k), n))
    BY <1>3
  <2> QED BY <2>1, <2>2, <2>3, <1>1, <1>2, OtherKeyStays
<1> QED BY <1>7, <1>8, <1>9 DEF ApplyInv

\* A command of a control that takes one arrives.
LEMMA SingleTaken ==
    ASSUME ApplyInv, RunTypes', NEW j \in 1..Len(Out), Taken(j),
           switcher' = Effect(Out[j]), Out[j].c \in Singles, Out[j].val = "saved"
    PROVE  ApplyInv'
<1> DEFINE cmd == Out[j]
<1>1. RunTypes /\ FutureInv /\ SinglesInv /\ KeysInv
  BY DEF ApplyInv
<1>2. /\ Without(Out', Out, j) /\ opts' = opts
      /\ run'.next = run.next /\ run'.passed = run.passed /\ run'.skipped = run.skipped
      /\ Faults \subseteq Faults'
  BY DEF Taken
<1>3. \A d : Held(d)' = IF d = cmd.c THEN "saved" ELSE Held(d)
  <2>1. cmd.c[2] # "snapshot" /\ cmd.c[2] # "cursor"
    BY SingleWanted
  <2>2. Effect(cmd) = With(switcher, cmd.c, "saved")
    BY <2>1 DEF Effect
  <2> QED BY <2>2, WithHeld
<1>4. \A c : (Due(c)' <=> Due(c)) /\ (Excused(c) => Excused(c)') /\ (Future(c)' <=> Future(c))
  BY <1>2, DueKept, ExcusedKept DEF Future
<1>5. \A c : OnItsWay(c) <=> c = cmd.c \/ OnItsWay(c)'
  BY <1>1, <1>2, OutIs, TakenOnItsWay
<1>6. ~Future(cmd.c) /\ cmd.c \notin OfKeys /\ cmd.c[1] \notin Keys
  <2>1. Stage(cmd.c) < run.next /\ run.next \in 1..15 /\ Stage(cmd.c) \in 1..14
    BY <1>1, SingleStages DEF RunTypes
  <2> QED BY <2>1, SingleWanted DEF Future
<1>7. FutureInv'
  <2>1. ASSUME NEW c \in Everything, Future(c)' PROVE Held(c)' = "before"
    <3>1. Future(c) /\ c # cmd.c
      BY <2>1, <1>4, <1>6
    <3> QED BY <3>1, <1>1, <1>3 DEF FutureInv
  <2> QED BY <2>1 DEF FutureInv
<1>8. SinglesInv'
  <2>1. \A c : SingleOut(c) => SingleOut(c)'
    <3> HIDE DEF Held, OnItsWay, Due, Excused, cmd
    <3> QED BY <1>3, <1>4, <1>5 DEF SingleOut
  <2> QED BY <2>1, <1>1, <1>4 DEF SinglesInv
<1>9. KeysInv'
  <2> SUFFICES ASSUME run.next >= 8, NEW m \in MEs, NEW k \in KeyerNos PROVE KeyOut(m, k)'
    BY <1>2 DEF KeysInv
  <2>1. KeyOut(m, k)
    BY <1>1 DEF KeysInv
  <2>2. cmd.c[1] # Key(m, k)
    BY <1>6 DEF Keys
  <2>3. \A n \in KeyNames : Held(Ctl(Key(m, k), n))' = Held(Ctl(Key(m, k), n))
    <3> SUFFICES ASSUME NEW n \in KeyNames
                 PROVE  Held(Ctl(Key(m, k), n))' = Held(Ctl(Key(m, k), n))
      OBVIOUS
    <3>1. Ctl(Key(m, k), n) # cmd.c
      BY <2>2, CtlParts
    <3> QED BY <3>1, <1>3
  <2> QED BY <2>1, <2>2, <2>3, <1>1, <1>2, OtherKeyStays
<1> QED BY <1>7, <1>8, <1>9 DEF ApplyInv

\* A command changes controls of its own place only.
LEMMA EffectElsewhere ==
    ASSUME NEW cmd, switcher' = Effect(cmd)
    PROVE  \A d : d[1] # cmd.c[1] => Held(d)' = Held(d)
<1> DEFINE kf == Ctl(cmd.c[1], IF cmd.val = "A" THEN "kfA" ELSE "kfB")
           shot == IF Held(Ctl(cmd.c[1], "fly")) = Held(Ctl(cmd.c[1], "dve"))
                   THEN Held(Ctl(cmd.c[1], "dve")) ELSE "torn"
           col == Ctl(cmd.c[1], "colour")
<1>1. kf[1] = cmd.c[1] /\ col[1] = cmd.c[1]
  BY CtlParts
<1>2. \/ Effect(cmd) = With(switcher, kf, shot)
      \/ Effect(cmd) = With(With(switcher, cmd.c, cmd.val), col, "sampled")
      \/ Effect(cmd) = With(switcher, cmd.c, cmd.val)
  BY DEF Effect
<1> HIDE DEF kf, shot, col
<1>3. CASE Effect(cmd) = With(switcher, kf, shot)
  <2>1. \A d : Held(d)' = IF d = kf THEN shot ELSE Held(d)
    BY <1>3, WithHeld
  <2> QED BY <2>1, <1>1
<1>4. CASE Effect(cmd) = With(With(switcher, cmd.c, cmd.val), col, "sampled")
  <2>1. \A d : Held(d)' = IF d = col THEN "sampled" ELSE IF d = cmd.c THEN cmd.val ELSE Held(d)
    BY <1>4 DEF With, Held
  <2> QED BY <2>1, <1>1
<1>5. CASE Effect(cmd) = With(switcher, cmd.c, cmd.val)
  <2>1. \A d : Held(d)' = IF d = cmd.c THEN cmd.val ELSE Held(d)
    BY <1>5, WithHeld
  <2> QED BY <2>1
<1> QED BY <1>2, <1>3, <1>4, <1>5

\* The next command of a keyer's block arrives: one more of it is done.
LEMMA BlockTaken ==
    ASSUME RunTypes, NEW m \in MEs, NEW k \in KeyerNos, KeyOut(m, k), 1 \in 1..Len(Out),
           Taken(1), switcher' = Effect(Out[1]), Out[1].c[1] = Key(m, k)
    PROVE  KeyOut(m, k)'
<1> DEFINE key == Key(m, k)
           block == UskBlock(m, k)
           kf == opts.keyframes
           cmd == Out[1]
<1>1. /\ Without(Out', Out, 1) /\ opts' = opts /\ run'.passed = run.passed
      /\ Faults \subseteq Faults'
  BY DEF Taken
<1>2. KeyDue(m, k)
  BY Zenon DEF KeyOut
<1>3. kf \in BOOLEAN /\ Len(Out) \in Nat \ {0}
  <2>1. Len(Out) \in Nat
    BY OutIs
  <2> QED BY <2>1, OptionsAre DEF RunTypes
<1>4. /\ block' = block /\ Len(block) \in Nat
      /\ Len(block) = IF kf THEN 18 ELSE 12
      /\ \A x \in 1..Len(block) : \E n \in KeyNames \cup {"snapshot"} : \E v :
            block[x] = Cmd(Ctl(key, n), v)
  <2>1. opts.keyframes \in BOOLEAN
    BY <1>3
  <2>2. block' = block
    BY <1>1 DEF UskBlock
  <2>3. Len(block) = IF kf THEN 18 ELSE 12
    BY <2>1, BlockElements
  <2>4. \A x \in 1..Len(block) : \E n \in KeyNames \cup {"snapshot"} : \E v :
            block[x] = Cmd(Ctl(key, n), v)
    BY <2>1, BlockElements
  <2> HIDE DEF block, kf
  <2>5. Len(block) \in Nat
    BY <2>3
  <2> QED BY <2>2, <2>3, <2>4, <2>5
<1>5. KeyDue(m, k)' /\ opts'.keyframes = kf
  BY <1>1, <1>2 DEF KeyDue, MeOpt
<1>6. CASE Failed(key)
  <2>1. Failed(key)'
    BY <1>1, <1>6 DEF Failed
  <2> QED BY <2>1, <1>5, Zenon DEF KeyOut
<1>7. CASE ~Failed(key)
  <2>1. PICK o \in Int : /\ o + Len(block) >= 0 /\ Stands(Out, o, block, key)
                         /\ KeyAt(Live(key), Done(o), kf)
    BY <1>2, <1>7, Zenon DEF KeyOut
  <2>2. PICK p \in 0..Len(block) - 1 :
            /\ p = -o /\ Done(o) = p /\ cmd = block[p + 1]
            /\ (o - 1) + Len(block) >= 0 /\ Stands(Out', o - 1, block, key)
            /\ Done(o - 1) = p + 1
    <3>1. cmd.c[1] = key
      OBVIOUS
    <3> HIDE DEF block, key
    <3> QED BY <3>1, <1>1, <1>3, <1>4, <2>1, StandsOn
  <2>3. PICK n \in KeyNames \cup {"snapshot"} : \E v : cmd = Cmd(Ctl(key, n), v)
    <3>1. p + 1 \in 1..Len(block)
      BY <1>4
    <3> QED BY <3>1, <1>4, <2>2
  <2>4. PICK v : cmd = Cmd(Ctl(key, n), v)
    BY <2>3
  <2>5. Moved(Live(key), Live(key)', n, v)
    <3>1. switcher' = Effect(Cmd(Ctl(key, n), v))
      BY <2>4
    <3> QED BY <3>1, EffectOnKey
  <2>6. block[p + 1] = Cmd(Ctl(key, n), v)
    BY <2>2, <2>4
  <2>7. KeyAt(Live(key)', p + 1, kf)
    <3>1. CASE kf
      <4>1. Full(block, key) /\ p \in 0..17
        BY <3>1, <1>3, <1>4, UskBlockIs
      <4>2. KeyAt(Live(key), p, TRUE)
        BY <3>1, <2>1, <2>2 DEF KeyAt
      <4>3. KeyAt(Live(key)', p + 1, TRUE)
        <5> HIDE DEF block, key, Full, KeyAt, Moved, Live
        <5> QED BY <4>1, <4>2, <2>5, <2>6, FullStep
      <4> QED BY <4>3, <3>1 DEF KeyAt
    <3>2. CASE ~kf
      <4>1. Plain(block, key) /\ p \in 0..11
        BY <3>2, <1>3, <1>4, UskBlockIs
      <4>2. KeyAt(Live(key), p, FALSE)
        BY <3>2, <2>1, <2>2 DEF KeyAt
      <4>3. KeyAt(Live(key)', p + 1, FALSE)
        <5> HIDE DEF block, key, Plain, KeyAt, Moved, Live
        <5> QED BY <4>1, <4>2, <2>5, <2>6, PlainStep
      <4> QED BY <4>3, <3>2 DEF KeyAt
    <3> QED BY <3>1, <3>2
  <2>8. /\ o - 1 \in Int /\ (o - 1) + Len(block') >= 0 /\ Stands(Out', o - 1, block', key)
        /\ KeyAt(Live(key)', Done(o - 1), opts'.keyframes)
    <3> HIDE DEF block, key, kf, KeyAt, Stands, Live, Done
    <3> QED BY <1>4, <1>5, <2>1, <2>2, <2>7
  <2> QED BY <2>8, <1>5, Zenon DEF KeyOut
<1> QED BY <1>6, <1>7

\* A command of a keyer arrives.
LEMMA KeyTaken ==
    ASSUME ApplyInv, RunTypes', 1 \in 1..Len(Out), Taken(1),
           switcher' = Effect(Out[1]), Out[1].c[1] \in Keys
    PROVE  ApplyInv'
<1>1. RunTypes /\ FutureInv /\ SinglesInv /\ KeysInv
  BY DEF ApplyInv
<1>2. /\ Without(Out', Out, 1) /\ opts' = opts
      /\ run'.next = run.next /\ run'.passed = run.passed /\ run'.skipped = run.skipped
      /\ Faults \subseteq Faults'
  BY DEF Taken
<1>3. PICK m \in MEs, k \in KeyerNos : Out[1].c[1] = Key(m, k)
  BY DEF Keys
<1> DEFINE key == Key(m, k)
<1>4. \A d : d[1] # key => Held(d)' = Held(d)
  BY <1>3, EffectElsewhere
<1>5. key \in Keys /\ Stage(Out[1].c) = 7 /\ run.next \in 1..15 /\ run.next >= 8
  <2>1. Stage(Out[1].c) < run.next /\ run.next \in 1..15
    BY <1>1 DEF RunTypes
  <2>2. Stage(Out[1].c) = 7
    BY KeyStages
  <2>3. key \in Keys
    BY DEF Keys
  <2> QED BY <2>1, <2>2, <2>3
<1>6. \A c : (Due(c)' <=> Due(c)) /\ (Excused(c) => Excused(c)') /\ (Future(c)' <=> Future(c))
  BY <1>2, DueKept, ExcusedKept DEF Future
<1>7. \A c : OnItsWay(c) <=> c = Out[1].c \/ OnItsWay(c)'
  BY <1>1, <1>2, OutIs, TakenOnItsWay
<1>8. FutureInv'
  <2>1. ASSUME NEW c \in Everything, Future(c)' PROVE Held(c)' = "before"
    <3>1. Future(c) /\ Stage(c) # 7
      BY <2>1, <1>5, <1>6 DEF Future
    <3>2. c[1] # key
      BY <3>1, <1>5, KeyStages
    <3> QED BY <3>1, <3>2, <1>1, <1>4 DEF FutureInv
  <2> QED BY <2>1 DEF FutureInv
<1>9. SinglesInv'
  <2>1. ASSUME NEW c \in Singles, SingleOut(c) PROVE SingleOut(c)'
    <3>1. c[1] # key /\ c # Out[1].c
      BY <1>3, <1>5, SingleWanted
    <3>2. Held(c)' = Held(c)
      BY <3>1, <1>4
    <3> HIDE DEF Held, OnItsWay, Due, Excused
    <3> QED BY <2>1, <3>1, <3>2, <1>6, <1>7 DEF SingleOut
  <2> QED BY <2>1, <1>1, <1>6 DEF SinglesInv
<1>10. KeysInv'
  <2> SUFFICES ASSUME NEW q \in MEs, NEW l \in KeyerNos PROVE KeyOut(q, l)'
    BY DEF KeysInv
  <2>1. KeyOut(q, l)
    BY <1>1, <1>5 DEF KeysInv
  <2>2. CASE q = m /\ l = k
    BY <2>1, <2>2, <1>1, <1>3, BlockTaken
  <2>3. CASE ~(q = m /\ l = k)
    <3>1. Key(q, l) # key
      BY <2>3, KeysDiffer
    <3>2. \A x \in KeyNames : Held(Ctl(Key(q, l), x))' = Held(Ctl(Key(q, l), x))
      BY <3>1, <1>4, CtlParts
    <3> QED BY <2>1, <3>1, <3>2, <1>1, <1>2, <1>3, OtherKeyStays
  <2> QED BY <2>2, <2>3
<1> QED BY <1>8, <1>9, <1>10 DEF ApplyInv

\* A command goes.
LEMMA TakenKeeps ==
    ASSUME ApplyInv, RunTypes', NEW j \in 1..Len(Out), Taken(j)
    PROVE  ApplyInv'
<1>1. \/ switcher' = switcher /\ Out[j].c \in Faults'
      \/ switcher' = Effect(Out[j]) /\ (j = 1 \/ Out[j].c \in Singles)
  BY DEF Taken
<1>2. \/ Out[j].c \in Singles /\ Out[j].val = "saved"
      \/ Out[j].c[1] \in Keys
  BY DEF ApplyInv, RunTypes, Sound
<1>3. ~(Out[j].c \in Singles /\ Out[j].c[1] \in Keys)
  BY SingleWanted
<1>4. CASE switcher' = switcher /\ Out[j].c \in Faults'
  BY <1>4, FaultTaken
<1>5. CASE switcher' = Effect(Out[j]) /\ Out[j].c \in Singles /\ Out[j].val = "saved"
  BY <1>5, SingleTaken
<1>6. CASE switcher' = Effect(Out[j]) /\ Out[j].c[1] \in Keys /\ j = 1
  BY <1>6, KeyTaken
<1> QED BY <1>1, <1>2, <1>3, <1>4, <1>5, <1>6, Zenon

\* apply() ends on an attribute that no int() takes
LEMMA AbortKeeps == ApplyInv /\ Aborts => ApplyInv'
<1> SUFFICES ASSUME ApplyInv, Aborts PROVE ApplyInv'
  OBVIOUS
<1>1. RunTypes
  BY DEF ApplyInv
<1>2. PICK a, b, c, e, f, g, h :
         run = [next |-> a, at |-> b, cmds |-> c, errors |-> e, skipped |-> f, passed |-> g,
                raised |-> h]
  BY <1>1 DEF RunTypes, Shaped
<1>3. /\ run' = [run EXCEPT !.raised = TRUE]
      /\ opts' = opts /\ outbox' = outbox /\ lost' = lost /\ switcher' = switcher
  BY DEF Aborts
<1>4. run' = [next |-> a, at |-> b, cmds |-> c, errors |-> e, skipped |-> f, passed |-> g,
              raised |-> TRUE]
  BY <1>2, <1>3
<1>5. /\ Shaped(run') /\ run'.next = run.next /\ run'.at = run.at /\ run'.cmds = run.cmds
      /\ run'.errors = run.errors /\ run'.skipped = run.skipped /\ run'.passed = run.passed
  BY <1>2, <1>4 DEF Shaped
<1>6. Out' = Out /\ Faults' = Faults /\ (Working' <=> Working)
  BY <1>3, <1>5 DEF Out, Faults, Working
<1>7. RunTypes'
  BY <1>1, <1>3, <1>5, <1>6 DEF RunTypes
<1> QED BY <1>3, <1>5, <1>6, <1>7, StayKeeps

\* A section whose commands are all out of apply()'s hands ends.
LEMMA EndKeeps == ApplyInv /\ EndSection => ApplyInv'
<1> SUFFICES ASSUME ApplyInv, EndSection PROVE ApplyInv'
  OBVIOUS
<1>1. RunTypes /\ run.cmds = <<>>
  BY DEF ApplyInv, EndSection
<1>2. PICK a, b, c, e, f, g, h :
         run = [next |-> a, at |-> b, cmds |-> c, errors |-> e, skipped |-> f, passed |-> g,
                raised |-> h]
  BY <1>1 DEF RunTypes, Shaped
<1>3. /\ run' = [run EXCEPT !.at = "none"]
      /\ opts' = opts /\ outbox' = outbox /\ lost' = lost /\ switcher' = switcher
  BY DEF EndSection
<1>4. run' = [next |-> a, at |-> "none", cmds |-> c, errors |-> e, skipped |-> f, passed |-> g,
              raised |-> h]
  BY <1>2, <1>3
<1>5. /\ Shaped(run') /\ run'.next = run.next /\ run'.at = "none" /\ run'.cmds = run.cmds
      /\ run'.errors = run.errors /\ run'.skipped = run.skipped /\ run'.passed = run.passed
  BY <1>2, <1>4 DEF Shaped
<1>6. Out' = Out /\ Faults' = Faults /\ ~Working'
  BY <1>3, <1>5 DEF Out, Faults, Working
<1>7. RunTypes'
  BY <1>1, <1>3, <1>5, <1>6 DEF RunTypes
<1> QED BY <1>3, <1>5, <1>6, <1>7, StayKeeps

\* The link alone changes nothing of it.
LEMMA LinkKeeps == ApplyInv /\ UNCHANGED <<opts, run, outbox, lost, switcher>> => ApplyInv'
<1> SUFFICES ASSUME ApplyInv, opts' = opts, run' = run, outbox' = outbox, lost' = lost,
                    switcher' = switcher
             PROVE  ApplyInv'
  OBVIOUS
<1>1. Out' = Out /\ Faults' = Faults /\ (Working' <=> Working)
  BY DEF Out, Faults, Working
<1>2. RunTypes'
  BY <1>1 DEF ApplyInv, RunTypes
<1> QED BY <1>1, <1>2, StayKeeps

\* Every step of apply(), of the worker and of the connection keeps the invariant.
LEMMA ApplyKeeps == ApplyInv /\ [ProfileNext]_pVars => ApplyInv'
<1> SUFFICES ASSUME ApplyInv, [ProfileNext]_pVars PROVE ApplyInv'
  OBVIOUS
<1>1. CASE StartSection
  BY <1>1, BeginKeeps
<1>2. CASE LeaveSection
  BY <1>2, LeaveKeeps
<1>3. CASE SendNext
  BY <1>3, SendKeeps
<1>4. CASE UploadMacro \/ Raises
  BY <1>4, SectionTakes, TakenKeeps DEF ApplyInv
<1>5. CASE Arrives \/ Loses
  BY <1>5, QueueTakes, TakenKeeps DEF ApplyInv
<1>6. CASE Aborts
  BY <1>6, AbortKeeps
<1>7. CASE EndSection
  BY <1>7, EndKeeps
<1>8. CASE LinkFails \/ LinkGoesOn
  BY <1>8, LinkKeeps DEF LinkFails, LinkGoesOn
<1>9. CASE UNCHANGED pVars
  BY <1>9, LinkKeeps DEF pVars
<1> QED BY <1>1, <1>2, <1>3, <1>4, <1>5, <1>6, <1>7, <1>8, <1>9 DEF ProfileNext

\* The invariant of apply() always holds.
LEMMA ApplyInvariant == ProfileSpec => []ApplyInv
  BY InitApply, ApplyKeeps, PTL DEF ProfileSpec

\* A keyer of which nothing is on its way any more is in place.
LEMMA KeyLands ==
    ASSUME RunTypes, NEW m \in MEs, NEW k \in KeyerNos, KeyOut(m, k), NEW n \in KeyNames,
           \A i \in 1..Len(Out) : Out[i].c[1] # Key(m, k)
    PROVE  InPlace(Ctl(Key(m, k), n))
<1> DEFINE key == Key(m, k)
           c == Ctl(key, n)
           block == UskBlock(m, k)
<1>1. c[1] = key /\ c[2] = n /\ key[1] = "key"
  BY CtlParts, WhereParts
<1>2. Due(c) <=> KeyDue(m, k)
  BY KeyDueIs
<1>3. CASE KeyDue(m, k) /\ Failed(key)
  <2>1. PICK e \in run.errors \cup lost : e[1] = key
    BY <1>3 DEF Failed, Faults
  <2>2. Excused(c)
    BY <2>1, <1>1 DEF Excused
  <2> QED BY <2>2 DEF InPlace
<1>4. CASE KeyDue(m, k) /\ ~Failed(key)
  <2>1. PICK o \in Int : /\ o + Len(block) >= 0 /\ Stands(Out, o, block, key)
                         /\ KeyAt(Live(key), Done(o), opts.keyframes)
    BY <1>4, Zenon DEF KeyOut
  <2>2. opts.keyframes \in BOOLEAN /\ Len(Out) \in Nat
    BY OptionsAre, OutIs DEF RunTypes
  <2>3. /\ Len(block) = IF opts.keyframes THEN 18 ELSE 12
        /\ \A x \in 1..Len(block) : block[x].c[1] = key
    BY <2>2, BlockElements
  <2>4. o = -Len(block) /\ Done(o) = Len(block)
    <3>1. Len(block) \in Nat \ {0}
      BY <2>3
    <3> HIDE DEF block
    <3>2. ASSUME o + Len(block) >= 1 PROVE FALSE
      <4>1. Len(block) \in 1..Len(block)
        BY <3>1
      <4>2. o + Len(block) <= Len(Out) /\ Out[o + Len(block)] = block[Len(block)]
        BY <4>1, <3>2, <2>1 DEF Stands
      <4>3. o + Len(block) \in 1..Len(Out)
        BY <4>2, <3>2, <3>1, <2>2
      <4> QED BY <4>1, <4>2, <4>3, <2>3
    <3> QED BY <3>1, <3>2, <2>1 DEF Done
  <2> DEFINE st == Live(key)
  <2>5. st[n] = Held(c)
    BY DEF Live
  <2>6. Expected(c) = Wanted(c)
    BY <1>2, <1>4 DEF Expected
  <2>7. Wanted(c) = IF n \notin {"kfA", "kfB"} THEN "saved"
                    ELSE IF ~opts.keyframes THEN "before"
                    ELSE IF n = "kfA" THEN "A" ELSE "B"
    BY <1>1 DEF Wanted, Keyframe
  <2> HIDE DEF st, c
  <2>8. st[n] = Wanted(c)
    <3>1. CASE opts.keyframes
      <4>1. KeyAt(st, 18, TRUE)
        BY <3>1, <2>1, <2>2, <2>3, <2>4 DEF st
      <4> QED BY <4>1, <3>1, <2>7 DEF KeyAt, KeyNames
    <3>2. CASE ~opts.keyframes
      <4>1. KeyAt(st, 12, FALSE)
        BY <3>2, <2>1, <2>2, <2>3, <2>4 DEF st
      <4> QED BY <4>1, <3>2, <2>7 DEF KeyAt, KeyNames
    <3> QED BY <3>1, <3>2
  <2> QED BY <2>5, <2>6, <2>8 DEF InPlace, c
<1>5. CASE ~KeyDue(m, k)
  <2>1. Held(c) = "before"
    BY <1>5, Zenon DEF KeyOut
  <2> HIDE DEF c
  <2>2. InPlace(c)
    BY <2>1, <1>2, <1>5 DEF InPlace, Expected
  <2> QED BY <2>2 DEF c
<1> QED BY <1>3, <1>4, <1>5

\* A control of which nothing is to come, and nothing of its section, is in place.
LEMMA ControlLands ==
    ASSUME ApplyInv, NEW c \in Everything, ~Future(c),
           \A i \in 1..Len(Out) : Stage(Out[i].c) # Stage(c)
    PROVE  InPlace(c)
<1>1. RunTypes /\ FutureInv /\ SinglesInv /\ KeysInv
  BY DEF ApplyInv
<1>2. CASE c \in Singles
  <2>1. SingleOut(c) /\ ~OnItsWay(c)
    BY <1>1, <1>2 DEF SinglesInv, OnItsWay
  <2>2. Wanted(c) = "saved"
    BY <1>2, SingleWanted
  <2> HIDE DEF Held, Due, Excused, OnItsWay
  <2> QED BY <2>1, <2>2 DEF SingleOut, InPlace, Expected
<1>3. CASE c \in OfKeys
  <2>1. PICK m \in MEs, k \in KeyerNos, n \in KeyNames : c = Ctl(Key(m, k), n)
    BY <1>3 DEF OfKeys
  <2>2. Stage(c) = 7 /\ run.next >= 8 /\ Key(m, k) \in Keys
    <3>1. Stage(c) = 7 /\ Key(m, k) \in Keys
      BY <2>1, KeyControls
    <3> QED BY <3>1, <1>1 DEF Future, RunTypes
  <2>3. KeyOut(m, k)
    BY <2>2, <1>1 DEF KeysInv
  <2>4. \A i \in 1..Len(Out) : Out[i].c[1] # Key(m, k)
    BY <2>2, KeyStages
  <2> QED BY <2>1, <2>3, <2>4, <1>1, KeyLands
<1> QED BY <1>2, <1>3, KindsOfControl

\* For every profile, switcher and choice of options, however the connection and
\* single commands fail: once apply() has ended and what it sent is out, the
\* switcher is as the profile has it in what was selected and as it was in all
\* the rest, but for what was noted as failed or lost on the way.
THEOREM AppliesTheProfile == ProfileSpec => []LandsAsSaved
<1>1. ApplyInv => LandsAsSaved
  <2> SUFFICES ASSUME ApplyInv, Ended, ~run.raised, outbox = <<>>, NEW c \in Everything
               PROVE  InPlace(c)
    BY DEF LandsAsSaved
  <2>1. RunTypes
    BY DEF ApplyInv
  <2>2. run.next = 15 /\ run.cmds = <<>>
    BY <2>1, SectionsAre DEF RunTypes, Ended
  <2>3. Len(Out) = 0
    BY <2>2 DEF Out
  <2>4. ~Future(c)
    BY <2>2, StagesInRange DEF Future
  <2> QED BY <2>3, <2>4, ControlLands
<1> QED BY <1>1, ApplyInvariant, PTL

\* A bus is of the last section, any other control of an earlier one.
LEMMA BusStages ==
    ASSUME NEW c \in Everything
    PROVE  /\ Bus(c) => Stage(c) = 14 /\ c \in Singles
           /\ ~Bus(c) => Stage(c) # 14
<1>1. CASE c \in OfKeys
  <2>1. \A n \in KeyNames : n # "preview" /\ n # "program"
    BY DEF KeyNames
  <2>2. ~Bus(c)
    BY <1>1, <2>1, CtlParts DEF Bus, OfKeys
  <2> QED BY <2>2, <1>1, KeyStages
<1>2. CASE c \in OfSwitcher
  <2>1. \A n \in SwitcherNames : n # "preview" /\ n # "program"
    BY DEF SwitcherNames
  <2>2. ~Bus(c)
    BY <1>2, <2>1, CtlParts DEF Bus, OfSwitcher
  <2>3. Stage(c) # 14
    BY <1>2, StageOfSwitcher DEF OfSwitcher
  <2> QED BY <2>2, <2>3
<1>3. CASE c \in OfMes
  <2>1. PICK m \in MEs, n \in MeNames : c = Ctl(Me(m), n)
    BY <1>3 DEF OfMes
  <2>2. Bus(c) <=> n \in NamesByMe("program_preview")
    BY <2>1, CtlParts DEF Bus, NamesByMe
  <2>3. Stage(c) = 14 <=> n \in NamesByMe("program_preview")
    BY <2>1, StageOfMe, SectionsAre
  <2> QED BY <2>2, <2>3, <1>3 DEF Singles
<1> QED BY <1>1, <1>2, <1>3, EverythingIs

\* A bus is cut when all that is still to come are buses.
LEMMA BusesComeLast ==
    ASSUME ApplyInv, [ProfileNext]_pVars, switcher' # switcher,
           NEW b \in Everything, Bus(b), Held(b)' # Held(b), NEW c \in Everything, ~Bus(c)
    PROVE  InPlace(c)
<1>1. RunTypes
  BY DEF ApplyInv
<1>2. Stage(b) = 14 /\ b \in Singles /\ b[1] \notin Keys
  BY BusStages, SingleWanted
<1>3. PICK j \in 1..Len(Out) : /\ switcher' = Effect(Out[j])
                               /\ j = 1 \/ Stage(Out[j].c) = 12
  <2>1. UploadMacro \/ Raises \/ Arrives
    BY DEF ProfileNext, StartSection, LeaveSection, SendNext, Aborts, EndSection, Loses,
           LinkFails, LinkGoesOn, pVars
  <2>2. CASE Arrives
    BY <2>2, <1>1, QueueTakes DEF Taken
  <2>3. CASE UploadMacro \/ Raises
    <3> DEFINE i == Len(outbox) + 1
    <3>1. i \in 1..Len(Out) /\ Taken(i) /\ run.at = "macros" /\ Working
      BY <2>3, <1>1, SectionTakes
    <3>2. switcher' = Effect(Out[i])
      BY <3>1 DEF Taken
    <3>3. Out[i] = run.cmds[1] /\ 1 \in 1..Len(run.cmds)
      <4>1. /\ Len(outbox) \in Nat /\ Len(run.cmds) \in Nat
            /\ Len(Out) = Len(outbox) + Len(run.cmds)
            /\ Out[i] = IF i <= Len(outbox) THEN outbox[i] ELSE run.cmds[i - Len(outbox)]
        BY <3>1, <1>1, OutIs
      <4>2. ~(i <= Len(outbox)) /\ i - Len(outbox) = 1 /\ Len(run.cmds) >= 1
        BY <3>1, <4>1
      <4> QED BY <4>1, <4>2
    <3>4. Stage(Out[i].c) = 12
      <4>1. /\ Stage(Out[i].c) = run.next - 1 /\ run.next - 1 \in 1..14
            /\ Sections[run.next - 1] = "macros"
        BY <3>1, <3>3, <1>1 DEF RunTypes
      <4>2. Sections[run.next - 1] = Sections[12]
        BY <4>1, SectionsAre
      <4> QED BY <4>1, <4>2, SectionsDiffer
    <3> QED BY <3>1, <3>2, <3>4
  <2> QED BY <2>1, <2>2, <2>3
<1>4. Sound(Out[j])
  BY <1>1 DEF RunTypes
<1>5. b = Out[j].c
  <2> DEFINE cmd == Out[j]
  <2>1. switcher' = Effect(cmd) /\ Sound(cmd)
    BY <1>3, <1>4
  <2> HIDE DEF cmd
  <2>2. CASE cmd.c \in Singles
    <3>1. cmd.c[2] # "snapshot" /\ cmd.c[2] # "cursor"
      BY <2>2, SingleWanted
    <3>2. Effect(cmd) = With(switcher, cmd.c, cmd.val)
      BY <3>1 DEF Effect
    <3>3. \A d : Held(d)' = IF d = cmd.c THEN cmd.val ELSE Held(d)
      BY <2>1, <3>2, WithHeld
    <3> QED BY <3>3 DEF cmd
  <2>3. CASE cmd.c[1] \in Keys
    <3>1. Held(b)' = Held(b)
      BY <2>1, <2>3, <1>2, EffectElsewhere
    <3> QED BY <3>1
  <2> QED BY <2>1, <2>2, <2>3 DEF Sound
<1>6. j = 1 /\ Stage(Out[1].c) = 14
  BY <1>2, <1>3, <1>5
<1>7. \A i \in 1..Len(Out) : Stage(Out[i].c) = 14
  <2> SUFFICES ASSUME NEW i \in 1..Len(Out) PROVE Stage(Out[i].c) = 14
    OBVIOUS
  <2>1. i = 1 \/ 1 < i
    BY <1>1, OutIs
  <2>2. i = 1 \/ Stage(Out[1].c) <= Stage(Out[i].c)
    BY <2>1, <1>1, <1>6 DEF RunTypes
  <2>3. Stage(Out[i].c) \in 1..14
    BY <1>1, SoundStages DEF RunTypes
  <2> QED BY <2>2, <2>3, <1>6
<1>8. run.next = 15
  <2>1. Stage(Out[1].c) < run.next /\ run.next \in 1..15
    BY <1>1, <1>6 DEF RunTypes
  <2> QED BY <2>1, <1>6
<1>9. Stage(c) \in 1..14 /\ Stage(c) # 14
  BY BusStages, StagesInRange
<1>10. ~Future(c) /\ \A i \in 1..Len(Out) : Stage(Out[i].c) # Stage(c)
  BY <1>7, <1>8, <1>9 DEF Future
<1> QED BY <1>10, ControlLands

\* apply() sets program and preview of the M/Es only when everything else that
\* it restores is in place, was noted as failed or is lost.
THEOREM BusesAreCutLast == ProfileSpec => CutsLast
<1> DEFINE Late == switcher' # switcher
                   /\ (\E c \in Everything : Bus(c) /\ Held(c)' # Held(c))
                   => \A c \in Everything : Bus(c) \/ InPlace(c)
<1>1. ApplyInv /\ [ProfileNext]_pVars => [Late]_pVars
  BY BusesComeLast
<1>2. ProfileSpec => [][Late]_pVars
  BY <1>1, ApplyInvariant, PTL DEF ProfileSpec
<1> QED BY <1>2 DEF CutsLast
=============================================================================
