---------------------- MODULE SnapshotPublicationProofs ----------------------
(***************************************************************************)
(* What SnapshotPublication guarantees for any number of jobs, revisions,   *)
(* attempts and executors.  The argument, in the order of the module:       *)
(*                                                                          *)
(* 1. The scripts: every script is in order (InOrder), so from the call an  *)
(*    executor makes one knows which calls may come next.  The scripts are  *)
(*    concatenations of constants, the invariants below look only at the    *)
(*    call that is next.                                                    *)
(* 2. Types, and that an executor with calls left has a revision.           *)
(* 3. The queue: one active job, so one executor at most holds a lease.     *)
(* 4. What is shown: DataInv.  Publication checks everything again in its   *)
(*    transaction, so this does not rest on what executors have done.       *)
(* 5. What an executor relies on: Sound.  A claim not given up has a        *)
(*    snapshot that is its own; with a live lease, the versions it has      *)
(*    begun are its own as well.  Each step of an executor keeps this for   *)
(*    itself (OwnStepSound) and leaves alone what it says of the others     *)
(*    (OthersLeftAlone).                                                    *)
(* 6. The previous revision: only a job that is tried again may fail the    *)
(*    snapshot of it (FreshJobs, PreviousInv).                              *)
(***************************************************************************)
EXTENDS SnapshotPublication, TLAPS, SequenceTheorems

\* Every call of a script.
Call ==
  {"begin", "chunk", "stage", "validate", "publish", "republish", "discard", "collect"}
    \X (Kinds \cup Whole \cup {"snapshot", "artifacts"})
Builders == {"chunk", "stage", "validate"}
Tries == Builders \cup {"publish"}

\* Call d may come after call c in a script.
Follows(c, d) ==
  \/ c[1] \in Builders /\ d[1] \in Tries
  \/ c[1] \in {"publish", "collect"} /\ d[1] = "collect"
  \/ c[1] = "discard" /\ c # <<"discard", "snapshot">> /\ d[1] = "discard"
  \/ c = <<"begin", "snapshot">> /\ d = <<"begin", "embedding">>
  \/ c = <<"begin", "embedding">> /\ d = <<"begin", "graph">>
  \/ c = <<"begin", "graph">> /\ d = <<"begin", "intelligence">>

\* A script may end with call c.
IsLast(c) ==
  \/ c[1] \in {"publish", "republish", "collect"}
  \/ c \in {<<"discard", "snapshot">>, <<"begin", "intelligence">>}

InOrder(s) ==
  /\ s \in Seq(Call)
  /\ s # <<>>
  /\ \A i \in 1..(Len(s) - 1) : Follows(s[i], s[i + 1])
  /\ IsLast(s[Len(s)])
  /\ \A i \in 1..Len(s) : s[i] = <<"begin", "snapshot">> => i = 1 /\ s = Begins

\* A part of the try that builds.
BuildsOnly(s) == s \in Seq(Call) /\ \A i \in 1..Len(s) : s[i][1] \in Builders

LEMMA BeginsInOrder == InOrder(Begins)
<1>1. Len(Begins) = 4 /\ Begins \in Seq(Call) /\ Begins # <<>>
  BY DEF Begins, Call, Kinds
<1>2. /\ Begins[1] = <<"begin", "snapshot">>
      /\ Begins[2] = <<"begin", "embedding">>
      /\ Begins[3] = <<"begin", "graph">>
      /\ Begins[4] = <<"begin", "intelligence">>
  BY DEF Begins
<1>3. \A i \in 1..(Len(Begins) - 1) : Follows(Begins[i], Begins[i + 1])
  <2> SUFFICES ASSUME NEW i \in 1..3 PROVE Follows(Begins[i], Begins[i + 1])
    BY <1>1
  <2>1. i = 1 \/ i = 2 \/ i = 3
    OBVIOUS
  <2> QED
    BY <1>2, <2>1 DEF Follows
<1>4. \A i \in 1..Len(Begins) : Begins[i] = <<"begin", "snapshot">> => i = 1
  <2>1. \A i \in 1..4 : i = 1 \/ i = 2 \/ i = 3 \/ i = 4
    OBVIOUS
  <2> QED
    BY <1>1, <1>2, <2>1
<1> QED
  BY <1>1, <1>2, <1>3, <1>4 DEF InOrder, IsLast

LEMMA DiscardsInOrder == InOrder(Discards)
<1>1. Len(Discards) = 4 /\ Discards \in Seq(Call) /\ Discards # <<>>
  BY DEF Discards, Call, Kinds
<1>2. /\ Discards[1] = <<"discard", "embedding">>
      /\ Discards[2] = <<"discard", "intelligence">>
      /\ Discards[3] = <<"discard", "graph">>
      /\ Discards[4] = <<"discard", "snapshot">>
  BY DEF Discards
<1>3. \A i \in 1..4 : Discards[i][1] = "discard"
  <2>1. \A i \in 1..4 : i = 1 \/ i = 2 \/ i = 3 \/ i = 4
    OBVIOUS
  <2> QED
    BY <1>2, <2>1
<1>4. \A i \in 1..3 : Discards[i] # <<"discard", "snapshot">>
  <2>1. \A i \in 1..3 : i = 1 \/ i = 2 \/ i = 3
    OBVIOUS
  <2> QED
    BY <1>2, <2>1
<1>5. \A i \in 1..(Len(Discards) - 1) : Follows(Discards[i], Discards[i + 1])
  BY <1>1, <1>3, <1>4 DEF Follows
<1>6. \A i \in 1..Len(Discards) : Discards[i] # <<"begin", "snapshot">>
  BY <1>1, <1>3
<1> QED
  BY <1>1, <1>2, <1>5, <1>6 DEF InOrder, IsLast

LEMMA RepublishInOrder == InOrder(Republish)
BY DEF InOrder, Begins, Republish, Call, Kinds, Follows, IsLast, Builders, Tries

LEMMA EmbedsBuild == BuildsOnly(Embeds)
BY DEF BuildsOnly, Embeds, Call, Kinds, Whole, Builders

LEMMA KindBuilds == ASSUME NEW k \in Kinds PROVE BuildsOnly(Builds(k))
BY DEF BuildsOnly, Builds, Call, Kinds, Builders

LEMMA StageBuilds == BuildsOnly(<<<<"stage", "artifacts">>>>)
BY DEF BuildsOnly, Call, Kinds, Builders

LEMMA EmptyBuilds == BuildsOnly(<<>>)
BY DEF BuildsOnly, Call, Kinds, Builders

LEMMA ConcatBuilds ==
  ASSUME NEW s, NEW t, BuildsOnly(s), BuildsOnly(t) PROVE BuildsOnly(s \o t)
<1>1. s \in Seq(Call) /\ t \in Seq(Call)
  BY DEF BuildsOnly
<1> QED
  BY <1>1, ConcatProperties, LenProperties DEF BuildsOnly

\* What the try does with a kind it finds published or not.
LEMMA OptionalBuilds ==
  ASSUME NEW k \in Kinds, NEW p PROVE BuildsOnly(IF k \in p THEN <<>> ELSE Builds(k))
BY KindBuilds, EmptyBuilds

\* A try that builds and publishes, with what follows.
LEMMA TryInOrder ==
  ASSUME NEW s, BuildsOnly(s), s # <<>>,
         NEW t \in {<<>>, Collects}
  PROVE  InOrder(s \o Publishes \o t) /\ (s \o Publishes \o t)[1][1] \in Builders
<1> DEFINE p == s \o Publishes
           w == p \o t
<1>1. Publishes \in Seq(Call) /\ Len(Publishes) = 1 /\ Publishes[1][1] = "publish"
  BY DEF Publishes, Call, Kinds
<1>2. t \in Seq(Call) /\ \A i \in 1..Len(t) : t[i][1] = "collect"
  <2>1. CASE t = <<>>
    BY <2>1
  <2>2. CASE t = Collects
    BY <2>2 DEF Collects, Call, Kinds
  <2> QED
    BY <2>1, <2>2
<1>3. s \in Seq(Call) /\ Len(s) \in Nat \ {0}
  BY EmptySeq DEF BuildsOnly
<1>4. /\ p \in Seq(Call)
      /\ Len(p) = Len(s) + 1
      /\ \A i \in 1..Len(s) : p[i] = s[i]
      /\ p[Len(s) + 1][1] = "publish"
  BY <1>1, <1>3, ConcatProperties
<1> HIDE DEF p
<1>5. /\ w \in Seq(Call)
      /\ Len(w) = Len(p) + Len(t)
      /\ \A i \in 1..Len(p) : w[i] = p[i]
      /\ \A i \in (Len(p) + 1)..Len(w) : w[i] = t[i - Len(p)]
  <2>1. /\ w \in Seq(Call)
        /\ Len(w) = Len(p) + Len(t)
        /\ \A i \in 1..(Len(p) + Len(t)) : w[i] = IF i <= Len(p) THEN p[i] ELSE t[i - Len(p)]
    BY <1>2, <1>4, ConcatProperties
  <2>2. Len(p) \in Nat /\ Len(t) \in Nat
    BY <1>2, <1>4, LenProperties
  <2> HIDE DEF w
  <2> QED
    BY <2>1, <2>2
<1>6. Len(t) \in Nat /\ Len(w) = Len(s) + 1 + Len(t) /\ Len(w) \in Nat
  BY <1>2, <1>3, <1>4, <1>5, LenProperties
<1>7. \A i \in 1..Len(s) : w[i][1] \in Builders
  BY <1>3, <1>4, <1>5 DEF BuildsOnly
<1>8. w[Len(s) + 1][1] = "publish"
  BY <1>3, <1>4, <1>5
<1>9. \A i \in (Len(s) + 2)..Len(w) : w[i][1] = "collect"
  <2> SUFFICES ASSUME NEW i \in (Len(s) + 2)..Len(w) PROVE w[i][1] = "collect"
    OBVIOUS
  <2>1. w[i] = t[i - Len(p)] /\ i - Len(p) \in 1..Len(t)
    BY <1>3, <1>4, <1>5, <1>6
  <2> QED
    BY <2>1, <1>2
<1>10. \A i \in 1..(Len(w) - 1) : Follows(w[i], w[i + 1])
  <2> SUFFICES ASSUME NEW i \in 1..(Len(w) - 1) PROVE Follows(w[i], w[i + 1])
    OBVIOUS
  <2>1. CASE i < Len(s)
    <3>1. i \in 1..Len(s) /\ i + 1 \in 1..Len(s)
      BY <2>1, <1>3
    <3> QED
      BY <3>1, <1>7 DEF Follows, Tries
  <2>2. CASE i = Len(s)
    BY <2>2, <1>3, <1>7, <1>8 DEF Follows, Tries
  <2>3. CASE i = Len(s) + 1
    <3>1. i + 1 \in (Len(s) + 2)..Len(w)
      BY <2>3, <1>3, <1>6
    <3> QED
      BY <2>3, <3>1, <1>8, <1>9 DEF Follows
  <2>4. CASE i > Len(s) + 1
    <3>1. i \in (Len(s) + 2)..Len(w) /\ i + 1 \in (Len(s) + 2)..Len(w)
      BY <2>4, <1>3, <1>6
    <3> QED
      BY <3>1, <1>9 DEF Follows
  <2> QED
    BY <1>3, <2>1, <2>2, <2>3, <2>4
<1>11. IsLast(w[Len(w)])
  <2>1. CASE Len(t) = 0
    BY <2>1, <1>6, <1>8 DEF IsLast
  <2>2. CASE Len(t) # 0
    <3>1. Len(w) \in (Len(s) + 2)..Len(w)
      BY <2>2, <1>3, <1>6
    <3> QED
      BY <3>1, <1>9 DEF IsLast
  <2> QED
    BY <2>1, <2>2
<1>12. \A i \in 1..Len(w) : w[i][1] # "begin"
  <2> SUFFICES ASSUME NEW i \in 1..Len(w) PROVE w[i][1] # "begin"
    OBVIOUS
  <2>1. i \in 1..Len(s) \/ i = Len(s) + 1 \/ i \in (Len(s) + 2)..Len(w)
    BY <1>3, <1>6
  <2> QED
    BY <2>1, <1>7, <1>8, <1>9 DEF Builders
<1>13. w # <<>>
  BY <1>3, <1>6, EmptySeq
<1> HIDE DEF w
<1>14. InOrder(w)
  BY <1>5, <1>10, <1>11, <1>12, <1>13 DEF InOrder
<1>15. w[1][1] \in Builders
  BY <1>3, <1>7
<1> QED
  BY <1>14, <1>15 DEF w, p

LEMMA BuildInOrder == InOrder(Build) /\ Build[1][1] \in Builders
<1> DEFINE s == Embeds \o <<<<"stage", "artifacts">>>> \o Builds("graph") \o Builds("intelligence")
<1>1. BuildsOnly(s)
  <2>1. BuildsOnly(Embeds \o <<<<"stage", "artifacts">>>>)
    BY EmbedsBuild, StageBuilds, ConcatBuilds
  <2>2. BuildsOnly(Builds("graph")) /\ BuildsOnly(Builds("intelligence"))
    BY KindBuilds DEF Kinds
  <2>3. BuildsOnly(Embeds \o <<<<"stage", "artifacts">>>> \o Builds("graph"))
    BY <2>1, <2>2, ConcatBuilds
  <2> QED
    BY <2>2, <2>3, ConcatBuilds
<1>2. s # <<>>
  <2>1. /\ Embeds \in Seq(Call) /\ Embeds # <<>>
        /\ <<<<"stage", "artifacts">>>> \in Seq(Call)
        /\ Builds("graph") \in Seq(Call)
        /\ Builds("intelligence") \in Seq(Call)
    BY EmbedsBuild, StageBuilds, KindBuilds DEF BuildsOnly, Embeds, Kinds
  <2>2. /\ Embeds \o <<<<"stage", "artifacts">>>> \in Seq(Call)
        /\ Embeds \o <<<<"stage", "artifacts">>>> # <<>>
    BY <2>1, ConcatProperties, ConcatEqualIffEmpty
  <2>3. /\ Embeds \o <<<<"stage", "artifacts">>>> \o Builds("graph") \in Seq(Call)
        /\ Embeds \o <<<<"stage", "artifacts">>>> \o Builds("graph") # <<>>
    BY <2>1, <2>2, ConcatProperties, ConcatEqualIffEmpty
  <2> QED
    BY <2>1, <2>3, ConcatEqualIffEmpty
<1>3. Build = s \o Publishes \o Collects
  BY DEF Build
<1> HIDE DEF s
<1> QED
  BY <1>1, <1>2, <1>3, TryInOrder

LEMMA RestoreInOrder == ASSUME NEW p PROVE InOrder(Restore(p)) /\ Restore(p)[1][1] \in Builders
<1> DEFINE g == IF "graph" \in p THEN <<>> ELSE Builds("graph")
           i == IF "intelligence" \in p THEN <<>> ELSE Builds("intelligence")
           s == g \o i \o Embeds
<1>1. BuildsOnly(g) /\ BuildsOnly(i) /\ BuildsOnly(Embeds) /\ Embeds # <<>>
  BY OptionalBuilds, EmbedsBuild DEF Kinds, Embeds
<1>2. Restore(p) = s \o Publishes
  BY DEF Restore
<1> HIDE DEF g, i
<1>3. BuildsOnly(g \o i) /\ BuildsOnly(s)
  BY <1>1, ConcatBuilds
<1>4. s # <<>>
  BY <1>1, <1>3, ConcatEqualIffEmpty DEF BuildsOnly
<1> HIDE DEF s
<1>5. s \o Publishes \in Seq(Call)
  <2>1. Publishes \in Seq(Call)
    BY DEF Publishes, Call, Kinds
  <2> QED
    BY <1>3, <2>1, ConcatProperties DEF BuildsOnly
<1>6. Restore(p) = s \o Publishes \o <<>>
  BY <1>2, <1>5, ConcatEmptySeq
<1> QED
  BY <1>3, <1>4, <1>6, TryInOrder

LEMMA ScriptsInOrder == \A s \in Scripts : InOrder(s)
BY BeginsInOrder, BuildInOrder, RepublishInOrder, DiscardsInOrder, RestoreInOrder DEF Scripts

LEMMA RestsDef ==
  ASSUME NEW todo
  PROVE  todo \in Rests <=>
           \E s \in Scripts : \E i \in 1..(Len(s) + 1) : todo = SubSeq(s, i, Len(s))
BY DEF Rests

LEMMA ScriptsAreRests == <<>> \in Rests /\ Scripts \subseteq Rests
<1>1. ASSUME NEW s \in Scripts
      PROVE  s = SubSeq(s, 1, Len(s)) /\ 1 \in 1..(Len(s) + 1)
  BY <1>1, ScriptsInOrder, SubSeqFull, LenProperties DEF InOrder
<1>2. Scripts \subseteq Rests
  BY <1>1, RestsDef
<1>3. <<>> = SubSeq(Begins, Len(Begins) + 1, Len(Begins))
  BY BeginsInOrder, SubSeqEmpty, LenProperties DEF InOrder
<1>4. Len(Begins) + 1 \in 1..(Len(Begins) + 1) /\ Begins \in Scripts
  BY BeginsInOrder, LenProperties DEF InOrder, Scripts
<1> QED
  BY <1>2, <1>3, <1>4, RestsDef

LEMMA RestNext ==
  ASSUME NEW todo \in Rests, todo # <<>>
  PROVE  /\ Head(todo) = todo[1]
         /\ todo[1] \in Call
         /\ Tail(todo) \in Rests
         /\ Tail(todo) # todo
         /\ Tail(todo) # <<>> => Follows(todo[1], Tail(todo)[1])
         /\ Tail(todo) = <<>> => IsLast(todo[1])
         /\ todo[1] = <<"begin", "snapshot">> => todo = Begins
<1>0. PICK s \in Scripts : \E n \in 1..(Len(s) + 1) : todo = SubSeq(s, n, Len(s))
  BY RestsDef
<1>1. PICK i \in 1..(Len(s) + 1) : todo = SubSeq(s, i, Len(s))
  BY <1>0
<1>2. InOrder(s)
  BY ScriptsInOrder
<1>3. s \in Seq(Call) /\ Len(s) \in Nat
  BY <1>2, LenProperties DEF InOrder
<1>4. i # Len(s) + 1
  BY <1>1, <1>3, SubSeqEmpty
<1>5. i \in 1..Len(s)
  BY <1>3, <1>4
<1>6. Head(todo) = s[i] /\ Tail(todo) = SubSeq(s, i + 1, Len(s))
  BY <1>1, <1>3, <1>5, HeadTailOfSubSeq
<1>7. /\ todo \in Seq(Call)
      /\ Len(todo) = Len(s) - i + 1
      /\ todo[1] = s[i]
  <2>1. \A n \in i..Len(s) : s[n] \in Call
    BY <1>3, <1>5, ElementOfSeq
  <2>2. /\ SubSeq(s, i, Len(s)) \in Seq(Call)
        /\ Len(SubSeq(s, i, Len(s))) = Len(s) - i + 1
        /\ \A n \in 1..(Len(s) - i + 1) : SubSeq(s, i, Len(s))[n] = s[i + n - 1]
    BY <1>3, <1>5, <2>1, SubSeqProperties
  <2>3. 1 \in 1..(Len(s) - i + 1) /\ i + 1 - 1 = i
    BY <1>3, <1>5
  <2> QED
    BY <1>1, <2>2, <2>3
<1>8. Tail(todo) \in Rests
  <2>1. i + 1 \in 1..(Len(s) + 1)
    BY <1>5
  <2> QED
    BY <1>6, <2>1, RestsDef
<1> DEFINE length == Len(todo)
           left == Len(Tail(todo))
<1>9. Len(Tail(todo)) = Len(todo) - 1 /\ Len(todo) \in Nat
  BY <1>7, HeadTailProperties, LenProperties
<1>10. Tail(todo) # todo
  <2>1. left = length - 1 /\ length \in Nat
    BY <1>9
  <2> HIDE DEF left, length
  <2>2. left # length
    BY <2>1
  <2> QED
    BY <2>2 DEF left, length
<1>11. ASSUME Tail(todo) # <<>>
       PROVE  Follows(todo[1], Tail(todo)[1])
  <2>1. i # Len(s)
    BY <1>3, <1>6, <1>11, SubSeqEmpty
  <2>2. i \in 1..(Len(s) - 1) /\ i + 1 \in 1..Len(s)
    BY <1>3, <1>5, <2>1
  <2>3. Tail(todo)[1] = s[i + 1]
    <3>1. Tail(todo) \in Seq(Call) /\ \A n \in 1..Len(Tail(todo)) : Tail(todo)[n] = todo[n + 1]
      BY <1>7, HeadTailProperties
    <3>2. \A n \in (i + 1)..Len(s) : s[n] \in Call
      BY <1>3, <1>5, ElementOfSeq
    <3>3. \A n \in 1..(Len(s) - (i + 1) + 1) :
            SubSeq(s, i + 1, Len(s))[n] = s[(i + 1) + n - 1]
      BY <1>3, <2>2, <3>2, SubSeqProperties
    <3>4. 1 \in 1..(Len(s) - (i + 1) + 1) /\ (i + 1) + 1 - 1 = i + 1
      BY <1>3, <2>2
    <3> QED
      BY <1>6, <3>3, <3>4
  <2> QED
    BY <1>2, <1>7, <2>2, <2>3 DEF InOrder
<1>12. ASSUME Tail(todo) = <<>>
       PROVE  IsLast(todo[1])
  <2> DEFINE all == Len(s)
  <2>1. left = length - 1 /\ length \in Nat /\ left = 0
    <3>1. Len(<<>>) = 0
      OBVIOUS
    <3> QED
      BY <1>9, <1>12, <3>1
  <2>2. length = all - i + 1 /\ all \in Nat /\ i \in 1..all
    BY <1>3, <1>5, <1>7
  <2>3. i = all
    <3> HIDE DEF left, length, all
    <3> QED
      BY <2>1, <2>2
  <2> QED
    BY <1>2, <1>7, <2>3 DEF InOrder
<1>13. ASSUME todo[1] = <<"begin", "snapshot">>
       PROVE  todo = Begins
  <2>1. i = 1 /\ s = Begins
    BY <1>2, <1>5, <1>7, <1>13 DEF InOrder
  <2> QED
    BY <1>1, <1>3, <2>1, SubSeqFull
<1>14. todo[1] \in Call
  BY <1>3, <1>5, <1>7, ElementOfSeq
<1> QED
  BY <1>6, <1>7, <1>8, <1>10, <1>11, <1>12, <1>13, <1>14

-----------------------------------------------------------------------------
(* A call ends: where its executor is then.                                 *)

CallersHaveRevisions == \A e \in Executors : pipelines[e].todo # <<>> => Rev(e) \in Revisions
Typed == TypeOK /\ CallersHaveRevisions

\* What the executor calls.
CallOf(e) == pipelines[e].todo[1]
Doing(e, ops) == pipelines[e].todo # <<>> /\ CallOf(e)[1] \in ops

\* The executor goes on with its revision or has ended.
Moves(e) ==
  /\ pipelines' \in [Executors -> Pipeline]
  /\ \A f \in Executors \ {e} : pipelines'[f] = pipelines[f]
  /\ pipelines'[e] # pipelines[e]
  /\ pipelines'[e].todo # <<>> => pipelines'[e].rev = Rev(e)
  /\ pipelines'[e].todo # Begins

GoesOnTo(e, d) == pipelines'[e].todo # <<>> => CallOf(e)' = d

\* The call that may come after call c: the next one, or the first discard.
MayCome(c, d) == Follows(c, d) \/ (c[1] \in Tries /\ d[1] = "discard")

LEMMA EndedTyped == Ended \in Pipeline
BY ScriptsAreRests DEF Ended, Pipeline

LEMMA ContinueMoves ==
  ASSUME Typed, NEW e \in Executors, pipelines[e].todo # <<>>,
         NEW todo \in Rests, todo # pipelines[e].todo, todo # Begins,
         NEW published \in SUBSET (Kinds \cup {"snapshot"}),
         Continue(e, todo, published)
  PROVE  /\ Moves(e)
         /\ pipelines'[e].todo = todo
         /\ todo # <<>> => pipelines'[e].published = published
<1> DEFINE row == IF todo = <<>> THEN Ended
                  ELSE [rev |-> Rev(e), todo |-> todo, published |-> published]
<1>1. pipelines \in [Executors -> Pipeline] /\ Rev(e) \in Revisions \cup {None}
  BY DEF Typed, TypeOK, CallersHaveRevisions
<1>2. row \in Pipeline
  BY <1>1, EndedTyped DEF Pipeline
<1>3. row.todo = todo
  BY DEF Ended
<1>4. pipelines' = [pipelines EXCEPT ![e] = row]
  BY DEF Continue
<1>5. todo # <<>> => row.rev = Rev(e) /\ row.published = published
  OBVIOUS
<1> HIDE DEF row
<1>6. pipelines'[e] = row
  BY <1>1, <1>4
<1>7. pipelines' \in [Executors -> Pipeline]
      /\ \A f \in Executors \ {e} : pipelines'[f] = pipelines[f]
  BY <1>1, <1>2, <1>4
<1> QED
  BY <1>3, <1>5, <1>6, <1>7 DEF Moves

LEMMA ErrsMoves ==
  ASSUME Typed, NEW e \in Executors, pipelines[e].todo # <<>>, Errs(e)
  PROVE  /\ Moves(e)
         /\ pipelines'[e].todo # <<>> =>
              \/ CallOf(e)[1] \in Tries /\ CallOf(e)'[1] = "discard"
              \/ CallOf(e)[1] \in {"discard", "collect"} /\ Follows(CallOf(e), CallOf(e)')
<1> DEFINE c == CallOf(e)
           todo == pipelines[e].todo
<1>1. todo \in Rests /\ todo # <<>> /\ c = todo[1]
  BY DEF Typed, TypeOK, Pipeline, CallOf
<1>2. c \in Call /\ Tail(todo) \in Rests /\ Tail(todo) # todo
  BY <1>1, RestNext
<1>3. Discards \in Rests /\ Discards # <<>> /\ Discards[1][1] = "discard"
  BY ScriptsAreRests DEF Scripts, Discards
<1>4. OnError(e) \in Rests
  BY <1>1, <1>2, <1>3, ScriptsAreRests DEF OnError
<1>5. OnError(e) # todo
  BY <1>1, <1>2, <1>3 DEF OnError
<1>6. OnError(e) # <<>> /\ OnError(e) # Discards =>
        OnError(e) = Tail(todo) /\ c[1] \in {"discard", "collect"} /\ Follows(c, OnError(e)[1])
  BY <1>1, RestNext DEF OnError
<1>7. OnError(e) # <<>> /\ OnError(e) = Discards =>
        c[1] \in Tries \/ (c[1] \in {"discard", "collect"} /\ Follows(c, OnError(e)[1]))
  BY <1>1, <1>2, RestNext DEF OnError, Call, Tries, Builders
<1>8. OnError(e) # Begins
  <2>1. Begins # <<>> /\ Begins[1] = <<"begin", "snapshot">>
    BY DEF Begins
  <2>2. \A x : ~Follows(x, <<"begin", "snapshot">>)
    BY DEF Follows, Tries, Builders
  <2>3. Discards # Begins
    BY <1>3, <2>1
  <2> QED
    BY <1>6, <2>1, <2>2, <2>3
<1> HIDE DEF c, todo
<1>9. Continue(e, OnError(e), {}) /\ {} \in SUBSET (Kinds \cup {"snapshot"})
  BY DEF Errs
<1>10. Moves(e) /\ pipelines'[e].todo = OnError(e)
  BY <1>4, <1>5, <1>8, <1>9, ContinueMoves DEF todo
<1> QED
  BY <1>3, <1>6, <1>7, <1>10 DEF CallOf, c

LEMMA ReturnsMoves ==
  ASSUME Typed, NEW e \in Executors, pipelines[e].todo # <<>>, Returns(e),
         CallOf(e)[1] # "begin"
  PROVE  /\ Moves(e)
         /\ pipelines'[e].todo # <<>> => MayCome(CallOf(e), CallOf(e)')
<1> DEFINE todo == pipelines[e].todo
<1>1. todo \in Rests /\ todo # <<>> /\ CallOf(e) = todo[1]
  BY DEF Typed, TypeOK, Pipeline, CallOf
<1>2. /\ Tail(todo) \in Rests /\ Tail(todo) # todo
      /\ Tail(todo) # <<>> => Follows(CallOf(e), Tail(todo)[1])
  BY <1>1, RestNext
<1>3. Tail(todo) # Begins
  <2>1. Begins # <<>> /\ Begins[1] = <<"begin", "snapshot">>
    BY DEF Begins
  <2>2. \A x : ~Follows(x, <<"begin", "snapshot">>)
    BY DEF Follows, Tries, Builders
  <2> QED
    BY <1>2, <2>1, <2>2
<1> HIDE DEF todo
<1>4. CASE Errs(e)
  BY <1>4, ErrsMoves DEF MayCome
<1>5. CASE Continue(e, Tail(todo), {})
  <2>1. {} \in SUBSET (Kinds \cup {"snapshot"})
    OBVIOUS
  <2>2. Moves(e) /\ pipelines'[e].todo = Tail(todo)
    BY <1>2, <1>3, <1>5, <2>1, ContinueMoves DEF todo
  <2> QED
    BY <1>2, <2>2 DEF MayCome, CallOf
<1> QED
  BY <1>4, <1>5 DEF Returns, todo

\* A begin returns, or its answer is lost: the last one decides what is built.
LEMMA BegunMoves ==
  ASSUME Typed, NEW e \in Executors, NEW part \in Kinds \cup {"snapshot"},
         NEW already \in BOOLEAN,
         Calls(e, <<"begin", part>>), Begun(e, part, already)
  PROVE  /\ Moves(e)
         /\ LET published == pipelines[e].published \cup (IF already THEN {part} ELSE {})
            IN  pipelines'[e].todo # <<>> =>
                  IF part = "intelligence"
                  THEN \/ /\ published = Kinds \cup {"snapshot"}
                          /\ CallOf(e)'[1] = "republish"
                       \/ /\ published # Kinds \cup {"snapshot"}
                          /\ CallOf(e)'[1] \in Builders
                  ELSE /\ Follows(<<"begin", part>>, CallOf(e)')
                       /\ pipelines'[e].published = published
<1> DEFINE todo == pipelines[e].todo
           published == pipelines[e].published \cup (IF already THEN {part} ELSE {})
           script == IF published = Kinds \cup {"snapshot"} THEN Republish
                     ELSE IF "snapshot" \in published THEN Restore(published \cap Kinds)
                     ELSE Build
<1>1. todo \in Rests /\ todo # <<>> /\ CallOf(e) = todo[1]
  BY DEF Typed, TypeOK, Pipeline, CallOf, Calls
<1>2. /\ CallOf(e) = <<"begin", part>>
      /\ Tail(todo) \in Rests /\ Tail(todo) # todo
      /\ Tail(todo) # <<>> => Follows(CallOf(e), Tail(todo)[1])
      /\ Tail(todo) = <<>> => IsLast(CallOf(e))
  BY <1>1, RestNext DEF Calls
<1>3. Begins # <<>> /\ Begins[1] = <<"begin", "snapshot">>
  BY DEF Begins
<1>4. Tail(todo) # Begins
  <2>1. \A x : ~Follows(x, <<"begin", "snapshot">>)
    BY DEF Follows, Tries, Builders
  <2> QED
    BY <1>2, <1>3, <2>1
<1>5. Tail(todo) = <<>> <=> part = "intelligence"
  BY <1>2 DEF IsLast, Follows, Tries, Builders
<1>6. published \in SUBSET (Kinds \cup {"snapshot"}) /\ {} \in SUBSET (Kinds \cup {"snapshot"})
  BY DEF Typed, TypeOK, Pipeline
<1>7. /\ Republish \in Scripts /\ Republish # <<>> /\ Republish[1][1] = "republish"
      /\ \A p \in SUBSET Kinds :
           Restore(p) \in Scripts /\ Restore(p) # <<>> /\ Restore(p)[1][1] \in Builders
      /\ Build \in Scripts /\ Build # <<>> /\ Build[1][1] \in Builders
  BY BuildInOrder, RestoreInOrder DEF Scripts, Republish, InOrder
<1>8. /\ script \in Scripts /\ script # <<>>
      /\ IF published = Kinds \cup {"snapshot"} THEN script[1][1] = "republish"
         ELSE script[1][1] \in Builders
  BY <1>7
<1>9. script \in Rests /\ script # todo /\ script # Begins
  <2>1. script[1][1] # "begin"
    <3> HIDE DEF script, published
    <3> QED
      BY <1>8 DEF Builders
  <2>2. todo[1][1] = "begin" /\ Begins[1][1] = "begin"
    BY <1>1, <1>2, <1>3
  <2> QED
    BY <1>8, <2>1, <2>2, ScriptsAreRests
<1>10. CASE Errs(e)
  BY <1>1, <1>2, <1>10, ErrsMoves DEF Tries, Builders
<1>11. CASE Tail(todo) = <<>> /\ Continue(e, script, {})
  <2> HIDE DEF script, todo, published
  <2>1. Moves(e) /\ pipelines'[e].todo = script
    BY <1>1, <1>6, <1>9, <1>11, ContinueMoves DEF todo
  <2>2. CallOf(e)' = script[1]
    BY <2>1 DEF CallOf
  <2> QED
    BY <1>5, <1>8, <1>11, <2>1, <2>2 DEF published
<1>12. CASE Tail(todo) # <<>> /\ Continue(e, Tail(todo), published)
  <2> HIDE DEF script, todo, published
  <2>1. /\ Moves(e) /\ pipelines'[e].todo = Tail(todo)
        /\ pipelines'[e].published = published
    BY <1>1, <1>2, <1>4, <1>6, <1>12, ContinueMoves DEF todo
  <2>2. CallOf(e)' = Tail(todo)[1]
    BY <2>1 DEF CallOf
  <2> QED
    BY <1>2, <1>5, <1>12, <2>1, <2>2 DEF published
<1> QED
  BY <1>10, <1>11, <1>12 DEF Begun

-----------------------------------------------------------------------------
(* Types.                                                                   *)

JobsTyped == jobs \in [Jobs -> JobRow]
RepoTyped == repo \in [current: Revisions \cup {None}, previous: Revisions \cup {None},
                       publishing: Revisions \cup {None}]
SnapshotsTyped == snapshots \in [Revisions -> SnapshotRow]
ArtifactsTyped == artifacts \subseteq Revisions
VersionsTyped == versions \in [Kinds -> [Revisions -> VersionRow]]
PublicationsTyped == publications \in [Kinds -> Revisions \cup {None}]

LEMMA TypeOKParts ==
  TypeOK <=> /\ JobsTyped /\ RepoTyped /\ SnapshotsTyped /\ ArtifactsTyped
             /\ VersionsTyped /\ PublicationsTyped
             /\ pipelines \in [Executors -> Pipeline]
             /\ recovering \in BOOLEAN
BY DEF TypeOK, JobsTyped, RepoTyped, SnapshotsTyped, ArtifactsTyped, VersionsTyped,
       PublicationsTyped

LEMMA TypedNext ==
  ASSUME JobsTyped', RepoTyped', SnapshotsTyped', ArtifactsTyped', VersionsTyped',
         PublicationsTyped', pipelines' \in [Executors -> Pipeline], recovering' \in BOOLEAN,
         CallersHaveRevisions'
  PROVE  Typed'
BY DEF Typed, TypeOK, JobsTyped, RepoTyped, SnapshotsTyped, ArtifactsTyped, VersionsTyped,
       PublicationsTyped

LEMMA Caller ==
  ASSUME Typed, NEW e \in Executors, pipelines[e].todo # <<>>
  PROVE  /\ Rev(e) \in Revisions /\ Rev(e) # None
         /\ e[1] \in Jobs /\ e[1] # None
         /\ e[2] \in 1..MaxAttempts
         /\ \A c : Calls(e, c) => CallOf(e) = c
<1>1. pipelines[e].todo \in Rests
  BY DEF Typed, TypeOK, Pipeline
<1>2. Head(pipelines[e].todo) = CallOf(e)
  BY <1>1, RestNext DEF CallOf
<1> QED
  BY <1>2, NoneAssumption DEF Typed, CallersHaveRevisions, Executors, Calls

LEMMA MovesTyped ==
  ASSUME Typed, NEW e \in Executors, pipelines[e].todo # <<>>, Moves(e)
  PROVE  pipelines' \in [Executors -> Pipeline] /\ CallersHaveRevisions'
<1>1. \A f \in Executors : pipelines'[f].todo # <<>> => pipelines'[f].rev \in Revisions
  BY DEF Typed, CallersHaveRevisions, Moves, Rev
<1> QED
  BY <1>1 DEF Moves, CallersHaveRevisions, Rev

\* A version of one kind is replaced.
LEMMA SetVersionTyped ==
  ASSUME VersionsTyped, NEW k \in Kinds, NEW r \in Revisions, NEW row \in VersionRow,
         SetVersion(k, r, row)
  PROVE  /\ VersionsTyped'
         /\ versions'[k][r] = row
         /\ \A i \in Kinds, s \in Revisions : i # k \/ s # r => versions'[i][s] = versions[i][s]
BY DEF VersionsTyped, SetVersion

LEMMA SetJobTyped ==
  ASSUME JobsTyped, NEW j \in Jobs, NEW row \in JobRow, SetJob(j, row)
  PROVE  JobsTyped' /\ jobs'[j] = row /\ \A i \in Jobs \ {j} : jobs'[i] = jobs[i]
BY DEF JobsTyped, SetJob

LEMMA SucceedTyped ==
  ASSUME JobsTyped, NEW j \in Jobs, Succeed(j)
  PROVE  /\ JobsTyped'
         /\ jobs'[j] = [jobs[j] EXCEPT !.status = "succeeded", !.lease = "none"]
         /\ \A i \in Jobs \ {j} : jobs'[i] = jobs[i]
BY DEF JobsTyped, JobRow, Succeed

LEMMA InitTyped == Init => Typed
<1> SUFFICES ASSUME Init PROVE Typed
  OBVIOUS
<1>1. Ended.todo = <<>> /\ \A e \in Executors : pipelines[e] = Ended
  BY DEF Init, Ended
<1>2. pipelines \in [Executors -> Pipeline] /\ CallersHaveRevisions
  BY <1>1, EndedTyped DEF Init, CallersHaveRevisions
<1>3. JobsTyped /\ RepoTyped
  BY AttemptAssumption DEF Init, JobsTyped, RepoTyped, JobRow
<1>4. SnapshotsTyped /\ ArtifactsTyped /\ VersionsTyped /\ PublicationsTyped
  BY DEF Init, SnapshotsTyped, ArtifactsTyped, VersionsTyped, PublicationsTyped,
         NoSnapshot, NoVersion, SnapshotRow, VersionRow
<1> QED
  BY <1>2, <1>3, <1>4, TypeOKParts DEF Init, Typed

LEMMA QueueTyped ==
  ASSUME Typed, QueueStep
  PROVE  Typed'
<1>1. PICK j \in Jobs : \/ RequestJob(j) \/ StartJob(j) \/ LeaseLapses(j)
                        \/ FailJob(j) \/ RetryJob(j) \/ RecoverJob(j)
  BY DEF QueueStep
<1>2. jobs[j] \in JobRow /\ jobs[j].attempt \in 0..MaxAttempts /\ JobsTyped
  BY DEF Typed, TypeOK, JobRow, JobsTyped
<1>3. \E row \in JobRow : SetJob(j, row)
  <2>1. CASE RequestJob(j)
    BY <2>1, AttemptAssumption DEF RequestJob, QueuedAt, JobRow
  <2>2. CASE StartJob(j)
    <3>1. [jobs[j] EXCEPT !.status = "running", !.lease = "live"] \in JobRow
      BY <1>2 DEF JobRow
    <3> QED
      BY <2>2, <3>1 DEF StartJob
  <2>3. CASE LeaseLapses(j)
    <3>1. [jobs[j] EXCEPT !.lease = "lapsed"] \in JobRow
      BY <1>2 DEF JobRow
    <3> QED
      BY <2>3, <3>1 DEF LeaseLapses
  <2>4. CASE FailJob(j)
    BY <1>2, <2>4 DEF FailJob, FailedAt, JobRow
  <2>5. CASE RetryJob(j)
    <3>1. jobs[j].attempt + 1 \in 0..MaxAttempts
      BY <1>2, <2>5, AttemptAssumption DEF RetryJob
    <3> QED
      BY <2>5, <3>1 DEF RetryJob, QueuedAt, JobRow
  <2>6. CASE RecoverJob(j)
    <3>1. jobs[j].attempt < MaxAttempts => jobs[j].attempt + 1 \in 0..MaxAttempts
      BY <1>2, AttemptAssumption
    <3> QED
      BY <1>2, <2>6, <3>1 DEF RecoverJob, QueuedAt, FailedAt, JobRow
  <2> QED
    BY <1>1, <2>1, <2>2, <2>3, <2>4, <2>5, <2>6
<1>4. JobsTyped' /\ DataUnchanged /\ recovering' = recovering
  BY <1>2, <1>3, SetJobTyped DEF SetJob
<1>5. pipelines' \in [Executors -> Pipeline] /\ CallersHaveRevisions'
  <2>1. CASE pipelines' = pipelines
    BY <2>1 DEF Typed, TypeOK, CallersHaveRevisions, Rev
  <2>2. CASE StartJob(j)
    <3>1. PICK r \in Revisions :
            pipelines' = [pipelines EXCEPT ![<<j, jobs[j].attempt>>] =
                            [rev |-> r, todo |-> Begins, published |-> {}]]
      BY <2>2 DEF StartJob
    <3>2. [rev |-> r, todo |-> Begins, published |-> {}] \in Pipeline
      BY ScriptsAreRests DEF Pipeline, Scripts
    <3> QED
      BY <3>1, <3>2 DEF Typed, TypeOK, CallersHaveRevisions, Rev
  <2> QED
    BY <1>1, <2>1, <2>2 DEF RequestJob, LeaseLapses, FailJob, RetryJob, RecoverJob
<1>6. RepoTyped' /\ SnapshotsTyped' /\ ArtifactsTyped' /\ VersionsTyped' /\ PublicationsTyped'
  BY <1>4 DEF Typed, TypeOK, DataUnchanged, RepoTyped, SnapshotsTyped, ArtifactsTyped,
              VersionsTyped, PublicationsTyped
<1>7. recovering' \in BOOLEAN
  BY <1>4 DEF Typed, TypeOK
<1> QED
  BY <1>4, <1>5, <1>6, <1>7, TypedNext

\* Every call of an executor ends in a move, or its process stops.
LEMMA StepMoves ==
  ASSUME Typed, NEW e \in Executors, PipelineStep(e)
  PROVE  /\ pipelines[e].todo # <<>>
         /\ Moves(e) \/ PipelineDies(e)
<1>1. CASE CallFails(e)
  BY <1>1, ErrsMoves DEF CallFails
<1>2. CASE PipelineDies(e)
  BY <1>2 DEF PipelineDies
<1>3. CASE BeginSnapshot(e)
  <2>1. Calls(e, <<"begin", "snapshot">>)
    BY <1>3 DEF BeginSnapshot
  <2>2. PICK already \in BOOLEAN : Begun(e, "snapshot", already)
    BY <1>3 DEF BeginSnapshot
  <2>3. "snapshot" \in Kinds \cup {"snapshot"} /\ pipelines[e].todo # <<>>
    BY <2>1 DEF Calls
  <2>4. Moves(e)
    BY <2>1, <2>2, <2>3, BegunMoves
  <2> QED
    BY <2>3, <2>4
<1>4. ASSUME NEW k \in Kinds, BeginVersion(e, k)
      PROVE  pipelines[e].todo # <<>> /\ Moves(e)
  <2>1. Calls(e, <<"begin", k>>)
    BY <1>4 DEF BeginVersion
  <2>2. PICK already \in BOOLEAN : Begun(e, k, already)
    BY <1>4 DEF BeginVersion
  <2>3. k \in Kinds \cup {"snapshot"} /\ pipelines[e].todo # <<>>
    BY <2>1 DEF Calls
  <2>4. Moves(e)
    BY <2>1, <2>2, <2>3, BegunMoves
  <2> QED
    BY <2>3, <2>4
<1>5. ASSUME NEW c, Calls(e, c), c[1] # "begin", Returns(e) \/ Errs(e)
      PROVE  pipelines[e].todo # <<>> /\ Moves(e)
  <2>1. pipelines[e].todo # <<>>
    BY <1>5 DEF Calls
  <2>2. CallOf(e)[1] # "begin"
    BY <1>5, <2>1, Caller
  <2> QED
    BY <1>5, <2>1, <2>2, ReturnsMoves, ErrsMoves
<1>6. ASSUME NEW half \in Whole, StoreChunk(e, half)
      PROVE  pipelines[e].todo # <<>> /\ Moves(e)
  <2>1. Calls(e, <<"chunk", half>>) /\ Returns(e)
    BY <1>6 DEF StoreChunk, StagesOnly
  <2> QED
    BY <2>1, <1>5
<1>7. CASE StageArtifacts(e)
  <2>1. Calls(e, <<"stage", "artifacts">>) /\ Returns(e)
    BY <1>7 DEF StageArtifacts, StagesOnly
  <2> QED
    BY <2>1, <1>5
<1>8. ASSUME NEW k \in Kinds, StageVersion(e, k)
      PROVE  pipelines[e].todo # <<>> /\ Moves(e)
  <2>1. Calls(e, <<"stage", k>>) /\ Returns(e)
    BY <1>8 DEF StageVersion, StagesOnly
  <2> QED
    BY <2>1, <1>5
<1>9. ASSUME NEW k \in Kinds, Validate(e, k)
      PROVE  pipelines[e].todo # <<>> /\ Moves(e)
  <2>1. Calls(e, <<"validate", k>>) /\ (Returns(e) \/ Errs(e))
    BY <1>9 DEF Validate
  <2> QED
    BY <2>1, <1>5
<1>10. CASE Publish(e)
  <2>1. /\ Calls(e, <<"publish", "snapshot">>) \/ Calls(e, <<"republish", "snapshot">>)
        /\ Returns(e)
    BY <1>10 DEF Publish
  <2> QED
    BY <2>1, <1>5
<1>11. CASE DiscardEmbedding(e) \/ FailIntelligence(e) \/ DiscardGraph(e) \/ DiscardSnapshot(e)
  <2>1. /\ Returns(e)
        /\ \/ Calls(e, <<"discard", "embedding">>) \/ Calls(e, <<"discard", "intelligence">>)
           \/ Calls(e, <<"discard", "graph">>) \/ Calls(e, <<"discard", "snapshot">>)
    BY <1>11 DEF DiscardEmbedding, FailIntelligence, DiscardGraph, DiscardSnapshot, DiscardsOnly
  <2> QED
    BY <2>1, <1>5
<1>12. CASE CollectSnapshots(e) \/ CollectIntelligence(e)
  <2>1. /\ Returns(e)
        /\ Calls(e, <<"collect", "snapshot">>) \/ Calls(e, <<"collect", "intelligence">>)
    BY <1>12 DEF CollectSnapshots, CollectIntelligence
  <2> QED
    BY <2>1, <1>5
<1> QED
  BY <1>1, <1>2, <1>3, <1>4, <1>6, <1>7, <1>8, <1>9, <1>10, <1>11, <1>12 DEF PipelineStep

\* The rows of a kind's versions are replaced by rows of the type.
LEMMA VersionsReplaced ==
  ASSUME VersionsTyped, NEW k \in Kinds, NEW new \in [Revisions -> VersionRow],
         versions' = [versions EXCEPT ![k] = new]
  PROVE  VersionsTyped'
BY DEF VersionsTyped

LEMMA DataTyped ==
  ASSUME Typed, NEW e \in Executors, PipelineStep(e)
  PROVE  /\ JobsTyped' /\ RepoTyped' /\ SnapshotsTyped' /\ ArtifactsTyped'
         /\ VersionsTyped' /\ PublicationsTyped' /\ recovering' = recovering
<1> DEFINE r == Rev(e)
           j == e[1]
<1>1. r \in Revisions /\ j \in Jobs
  BY StepMoves, Caller
<1> HIDE DEF r, j
<1>2. /\ JobsTyped /\ RepoTyped /\ SnapshotsTyped /\ ArtifactsTyped
      /\ VersionsTyped /\ PublicationsTyped
  BY TypeOKParts DEF Typed
<1>3. \A k \in Kinds, s \in Revisions : versions[k][s] \in VersionRow
  BY <1>2 DEF VersionsTyped
<1>4. \A s \in Revisions : snapshots[s] \in SnapshotRow
  BY <1>2 DEF SnapshotsTyped
<1>5. "embedding" \in Kinds /\ "graph" \in Kinds /\ "intelligence" \in Kinds
  BY DEF Kinds
<1>6. Building(j) \in SnapshotRow /\ [status |-> "failed", job |-> j] \in SnapshotRow
      /\ [status |-> "superseded", job |-> j] \in SnapshotRow /\ NoSnapshot \in SnapshotRow
      /\ NoVersion \in VersionRow
  BY <1>1 DEF Building, SnapshotRow, NoSnapshot, NoVersion, VersionRow
<1>7. CASE CallFails(e) \/ PipelineDies(e)
  BY <1>2, <1>7 DEF CallFails, PipelineDies, DataUnchanged, JobsTyped, RepoTyped, SnapshotsTyped,
     ArtifactsTyped, VersionsTyped, PublicationsTyped
<1>8. CASE BeginSnapshot(e)
  <2>1. RepoTyped'
    BY <1>1, <1>2, <1>8 DEF BeginSnapshot, RepoTyped, r
  <2>2. SnapshotsTyped'
    <3>1. CASE snapshots' = snapshots
      BY <1>2, <3>1 DEF SnapshotsTyped
    <3>2. CASE snapshots' = [snapshots EXCEPT ![r] = Building(j)]
      BY <1>1, <1>2, <1>6, <3>2 DEF SnapshotsTyped
    <3>3. CASE snapshots' = [s \in Revisions |->
                 IF s = r THEN Building(j)
                 ELSE IF snapshots[s] = Building(j)
                 THEN [status |-> "failed", job |-> j] ELSE snapshots[s]]
      BY <1>4, <1>6, <3>3 DEF SnapshotsTyped
    <3> QED
      BY <1>8, <3>1, <3>2, <3>3 DEF BeginSnapshot, r, j
  <2>3. UNCHANGED <<jobs, artifacts, versions, publications, recovering>>
    BY <1>8 DEF BeginSnapshot
  <2> QED
    BY <1>2, <2>1, <2>2, <2>3 DEF JobsTyped, ArtifactsTyped, VersionsTyped, PublicationsTyped
<1>9. ASSUME NEW k \in Kinds, BeginVersion(e, k)
      PROVE  /\ JobsTyped' /\ RepoTyped' /\ SnapshotsTyped' /\ ArtifactsTyped'
             /\ VersionsTyped' /\ PublicationsTyped' /\ recovering' = recovering
  <2>1. VersionsTyped'
    <3>1. CASE versions' = versions
      BY <1>2, <3>1 DEF VersionsTyped
    <3>2. ASSUME NEW kept \in SUBSET Whole,
                 SetVersion(k, r, [status |-> "building", job |-> j, content |-> kept])
          PROVE  VersionsTyped'
      <4>1. [status |-> "building", job |-> j, content |-> kept] \in VersionRow
        BY <1>1 DEF VersionRow
      <4> QED
        BY <1>1, <1>2, <3>2, <4>1, SetVersionTyped
    <3>3. versions[k][r].content \in SUBSET Whole /\ {} \in SUBSET Whole
      BY <1>1, <1>3 DEF VersionRow
    <3> QED
      BY <1>9, <3>1, <3>2, <3>3 DEF BeginVersion, r, j
  <2>2. UNCHANGED <<jobs, repo, snapshots, artifacts, publications, recovering>>
    BY <1>9 DEF BeginVersion
  <2> QED
    BY <1>2, <2>1, <2>2 DEF JobsTyped, RepoTyped, SnapshotsTyped, ArtifactsTyped, PublicationsTyped
<1>10. ASSUME NEW half \in Whole, StoreChunk(e, half)
      PROVE  /\ JobsTyped' /\ RepoTyped' /\ SnapshotsTyped' /\ ArtifactsTyped'
             /\ VersionsTyped' /\ PublicationsTyped' /\ recovering' = recovering
  <2> DEFINE v == versions["embedding"][r]
  <2>1. [v EXCEPT !.content = @ \cup {half}] \in VersionRow
    BY <1>1, <1>3, <1>5, <1>10 DEF VersionRow
  <2>2. SetVersion("embedding", r, [v EXCEPT !.content = @ \cup {half}])
    BY <1>10 DEF StoreChunk, r
  <2>3. UNCHANGED <<jobs, repo, snapshots, artifacts, publications, recovering>>
    BY <1>10 DEF StoreChunk, StagesOnly
  <2>4. VersionsTyped'
    BY <1>1, <1>2, <1>5, <2>1, <2>2, SetVersionTyped
  <2> QED
    BY <1>2, <2>3, <2>4 DEF JobsTyped, RepoTyped, SnapshotsTyped, ArtifactsTyped, PublicationsTyped
<1>11. CASE StageArtifacts(e)
  BY <1>1, <1>2, <1>11 DEF StageArtifacts, StagesOnly, JobsTyped, RepoTyped, SnapshotsTyped,
     ArtifactsTyped, VersionsTyped, PublicationsTyped, r
<1>12. ASSUME NEW k \in Kinds, StageVersion(e, k)
      PROVE  /\ JobsTyped' /\ RepoTyped' /\ SnapshotsTyped' /\ ArtifactsTyped'
             /\ VersionsTyped' /\ PublicationsTyped' /\ recovering' = recovering
  <2>1. [versions[k][r] EXCEPT !.content = Whole] \in VersionRow
    BY <1>1, <1>3 DEF VersionRow
  <2>2. /\ SetVersion(k, r, [versions[k][r] EXCEPT !.content = Whole])
        /\ UNCHANGED <<jobs, repo, snapshots, artifacts, publications, recovering>>
    BY <1>12 DEF StageVersion, StagesOnly, r
  <2>3. VersionsTyped'
    BY <1>1, <1>2, <2>1, <2>2, SetVersionTyped
  <2> QED
    BY <1>2, <2>2, <2>3 DEF JobsTyped, RepoTyped, SnapshotsTyped, ArtifactsTyped, PublicationsTyped
<1>13. ASSUME NEW k \in Kinds, Validate(e, k)
      PROVE  /\ JobsTyped' /\ RepoTyped' /\ SnapshotsTyped' /\ ArtifactsTyped'
             /\ VersionsTyped' /\ PublicationsTyped' /\ recovering' = recovering
  <2>1. /\ [versions[k][r] EXCEPT !.status = "validating"] \in VersionRow
        /\ [versions[k][r] EXCEPT !.status = "failed"] \in VersionRow
    BY <1>1, <1>3 DEF VersionRow
  <2>2. /\ \/ SetVersion(k, r, [versions[k][r] EXCEPT !.status = "validating"])
           \/ SetVersion(k, r, [versions[k][r] EXCEPT !.status = "failed"])
        /\ UNCHANGED <<jobs, repo, snapshots, artifacts, publications, recovering>>
    BY <1>13 DEF Validate, r
  <2>3. VersionsTyped'
    BY <1>1, <1>2, <2>1, <2>2, SetVersionTyped
  <2> QED
    BY <1>2, <2>2, <2>3 DEF JobsTyped, RepoTyped, SnapshotsTyped, ArtifactsTyped, PublicationsTyped
<1>14. CASE Publish(e)
  <2>1. JobsTyped'
    BY <1>1, <1>2, <1>14, SucceedTyped DEF Publish, j
  <2>2. RepoTyped' /\ SnapshotsTyped'
    <3>1. CASE MoveTo(r)
      <4>1. \A s \in Revisions : [snapshots[s] EXCEPT !.status = "published"] \in SnapshotRow
                              /\ [snapshots[s] EXCEPT !.status = "superseded"] \in SnapshotRow
        BY <1>4 DEF SnapshotRow
      <4> QED
        BY <1>1, <1>2, <1>4, <3>1, <4>1 DEF MoveTo, RepoTyped, SnapshotsTyped
    <3>2. CASE /\ repo' = [repo EXCEPT !.publishing = IF @ = r THEN None ELSE @]
               /\ snapshots' = snapshots
      BY <1>2, <3>2 DEF RepoTyped, SnapshotsTyped
    <3> QED
      BY <1>14, <3>1, <3>2 DEF Publish, r
  <2>3. VersionsTyped' /\ PublicationsTyped'
    <3>1. \A k \in Kinds, s \in Revisions :
            /\ [versions[k][s] EXCEPT !.status = "published"] \in VersionRow
            /\ [versions[k][s] EXCEPT !.status = "superseded"] \in VersionRow
      BY <1>3 DEF VersionRow
    <3>2. PublishVersions(r)
      BY <1>14 DEF Publish, r
    <3> QED
      BY <1>1, <1>3, <3>1, <3>2 DEF PublishVersions, VersionsTyped, PublicationsTyped
  <2>4. ArtifactsTyped' /\ recovering' = recovering
    BY <1>2, <1>14 DEF Publish, ArtifactsTyped
  <2> QED
    BY <2>1, <2>2, <2>3, <2>4
<1>15. CASE DiscardEmbedding(e) \/ FailIntelligence(e) \/ DiscardGraph(e)
  <2>1. UNCHANGED <<jobs, repo, snapshots, artifacts, publications, recovering>>
    BY <1>15 DEF DiscardEmbedding, FailIntelligence, DiscardGraph, DiscardsOnly
  <2>2. \A k \in Kinds : \A S : GivenUp(versions[k][r], j, S) \in VersionRow
    BY <1>1, <1>3 DEF GivenUp, VersionRow
  <2>3. \A k \in Kinds : \A S :
          [GivenUp(versions[k][r], j, S) EXCEPT !.content = {}] \in VersionRow
    BY <2>2 DEF VersionRow
  <2>4. \E k \in Kinds, row \in VersionRow : SetVersion(k, r, row)
    <3>1. CASE DiscardEmbedding(e)
      BY <1>5, <2>2, <2>3, <3>1 DEF DiscardEmbedding, r, j
    <3>2. CASE FailIntelligence(e)
      BY <1>5, <2>2, <3>2 DEF FailIntelligence, r, j
    <3>3. CASE DiscardGraph(e)
      BY <1>5, <2>2, <2>3, <3>3 DEF DiscardGraph, r, j
    <3> QED
      BY <1>15, <3>1, <3>2, <3>3
  <2>5. VersionsTyped'
    BY <1>1, <1>2, <2>4, SetVersionTyped
  <2> QED
    BY <1>2, <2>1, <2>5 DEF JobsTyped, RepoTyped, SnapshotsTyped, ArtifactsTyped, PublicationsTyped
<1>16. CASE DiscardSnapshot(e)
  <2>1. UNCHANGED <<jobs, publications, recovering>>
    BY <1>16 DEF DiscardSnapshot, DiscardsOnly
  <2>2. RepoTyped' /\ ArtifactsTyped'
    BY <1>2, <1>16 DEF DiscardSnapshot, RepoTyped, ArtifactsTyped
  <2>3. SnapshotsTyped'
    <3>1. \/ snapshots' = snapshots
          \/ \E row \in SnapshotRow : snapshots' = [snapshots EXCEPT ![r] = row]
      BY <1>1, <1>4, <1>6, <1>16 DEF DiscardSnapshot, r, j
    <3> QED
      BY <1>1, <1>2, <3>1 DEF SnapshotsTyped
  <2>4. VersionsTyped'
    <3>1. CASE versions' = versions
      BY <1>2, <3>1 DEF VersionsTyped
    <3>2. CASE SetVersion("embedding", r, [versions["embedding"][r] EXCEPT !.content = {}])
      <4>1. [versions["embedding"][r] EXCEPT !.content = {}] \in VersionRow
        BY <1>1, <1>3, <1>5 DEF VersionRow
      <4> QED
        BY <1>1, <1>2, <1>5, <3>2, <4>1, SetVersionTyped
    <3> QED
      BY <1>16, <3>1, <3>2 DEF DiscardSnapshot, r
  <2> QED
    BY <1>2, <2>1, <2>2, <2>3, <2>4 DEF JobsTyped, PublicationsTyped
<1>17. CASE CollectSnapshots(e)
  <2>1. UNCHANGED <<jobs, repo, publications, recovering>>
    BY <1>17 DEF CollectSnapshots
  <2>2. PICK gone \in SUBSET Revisions :
          /\ snapshots' = [s \in Revisions |-> IF s \in gone THEN NoSnapshot ELSE snapshots[s]]
          /\ artifacts' = artifacts \ gone
          /\ versions' = [k \in Kinds |-> [s \in Revisions |->
               IF s \in gone THEN NoVersion ELSE versions[k][s]]]
    BY <1>17 DEF CollectSnapshots
  <2>3. SnapshotsTyped' /\ ArtifactsTyped' /\ VersionsTyped'
    BY <1>2, <1>3, <1>4, <1>6, <2>2 DEF SnapshotsTyped, ArtifactsTyped, VersionsTyped
  <2> QED
    BY <1>2, <2>1, <2>3 DEF JobsTyped, RepoTyped, PublicationsTyped
<1>18. CASE CollectIntelligence(e)
  <2>1. UNCHANGED <<jobs, repo, snapshots, artifacts, publications, recovering>>
    BY <1>18 DEF CollectIntelligence
  <2>2. \E new \in [Revisions -> VersionRow] : versions' = [versions EXCEPT !["intelligence"] = new]
    BY <1>3, <1>5, <1>6, <1>18 DEF CollectIntelligence
  <2>3. VersionsTyped'
    BY <1>2, <1>5, <2>2, VersionsReplaced
  <2> QED
    BY <1>2, <2>1, <2>3 DEF JobsTyped, RepoTyped, SnapshotsTyped, ArtifactsTyped, PublicationsTyped
<1> QED
  BY <1>7, <1>8, <1>9, <1>10, <1>11, <1>12, <1>13, <1>14, <1>15, <1>16, <1>17, <1>18
     DEF PipelineStep

LEMMA PipelineTyped ==
  ASSUME Typed, NEW e \in Executors, PipelineStep(e)
  PROVE  Typed'
<1>1. pipelines' \in [Executors -> Pipeline] /\ CallersHaveRevisions'
  <2>1. CASE Moves(e)
    BY <2>1, StepMoves, MovesTyped
  <2>2. CASE PipelineDies(e)
    <3>1. Ended.todo = <<>> /\ Ended \in Pipeline
      BY EndedTyped DEF Ended
    <3> QED
      BY <2>2, <3>1 DEF PipelineDies, Typed, TypeOK, CallersHaveRevisions, Rev
  <2> QED
    BY <2>1, <2>2, StepMoves
<1>2. recovering' \in BOOLEAN
  BY DataTyped DEF Typed, TypeOK
<1> QED
  BY <1>1, <1>2, DataTyped, TypedNext

LEMMA StartUpTyped ==
  ASSUME Typed, StartUpStep
  PROVE  Typed'
<1>1. /\ JobsTyped /\ RepoTyped /\ SnapshotsTyped /\ ArtifactsTyped
      /\ VersionsTyped /\ PublicationsTyped
  BY TypeOKParts DEF Typed
<1>2. /\ pipelines' = pipelines /\ jobs' = jobs /\ snapshots' = snapshots
      /\ artifacts' = artifacts /\ publications' = publications
  BY DEF StartUpStep, RecoverVersions, FindAbandoned, MarkAbandonedFailed, DataUnchanged
<1>3. RepoTyped' /\ recovering' \in BOOLEAN
  BY <1>1 DEF StartUpStep, RecoverVersions, FindAbandoned, MarkAbandonedFailed, DataUnchanged,
     RepoTyped, Typed, TypeOK
<1>4. VersionsTyped'
  <2>1. ASSUME NEW k \in Kinds, RecoverVersions(k) PROVE VersionsTyped'
    <3>1. \A s \in Revisions : versions[k][s] \in VersionRow
      BY <1>1 DEF VersionsTyped
    <3> DEFINE failed(r) ==
                 [versions[k][r] EXCEPT !.status = "failed",
                                        !.content = IF k = "intelligence" THEN versions[k][r].content
                                                    ELSE {}]
               new == [r \in Revisions |->
                        IF Unfinished(versions[k][r]) /\ ~Live(versions[k][r].job)
                        THEN failed(r) ELSE versions[k][r]]
    <3>4. versions' = [versions EXCEPT ![k] = new]
      BY <2>1 DEF RecoverVersions
    <3>5. \A r \in Revisions : failed(r) \in VersionRow
      BY <3>1 DEF VersionRow
    <3> HIDE DEF failed
    <3>6. new \in [Revisions -> VersionRow]
      BY <3>1, <3>5
    <3> HIDE DEF new
    <3> QED
      BY <1>1, <3>4, <3>6, VersionsReplaced
  <2>2. versions' = versions => VersionsTyped'
    BY <1>1 DEF VersionsTyped
  <2> QED
    BY <2>1, <2>2 DEF StartUpStep, FindAbandoned, MarkAbandonedFailed, DataUnchanged
<1>5. JobsTyped' /\ SnapshotsTyped' /\ ArtifactsTyped' /\ PublicationsTyped'
  BY <1>1, <1>2 DEF JobsTyped, SnapshotsTyped, ArtifactsTyped, PublicationsTyped
<1>6. pipelines' \in [Executors -> Pipeline] /\ CallersHaveRevisions'
  BY <1>2 DEF Typed, TypeOK, CallersHaveRevisions, Rev
<1> QED
  BY <1>3, <1>4, <1>5, <1>6, TypedNext

LEMMA TypedStep == Typed /\ [Next]_vars => Typed'
<1>1. ASSUME Typed, UNCHANGED vars PROVE Typed'
  BY <1>1 DEF Typed, TypeOK, CallersHaveRevisions, Rev, vars
<1> QED
  BY <1>1, QueueTyped, PipelineTyped, StartUpTyped DEF Next

\* The rows keep their types, and an executor that has a call to make has a revision,
\* whatever the numbers of jobs, revisions, attempts and executors.
THEOREM TypeCorrect == Spec => []TypeOK
<1>1. Typed => TypeOK
  BY DEF Typed
<1> QED
  BY <1>1, InitTyped, TypedStep, PTL DEF Spec

-----------------------------------------------------------------------------
(* The queue gives the repository to one job at a time.                     *)

OneActiveJob == \A i, j \in Jobs : Active(i) /\ Active(j) => i = j
AttemptsBegin ==
  \A j \in Jobs : IF jobs[j].status = "absent" THEN jobs[j].attempt = 0 ELSE jobs[j].attempt >= 1
QueueInv == OneActiveJob /\ AttemptsBegin

\* The claim of the executor has not been given up, by a retry or by success.
Fenced(e) == jobs[e[1]].attempt = e[2] /\ jobs[e[1]].status \in {"running", "failed"}

LEMMA HolderIsFenced ==
  ASSUME NEW e
  PROVE  /\ Holds(e) => Fenced(e) /\ MayDiscard(e)
         /\ MayDiscard(e) => Fenced(e)
BY DEF Holds, Fenced, MayDiscard, Live

LEMMA OneFenced ==
  ASSUME NEW e \in Executors, NEW f \in Executors, Fenced(e), Fenced(f), e[1] = f[1]
  PROVE  e = f
BY DEF Fenced, Executors

LEMMA OneHolder ==
  ASSUME OneActiveJob, NEW e \in Executors, NEW f \in Executors, Holds(e), Holds(f)
  PROVE  e = f
<1>1. e[1] \in Jobs /\ f[1] \in Jobs
  BY DEF Executors
<1>2. e[1] = f[1]
  BY <1>1 DEF OneActiveJob, Active, Holds, Live
<1> QED
  BY <1>2, OneFenced, HolderIsFenced

\* The steps of the queue and of the executors, as far as jobs are concerned.
LEMMA JobsStep ==
  ASSUME Typed, [Next]_vars
  PROVE  \/ jobs' = jobs
         \/ \E j \in Jobs :
              \/ RequestJob(j) \/ StartJob(j) \/ LeaseLapses(j)
              \/ FailJob(j) \/ RetryJob(j) \/ RecoverJob(j)
         \/ \E e \in Executors : Publish(e) /\ Succeed(e[1]) /\ Holds(e) /\ e[1] \in Jobs
<1>1. ASSUME NEW e \in Executors, PipelineStep(e)
      PROVE  jobs' = jobs \/ (Publish(e) /\ Succeed(e[1]) /\ Holds(e) /\ e[1] \in Jobs)
  BY <1>1
     DEF PipelineStep, CallFails, PipelineDies, BeginSnapshot, BeginVersion, StoreChunk,
         StageArtifacts, StageVersion, StagesOnly, Validate, Publish, DiscardEmbedding,
         FailIntelligence, DiscardGraph, DiscardSnapshot, DiscardsOnly, CollectSnapshots,
         CollectIntelligence, Executors
<1>2. StartUpStep => jobs' = jobs
  BY DEF StartUpStep, RecoverVersions, FindAbandoned, MarkAbandonedFailed
<1> QED
  BY <1>1, <1>2 DEF Next, QueueStep, vars

\* A job is active before a step of it but the request and the retry, which need that
\* none is.
LEMMA QueueInvStep ==
  ASSUME Typed, QueueInv, [Next]_vars
  PROVE  QueueInv'
<1>0. JobsTyped /\ \A j \in Jobs : jobs[j] \in JobRow /\ jobs[j].attempt \in 0..MaxAttempts
  BY TypeOKParts DEF Typed, JobsTyped, JobRow
<1>1. CASE jobs' = jobs
  BY <1>1 DEF QueueInv, OneActiveJob, AttemptsBegin, Active
<1>2. ASSUME NEW j \in Jobs, NEW row \in JobRow,
             jobs' = [jobs EXCEPT ![j] = row],
             row.status \in {"queued", "running"} => Active(j) \/ NoActiveJob,
             row.status # "absent" /\ row.attempt >= 1
      PROVE  QueueInv'
  <2>1. jobs'[j] = row /\ \A i \in Jobs \ {j} : jobs'[i] = jobs[i]
    BY <1>0, <1>2 DEF JobsTyped
  <2>2. \A i \in Jobs \ {j} : Active(i)' <=> Active(i)
    BY <2>1 DEF Active
  <2>3. Active(j)' => \A i \in Jobs \ {j} : ~Active(i)
    BY <1>2, <2>1 DEF Active, NoActiveJob, QueueInv, OneActiveJob
  <2>4. OneActiveJob'
    BY <2>2, <2>3 DEF QueueInv, OneActiveJob
  <2>5. AttemptsBegin'
    BY <1>2, <2>1 DEF QueueInv, AttemptsBegin
  <2> QED
    BY <2>4, <2>5 DEF QueueInv
<1>3. ASSUME NEW j \in Jobs,
             \/ RequestJob(j) \/ StartJob(j) \/ LeaseLapses(j)
             \/ FailJob(j) \/ RetryJob(j) \/ RecoverJob(j)
      PROVE  QueueInv'
  <2>0. jobs[j].attempt \in Nat /\ jobs[j] \in JobRow
    BY <1>0
  <2>1. jobs[j].status # "absent" => jobs[j].attempt >= 1
    BY DEF QueueInv, AttemptsBegin
  <2>2. CASE RequestJob(j)
    <3> DEFINE row == QueuedAt(1)
    <3>1. row \in JobRow /\ row.status = "queued" /\ row.attempt >= 1
      BY AttemptAssumption DEF QueuedAt, JobRow
    <3>2. jobs' = [jobs EXCEPT ![j] = row] /\ NoActiveJob
      BY <2>2 DEF RequestJob, SetJob
    <3> HIDE DEF row
    <3> QED
      BY <1>2, <3>1, <3>2
  <2>3. CASE StartJob(j)
    <3> DEFINE row == [jobs[j] EXCEPT !.status = "running", !.lease = "live"]
    <3>1. row \in JobRow /\ row.status = "running" /\ row.attempt = jobs[j].attempt
      BY <2>0 DEF JobRow
    <3>2. jobs' = [jobs EXCEPT ![j] = row] /\ Active(j)
      BY <2>3 DEF StartJob, SetJob, Active
    <3> HIDE DEF row
    <3> QED
      BY <1>2, <2>1, <2>3, <3>1, <3>2 DEF StartJob
  <2>4. CASE LeaseLapses(j)
    <3> DEFINE row == [jobs[j] EXCEPT !.lease = "lapsed"]
    <3>1. row \in JobRow /\ row.status = jobs[j].status /\ row.attempt = jobs[j].attempt
      BY <2>0 DEF JobRow
    <3>2. jobs' = [jobs EXCEPT ![j] = row] /\ Active(j) /\ jobs[j].status = "running"
      BY <2>4 DEF LeaseLapses, SetJob, Active, Live
    <3> HIDE DEF row
    <3> QED
      BY <1>2, <2>1, <3>1, <3>2
  <2>5. CASE FailJob(j)
    <3> DEFINE row == FailedAt(jobs[j].attempt)
    <3>1. row \in JobRow /\ row.status = "failed" /\ row.attempt = jobs[j].attempt
      BY <1>0 DEF FailedAt, JobRow
    <3>2. jobs' = [jobs EXCEPT ![j] = row] /\ jobs[j].status = "running"
      BY <2>5 DEF FailJob, SetJob, Live
    <3> HIDE DEF row
    <3> QED
      BY <1>2, <2>1, <3>1, <3>2
  <2>6. CASE RetryJob(j)
    <3>1. jobs[j].attempt + 1 \in 0..MaxAttempts /\ jobs[j].attempt + 1 >= 1
      BY <1>0, <2>6, AttemptAssumption DEF RetryJob
    <3> DEFINE row == QueuedAt(jobs[j].attempt + 1)
    <3>2. row \in JobRow /\ row.status = "queued" /\ row.attempt = jobs[j].attempt + 1
      BY <3>1 DEF QueuedAt, JobRow
    <3>3. jobs' = [jobs EXCEPT ![j] = row] /\ NoActiveJob
      BY <2>6 DEF RetryJob, SetJob
    <3> HIDE DEF row
    <3> QED
      BY <1>2, <3>1, <3>2, <3>3
  <2>7. CASE RecoverJob(j)
    <3>1. jobs[j].attempt < MaxAttempts =>
            jobs[j].attempt + 1 \in 0..MaxAttempts /\ jobs[j].attempt + 1 >= 1
      BY <1>0, AttemptAssumption
    <3>2. Active(j) /\ jobs[j].attempt \in 0..MaxAttempts /\ jobs[j].attempt >= 1
      BY <1>0, <2>1, <2>7 DEF RecoverJob, Active
    <3> DEFINE row == IF jobs[j].attempt < MaxAttempts
                      THEN QueuedAt(jobs[j].attempt + 1) ELSE FailedAt(jobs[j].attempt)
    <3>3. row \in JobRow /\ row.status # "absent" /\ row.attempt >= 1
      BY <3>1, <3>2 DEF QueuedAt, FailedAt, JobRow
    <3>4. jobs' = [jobs EXCEPT ![j] = row]
      BY <2>7 DEF RecoverJob, SetJob
    <3> HIDE DEF row
    <3> QED
      BY <1>2, <3>2, <3>3, <3>4
  <2> QED
    BY <1>3, <2>2, <2>3, <2>4, <2>5, <2>6, <2>7
<1>4. ASSUME NEW e \in Executors, Succeed(e[1]), Holds(e), e[1] \in Jobs
      PROVE  QueueInv'
  <2> DEFINE row == [jobs[e[1]] EXCEPT !.status = "succeeded", !.lease = "none"]
  <2>1. /\ row \in JobRow /\ row.status = "succeeded"
        /\ row.attempt = jobs[e[1]].attempt
        /\ jobs' = [jobs EXCEPT ![e[1]] = row]
    BY <1>0, <1>4 DEF JobRow, JobsTyped, Succeed
  <2>2. row.attempt >= 1
    BY <1>4, <2>1 DEF QueueInv, AttemptsBegin, Holds, Live
  <2> HIDE DEF row
  <2> QED
    BY <1>2, <1>4, <2>1, <2>2
<1> QED
  BY <1>1, <1>3, <1>4, JobsStep

LEMMA QueueInvInit == Init => QueueInv
BY DEF Init, QueueInv, OneActiveJob, AttemptsBegin, Active

-----------------------------------------------------------------------------
(* What readers are shown is whole, and what is being published is built.   *)

ValidatingIsWhole ==
  \A r \in Revisions : versions["intelligence"][r].status = "validating" =>
                         versions["intelligence"][r].content = Whole
DataInv == ValidatingIsWhole /\ CurrentIsComplete /\ PublishingIsBuilt

LEMMA SetVersionFacts ==
  ASSUME VersionsTyped, NEW k \in Kinds, NEW r \in Revisions, NEW row, SetVersion(k, r, row)
  PROVE  /\ versions'[k][r] = row
         /\ \A i \in Kinds, s \in Revisions : i # k \/ s # r => versions'[i][s] = versions[i][s]
BY DEF VersionsTyped, SetVersion

\* The current revision, when nothing is published.
LEMMA CurrentKept ==
  ASSUME CurrentIsComplete, repo'.current = repo.current, publications' = publications,
         repo.current # None =>
           /\ snapshots'[repo.current].status = "published"
           /\ repo.current \in artifacts'
           /\ \A k \in Kinds : /\ versions'[k][repo.current].status = "published"
                               /\ versions'[k][repo.current].content = Whole
  PROVE  CurrentIsComplete'
BY DEF CurrentIsComplete

LEMMA DataInvInit == Init => DataInv
BY DEF Init, DataInv, ValidatingIsWhole, CurrentIsComplete, PublishingIsBuilt, Kinds, NoVersion

\* A version of a revision that is not shown, or that stays as whole as it is, is replaced.
LEMMA VersionSet ==
  ASSUME Typed, DataInv, NEW k \in Kinds, NEW r \in Revisions, NEW row, SetVersion(k, r, row),
         r = repo.current => row.status = "published" /\ row.content = Whole,
         k = "intelligence" /\ row.status = "validating" => row.content = Whole,
         repo' = repo, snapshots' = snapshots, publications' = publications,
         artifacts \subseteq artifacts'
  PROVE  DataInv'
<1>1. /\ versions'[k][r] = row
      /\ \A i \in Kinds, s \in Revisions : i # k \/ s # r => versions'[i][s] = versions[i][s]
  BY SetVersionFacts, TypeOKParts DEF Typed
<1>2. "intelligence" \in Kinds
  BY DEF Kinds
<1>3. ValidatingIsWhole'
  BY <1>1, <1>2 DEF DataInv, ValidatingIsWhole
<1>4. repo.current \in Revisions \cup {None}
  BY DEF Typed, TypeOK
<1>5. CurrentIsComplete'
  BY <1>1, <1>4, CurrentKept DEF DataInv, CurrentIsComplete
<1>6. PublishingIsBuilt'
  BY DEF DataInv, PublishingIsBuilt
<1> QED
  BY <1>3, <1>5, <1>6 DEF DataInv

\* What is published whole is not given up.
LEMMA CurrentPublished ==
  ASSUME DataInv, NEW k \in Kinds, repo.current # None
  PROVE  /\ versions[k][repo.current].status = "published"
         /\ versions[k][repo.current].content = Whole
         /\ Published(k, repo.current)
BY DEF DataInv, CurrentIsComplete, Published

LEMMA BeginSnapshotData ==
  ASSUME Typed, DataInv, NEW e \in Executors, BeginSnapshot(e)
  PROVE  DataInv'
<1>1. Rev(e) \in Revisions /\ Rev(e) # None
  BY Caller DEF BeginSnapshot, Calls
<1>2. /\ publications' = publications /\ versions' = versions /\ artifacts' = artifacts
      /\ RepoTyped /\ SnapshotsTyped
  BY TypeOKParts DEF BeginSnapshot, Typed
<1>3. ValidatingIsWhole'
  BY <1>2 DEF DataInv, ValidatingIsWhole
<1>4. CASE repo' = repo /\ snapshots' = snapshots
  BY <1>2, <1>3, <1>4 DEF DataInv, CurrentIsComplete, PublishingIsBuilt
<1>5. CASE /\ repo.current # Rev(e)
           /\ repo' = [repo EXCEPT !.publishing = Rev(e)]
           /\ \/ snapshots' = [snapshots EXCEPT ![Rev(e)] = Building(e[1])]
              \/ snapshots' = [s \in Revisions |->
                   IF s = Rev(e) THEN Building(e[1])
                   ELSE IF snapshots[s] = Building(e[1])
                   THEN [status |-> "failed", job |-> e[1]] ELSE snapshots[s]]
  <2>1. repo'.current = repo.current /\ repo'.publishing = Rev(e)
    BY <1>2, <1>5 DEF RepoTyped
  <2>2. snapshots'[Rev(e)] = Building(e[1])
    BY <1>1, <1>2, <1>5 DEF SnapshotsTyped
  <2>3. ASSUME repo.current # None
        PROVE  snapshots'[repo.current] = snapshots[repo.current]
    <3>1. snapshots[repo.current].status = "published" /\ repo.current \in Revisions
      BY <1>2, <2>3 DEF DataInv, CurrentIsComplete, RepoTyped
    <3>2. snapshots[repo.current] # Building(e[1])
      BY <3>1 DEF Building
    <3> QED
      BY <1>2, <1>5, <3>1, <3>2 DEF SnapshotsTyped
  <2>4. CurrentIsComplete'
    BY <1>2, <2>1, <2>3, CurrentKept DEF DataInv, CurrentIsComplete
  <2>5. PublishingIsBuilt'
    BY <1>5, <2>1, <2>2 DEF PublishingIsBuilt, Building
  <2> QED
    BY <1>3, <2>4, <2>5 DEF DataInv
<1> QED
  BY <1>4, <1>5 DEF BeginSnapshot

LEMMA PublishData ==
  ASSUME Typed, DataInv, NEW e \in Executors, Publish(e)
  PROVE  DataInv'
<1> DEFINE r == Rev(e)
<1>1. r \in Revisions /\ r # None
  BY Caller DEF Publish, Calls
<1>2. RepoTyped /\ SnapshotsTyped /\ VersionsTyped
  BY TypeOKParts DEF Typed
<1>3. "embedding" \in Kinds /\ "graph" \in Kinds /\ "intelligence" \in Kinds
  BY DEF Kinds
<1>4. PublishVersions(r) /\ artifacts' = artifacts
      /\ (\A k \in Kinds : Ready(k, r, e[1])) /\ versions["graph"][r].content = Whole
  BY DEF Publish
<1>5. \A k \in Kinds : publications'[k] = r /\ versions'[k][r].status = "published"
                       /\ versions'[k][r].content = versions[k][r].content
  <2>1. \A k \in Kinds : versions[k][r] \in VersionRow
    BY <1>1, <1>2 DEF VersionsTyped
  <2> QED
    BY <1>1, <1>4, <2>1 DEF PublishVersions, VersionRow
<1>6. ValidatingIsWhole'
  <2> SUFFICES ASSUME NEW s \in Revisions,
                      versions'["intelligence"][s].status = "validating"
               PROVE  versions'["intelligence"][s].content = Whole
    BY DEF ValidatingIsWhole
  <2>1. versions["intelligence"][s] \in VersionRow
    BY <1>2, <1>3 DEF VersionsTyped
  <2>2. versions'["intelligence"][s] = versions["intelligence"][s]
    BY <1>3, <1>4, <2>1 DEF PublishVersions, VersionRow
  <2> QED
    BY <2>2 DEF DataInv, ValidatingIsWhole
<1>7. CASE repo.current # r /\ ReadyToMove(r, e[1]) /\ MoveTo(r)
  <2>1. repo'.current = r /\ repo'.publishing = None
    BY <1>7 DEF MoveTo
  <2>2. snapshots'[r].status = "published"
    <3>1. snapshots[r] \in SnapshotRow
      BY <1>1, <1>2 DEF SnapshotsTyped
    <3> QED
      BY <1>1, <1>7, <3>1 DEF MoveTo, SnapshotRow
  <2>3. r \in artifacts /\ versions["embedding"][r].content = Whole
    BY <1>7 DEF ReadyToMove
  <2>4. versions["intelligence"][r].content = Whole
    <3>1. ~Published("intelligence", r)
      BY <1>3, <1>7 DEF DataInv, CurrentIsComplete, Published
    <3>2. versions["intelligence"][r].status = "validating"
      BY <1>3, <1>4, <3>1 DEF Ready
    <3> QED
      BY <1>1, <3>2 DEF DataInv, ValidatingIsWhole
  <2>5. \A k \in Kinds : versions[k][r].content = Whole
    BY <1>4, <2>3, <2>4 DEF Kinds
  <2> HIDE DEF r
  <2>6. CurrentIsComplete'
    BY <1>4, <1>5, <2>1, <2>2, <2>3, <2>5 DEF CurrentIsComplete
  <2>7. PublishingIsBuilt'
    BY <2>1 DEF PublishingIsBuilt
  <2> QED
    BY <1>6, <2>6, <2>7 DEF DataInv
<1>8. CASE /\ repo.current = r
           /\ repo' = [repo EXCEPT !.publishing = IF @ = r THEN None ELSE @]
           /\ snapshots' = snapshots
  <2>1. repo.publishing # r \/ repo.publishing = None
    BY <1>8 DEF DataInv, PublishingIsBuilt
  <2>2. repo'.current = r /\ repo'.publishing = repo.publishing
    BY <1>1, <1>2, <1>8, <2>1 DEF RepoTyped
  <2>3. CurrentIsComplete'
    BY <1>1, <1>4, <1>5, <1>8, <2>2 DEF DataInv, CurrentIsComplete
  <2>4. PublishingIsBuilt'
    BY <1>8, <2>2 DEF DataInv, PublishingIsBuilt
  <2> QED
    BY <1>6, <2>3, <2>4 DEF DataInv
<1> QED
  BY <1>7, <1>8 DEF Publish

LEMMA DiscardSnapshotData ==
  ASSUME Typed, DataInv, NEW e \in Executors, DiscardSnapshot(e)
  PROVE  DataInv'
<1> DEFINE r == Rev(e)
<1>1. r \in Revisions /\ r # None
  BY Caller DEF DiscardSnapshot, Calls
<1>2. RepoTyped /\ SnapshotsTyped /\ VersionsTyped
  BY TypeOKParts DEF Typed
<1>3. publications' = publications
  BY DEF DiscardSnapshot, DiscardsOnly
<1>4. CASE repo' = repo /\ snapshots' = snapshots /\ artifacts' = artifacts /\ versions' = versions
  BY <1>3, <1>4 DEF DataInv, ValidatingIsWhole, CurrentIsComplete, PublishingIsBuilt
<1>5. CASE /\ repo.current # r
           /\ \/ versions' = versions
              \/ SetVersion("embedding", r, [versions["embedding"][r] EXCEPT !.content = {}])
           /\ artifacts' = artifacts \ {r} \/ artifacts' = artifacts
           /\ \E row : snapshots' = [snapshots EXCEPT ![r] = row]
           /\ repo' = [repo EXCEPT !.publishing = IF @ = r THEN None ELSE @]
  <2>1. repo'.current = repo.current
    BY <1>2, <1>5 DEF RepoTyped
  <2>2. "embedding" \in Kinds /\ "intelligence" \in Kinds
    BY DEF Kinds
  <2>3. \A k \in Kinds, s \in Revisions :
          s # r \/ k # "embedding" => versions'[k][s] = versions[k][s]
    BY <1>1, <1>2, <1>5, <2>2, SetVersionFacts
  <2>4. \A s \in Revisions \ {r} : snapshots'[s] = snapshots[s]
    BY <1>2, <1>5 DEF SnapshotsTyped
  <2>5. ValidatingIsWhole'
    BY <2>2, <2>3 DEF DataInv, ValidatingIsWhole
  <2>6. repo.current \in Revisions \cup {None}
    BY <1>2 DEF RepoTyped
  <2>7. CurrentIsComplete'
    BY <1>3, <1>5, <2>1, <2>3, <2>4, <2>6, CurrentKept DEF DataInv, CurrentIsComplete
  <2>8. PublishingIsBuilt'
    <3>1. repo'.publishing # None =>
            repo'.publishing = repo.publishing /\ repo.publishing \in Revisions \ {r}
      BY <1>1, <1>2, <1>5 DEF RepoTyped
    <3> QED
      BY <2>1, <2>4, <3>1 DEF DataInv, PublishingIsBuilt
  <2> QED
    BY <2>5, <2>7, <2>8 DEF DataInv
<1> QED
  BY <1>4, <1>5 DEF DiscardSnapshot

LEMMA CollectSnapshotsData ==
  ASSUME Typed, DataInv, NEW e \in Executors, CollectSnapshots(e)
  PROVE  DataInv'
<1>1. RepoTyped
  BY TypeOKParts DEF Typed
<1>2. PICK gone \in SUBSET Revisions :
        /\ \A r \in gone : /\ r \notin {repo.current, repo.previous, repo.publishing}
                           /\ snapshots[r].status # "building"
        /\ snapshots' = [r \in Revisions |-> IF r \in gone THEN NoSnapshot ELSE snapshots[r]]
        /\ artifacts' = artifacts \ gone
        /\ versions' = [k \in Kinds |-> [r \in Revisions |->
             IF r \in gone THEN NoVersion ELSE versions[k][r]]]
  BY DEF CollectSnapshots
<1>3. repo' = repo /\ publications' = publications
  BY DEF CollectSnapshots
<1>4. repo.current \in Revisions \cup {None} /\ repo.publishing \in Revisions \cup {None}
  BY <1>1 DEF RepoTyped
<1>5. ValidatingIsWhole'
  <2>1. "intelligence" \in Kinds
    BY DEF Kinds
  <2> QED
    BY <1>2, <2>1 DEF DataInv, ValidatingIsWhole, NoVersion
<1>6. CurrentIsComplete'
  BY <1>2, <1>3, <1>4, CurrentKept DEF DataInv, CurrentIsComplete
<1>7. PublishingIsBuilt'
  BY <1>2, <1>3, <1>4 DEF DataInv, PublishingIsBuilt
<1> QED
  BY <1>5, <1>6, <1>7 DEF DataInv

\* The versions of one kind are changed, those that are published excepted.
LEMMA VersionsData ==
  ASSUME Typed, DataInv, NEW k \in Kinds, NEW new \in [Revisions -> VersionRow],
         versions' = [versions EXCEPT ![k] = new],
         \A r \in Revisions : versions[k][r].status = "published" => new[r] = versions[k][r],
         \A r \in Revisions : new[r].status = "validating" => new[r] = versions[k][r],
         UNCHANGED <<repo, snapshots, artifacts, publications>>
  PROVE  DataInv'
<1>1. versions'[k] = new /\ \A i \in Kinds \ {k} : versions'[i] = versions[i]
  BY TypeOKParts DEF Typed, VersionsTyped
<1>2. "intelligence" \in Kinds
  BY DEF Kinds
<1>3. ValidatingIsWhole'
  BY <1>1, <1>2 DEF DataInv, ValidatingIsWhole
<1>4. repo.current \in Revisions \cup {None}
  BY DEF Typed, TypeOK
<1>5. CurrentIsComplete'
  BY <1>1, <1>4, CurrentKept DEF DataInv, CurrentIsComplete
<1>6. PublishingIsBuilt'
  BY DEF DataInv, PublishingIsBuilt
<1> QED
  BY <1>3, <1>5, <1>6 DEF DataInv

LEMMA CollectIntelligenceData ==
  ASSUME Typed, DataInv, NEW e \in Executors, CollectIntelligence(e)
  PROVE  DataInv'
<1>1. "intelligence" \in Kinds /\ NoVersion \in VersionRow
  BY DEF Kinds, NoVersion, VersionRow
<1>2. \A r \in Revisions : versions["intelligence"][r] \in VersionRow
  BY <1>1 DEF Typed, TypeOK
<1>3. PICK gone \in SUBSET Revisions :
        /\ \A r \in gone : versions["intelligence"][r].status \in {"failed", "superseded"}
        /\ versions' = [versions EXCEPT !["intelligence"] = [r \in Revisions |->
             IF r \in gone THEN NoVersion ELSE versions["intelligence"][r]]]
  <2>1. PICK kept \in SUBSET Revisions :
          versions' = [versions EXCEPT !["intelligence"] = [r \in Revisions |->
            IF /\ versions["intelligence"][r].status \in {"failed", "superseded"}
               /\ r \notin kept \cup {publications["intelligence"], repo.previous}
            THEN NoVersion ELSE versions["intelligence"][r]]]
    BY DEF CollectIntelligence, Retained
  <2> DEFINE gone == {r \in Revisions :
                 /\ versions["intelligence"][r].status \in {"failed", "superseded"}
                 /\ r \notin kept \cup {publications["intelligence"], repo.previous}}
  <2>2. [r \in Revisions |->
            IF /\ versions["intelligence"][r].status \in {"failed", "superseded"}
               /\ r \notin kept \cup {publications["intelligence"], repo.previous}
            THEN NoVersion ELSE versions["intelligence"][r]]
        = [r \in Revisions |-> IF r \in gone THEN NoVersion ELSE versions["intelligence"][r]]
    OBVIOUS
  <2> WITNESS gone \in SUBSET Revisions
  <2> QED
    BY <2>1, <2>2
<1> DEFINE new == [r \in Revisions |-> IF r \in gone THEN NoVersion ELSE versions["intelligence"][r]]
<1>4. /\ new \in [Revisions -> VersionRow]
      /\ \A r \in Revisions :
           new[r] = IF r \in gone THEN NoVersion ELSE versions["intelligence"][r]
      /\ versions' = [versions EXCEPT !["intelligence"] = new]
  BY <1>1, <1>2, <1>3
<1> HIDE DEF new
<1>5. /\ \A r \in Revisions : versions["intelligence"][r].status = "published" =>
           new[r] = versions["intelligence"][r]
      /\ \A r \in Revisions : new[r].status = "validating" =>
           new[r] = versions["intelligence"][r]
  BY <1>3, <1>4 DEF NoVersion
<1>6. UNCHANGED <<repo, snapshots, artifacts, publications>>
  BY DEF CollectIntelligence
<1> QED
  BY <1>1, <1>4, <1>5, <1>6, VersionsData

LEMMA RecoverVersionsData ==
  ASSUME Typed, DataInv, NEW k \in Kinds, RecoverVersions(k)
  PROVE  DataInv'
<1> DEFINE failed(r) ==
             [versions[k][r] EXCEPT !.status = "failed",
                                    !.content = IF k = "intelligence" THEN versions[k][r].content
                                                ELSE {}]
           new == [r \in Revisions |->
                    IF Unfinished(versions[k][r]) /\ ~Live(versions[k][r].job)
                    THEN failed(r) ELSE versions[k][r]]
<1>1. \A r \in Revisions : versions[k][r] \in VersionRow
  BY DEF Typed, TypeOK
<1>2. versions' = [versions EXCEPT ![k] = new]
  BY DEF RecoverVersions
<1>3. \A r \in Revisions : failed(r) \in VersionRow /\ failed(r).status = "failed"
  BY <1>1 DEF VersionRow
<1> HIDE DEF failed
<1>4. /\ new \in [Revisions -> VersionRow]
      /\ \A r \in Revisions : new[r] = versions[k][r]
                              \/ (new[r] = failed(r) /\ Unfinished(versions[k][r]))
  BY <1>1, <1>3
<1> HIDE DEF new
<1>5. /\ \A r \in Revisions : versions[k][r].status = "published" => new[r] = versions[k][r]
      /\ \A r \in Revisions : new[r].status = "validating" => new[r] = versions[k][r]
  BY <1>3, <1>4 DEF Unfinished
<1>6. UNCHANGED <<repo, snapshots, artifacts, publications>>
  BY DEF RecoverVersions
<1> QED
  BY <1>2, <1>4, <1>5, <1>6, VersionsData

LEMMA PipelineData ==
  ASSUME Typed, DataInv, NEW e \in Executors, PipelineStep(e)
  PROVE  DataInv'
<1> DEFINE r == Rev(e)
           j == e[1]
<1>1. r \in Revisions /\ r # None /\ j \in Jobs
  BY StepMoves, Caller
<1>2. \A k \in Kinds : versions[k][r] \in VersionRow
  BY <1>1 DEF Typed, TypeOK
<1>3. "embedding" \in Kinds /\ "graph" \in Kinds /\ "intelligence" \in Kinds
  BY DEF Kinds
<1>4. CASE CallFails(e) \/ PipelineDies(e)
  BY <1>4 DEF CallFails, PipelineDies, DataUnchanged, DataInv, ValidatingIsWhole,
              CurrentIsComplete, PublishingIsBuilt
<1>5. ASSUME NEW k \in Kinds, BeginVersion(e, k)
      PROVE  DataInv'
  <2>1. UNCHANGED <<jobs, repo, snapshots, artifacts, publications>>
    BY <1>5 DEF BeginVersion
  <2>2. CASE versions' = versions
    BY <2>1, <2>2 DEF DataInv, ValidatingIsWhole, CurrentIsComplete, PublishingIsBuilt
  <2>3. ASSUME NEW kept, ~Published(k, r),
               SetVersion(k, r, [status |-> "building", job |-> j, content |-> kept])
        PROVE  DataInv'
    <3>1. r # repo.current
      BY <1>1, <2>3, CurrentPublished
    <3> QED
      BY <1>1, <2>1, <2>3, <3>1, VersionSet
  <2> QED
    BY <1>5, <2>2, <2>3 DEF BeginVersion
<1>6. ASSUME NEW half \in Whole, StoreChunk(e, half)
      PROVE  DataInv'
  <2> DEFINE v == versions["embedding"][r]
             row == [v EXCEPT !.content = @ \cup {half}]
  <2>1. SetVersion("embedding", r, row)
    BY <1>6 DEF StoreChunk
  <2>2. row.status = v.status /\ row.content = v.content \cup {half}
    BY <1>2, <1>3 DEF VersionRow
  <2>3. r = repo.current => row.status = "published" /\ row.content = Whole
    BY <1>1, <1>3, <1>6, <2>2, CurrentPublished
  <2>4. UNCHANGED <<repo, snapshots, artifacts, publications>>
    BY <1>6 DEF StoreChunk, StagesOnly
  <2> HIDE DEF row
  <2> QED
    BY <1>1, <1>3, <2>1, <2>3, <2>4, VersionSet
<1>7. CASE StageArtifacts(e)
  <2>1. /\ UNCHANGED <<repo, snapshots, versions, publications>>
        /\ artifacts \subseteq artifacts'
    BY <1>7 DEF StageArtifacts, StagesOnly
  <2> QED
    BY <2>1, CurrentKept DEF DataInv, ValidatingIsWhole, CurrentIsComplete, PublishingIsBuilt
<1>8. ASSUME NEW k \in Kinds, StageVersion(e, k) \/ Validate(e, k)
      PROVE  DataInv'
  <2>1. /\ versions[k][r].status = "building"
        /\ UNCHANGED <<repo, snapshots, artifacts, publications>>
    BY <1>8 DEF StageVersion, Validate, MayBuild, StagesOnly
  <2>2. r # repo.current
    BY <1>1, <2>1, CurrentPublished
  <2>3. \E row : /\ SetVersion(k, r, row)
                 /\ row.status = "validating" => row.content = Whole
    <3>1. CASE StageVersion(e, k)
      BY <1>2, <3>1 DEF StageVersion, VersionRow
    <3>2. CASE Validate(e, k)
      BY <1>2, <3>2 DEF Validate, VersionRow
    <3> QED
      BY <1>8, <3>1, <3>2
  <2> QED
    BY <1>1, <2>1, <2>2, <2>3, VersionSet
<1>9. CASE DiscardEmbedding(e) \/ FailIntelligence(e) \/ DiscardGraph(e)
  <2>1. UNCHANGED <<repo, snapshots, artifacts, publications>>
    BY <1>9 DEF DiscardEmbedding, FailIntelligence, DiscardGraph, DiscardsOnly
  <2>2. \E k \in Kinds : \E row :
          /\ SetVersion(k, r, row)
          /\ row.status = "validating" => k # "intelligence" \/ row.content = Whole
          /\ r = repo.current => row.status = "published" /\ row.content = Whole
    <3>1. ASSUME NEW k \in Kinds, NEW S, "published" \notin S
          PROVE  LET v == versions[k][r]
                     w == GivenUp(v, j, S)
                 IN  /\ w = v \/ (w.status = "failed" /\ v.status # "published")
                     /\ w.status \in {v.status, "failed"}
                     /\ w.content = v.content
                     /\ [w EXCEPT !.content = {}].status = w.status
                     /\ [w EXCEPT !.content = {}].content = {}
      BY <1>2, <3>1 DEF GivenUp, VersionRow
    <3>2. CASE DiscardEmbedding(e)
      <4> DEFINE w == GivenUp(versions["embedding"][r], j, {"building", "validating", "failed"})
                 row == IF w.status = "failed" THEN [w EXCEPT !.content = {}] ELSE w
      <4>1. SetVersion("embedding", r, row)
        BY <3>2 DEF DiscardEmbedding
      <4>2. r = repo.current => row.status = "published" /\ row.content = Whole
        BY <1>1, <1>3, <3>1, CurrentPublished
      <4> QED
        BY <1>3, <4>1, <4>2
    <3>3. CASE FailIntelligence(e)
      <4> DEFINE w == GivenUp(versions["intelligence"][r], j, {"building", "validating"})
      <4>1. SetVersion("intelligence", r, w)
        BY <3>3 DEF FailIntelligence
      <4>2. r = repo.current => w.status = "published" /\ w.content = Whole
        BY <1>1, <1>3, <3>1, CurrentPublished
      <4>3. w.status = "validating" => w.content = Whole
        BY <1>1, <1>3, <3>1 DEF DataInv, ValidatingIsWhole
      <4> QED
        BY <1>3, <4>1, <4>2, <4>3
    <3>4. CASE DiscardGraph(e)
      <4> DEFINE w == GivenUp(versions["graph"][r], j, {"building", "validating", "failed"})
                 row == [w EXCEPT !.content = {}]
      <4>1. /\ SetVersion("graph", r, row)
            /\ w.content = {} \/ w.status \in {"building", "failed", "superseded"}
        BY <3>4 DEF DiscardGraph
      <4>2. r # repo.current
        <5>1. Whole # {}
          BY DEF Whole
        <5> QED
          BY <1>1, <1>3, <3>1, <4>1, <5>1, CurrentPublished
      <4> QED
        BY <1>3, <4>1, <4>2
    <3> QED
      BY <1>9, <3>2, <3>3, <3>4
  <2> QED
    BY <1>1, <2>1, <2>2, VersionSet
<1> QED
  BY <1>4, <1>5, <1>6, <1>7, <1>8, <1>9, BeginSnapshotData, PublishData, DiscardSnapshotData,
     CollectSnapshotsData, CollectIntelligenceData
     DEF PipelineStep

LEMMA DataInvStep ==
  ASSUME Typed, DataInv, [Next]_vars
  PROVE  DataInv'
<1>1. CASE UNCHANGED <<repo, snapshots, artifacts, versions, publications>>
  BY <1>1 DEF DataInv, ValidatingIsWhole, CurrentIsComplete, PublishingIsBuilt
<1>2. CASE QueueStep
  BY <1>1, <1>2
     DEF QueueStep, RequestJob, StartJob, LeaseLapses, FailJob, RetryJob, RecoverJob, SetJob,
         DataUnchanged
<1>3. CASE MarkAbandonedFailed
  <2>1. RepoTyped /\ UNCHANGED <<snapshots, artifacts, versions, publications>>
    BY <1>3, TypeOKParts DEF Typed, MarkAbandonedFailed
  <2>2. repo'.current = repo.current /\ repo'.publishing \in {repo.publishing, None}
    BY <1>3, <2>1 DEF MarkAbandonedFailed, RepoTyped
  <2> QED
    BY <2>1, <2>2 DEF DataInv, ValidatingIsWhole, CurrentIsComplete, PublishingIsBuilt
<1>4. CASE StartUpStep
  BY <1>1, <1>3, <1>4, RecoverVersionsData DEF StartUpStep, FindAbandoned, DataUnchanged
<1> QED
  BY <1>1, <1>2, <1>4, PipelineData DEF Next, vars

\* What readers are shown is whole and consistent, whatever executors that have lost their
\* claims, failures, collection and recovery do: publish_repository_snapshot checks every
\* part again in the transaction that moves the pointers.
THEOREM CurrentComplete == Spec => []CurrentIsComplete
<1>1. DataInv => CurrentIsComplete
  BY DEF DataInv
<1> QED
  BY <1>1, InitTyped, TypedStep, DataInvInit, DataInvStep, PTL DEF Spec

\* The publication fence never rests on a build that has been given up.
THEOREM PublishingBuilt == Spec => []PublishingIsBuilt
<1>1. DataInv => PublishingIsBuilt
  BY DEF DataInv
<1> QED
  BY <1>1, InitTyped, TypedStep, DataInvInit, DataInvStep, PTL DEF Spec

-----------------------------------------------------------------------------
(* An executor that keeps its claim finds what it has begun.                *)

\* The kinds begun before this one, of those an earlier attempt may not fail.
Before(k) == CASE k = "embedding" -> {}
               [] k = "graph" -> {"embedding"}
               [] OTHER -> {"embedding", "graph"}

BuildsVersion(e, k) ==
  LET v == versions[k][Rev(e)] IN v.job = e[1] /\ v.status \in {"building", "validating"}

BuildsSnapshot(e) == snapshots[Rev(e)] = Building(e[1])

\* From its first staging to its last discard.
BuildIsOwn(e) ==
  /\ Fenced(e) /\ Doing(e, Tries \cup {"discard"}) => BuildsSnapshot(e)
  /\ Holds(e) /\ Doing(e, Tries) => \A k \in {"embedding", "graph"} : BuildsVersion(e, k)

\* From its first begin to its last: either it finds the current revision, published in
\* every kind, or it has begun what it is going to build.
BeginIsOwn(e) ==
  /\ Doing(e, {"begin"}) /\ CallOf(e)[2] = "snapshot" => pipelines[e].published = {}
  /\ Doing(e, {"begin"}) /\ CallOf(e)[2] # "snapshot" /\ Holds(e) =>
       LET kind == CallOf(e)[2] IN
       IF repo.current = Rev(e)
       THEN pipelines[e].published = {"snapshot"} \cup Before(kind)
       ELSE /\ pipelines[e].published \cap Kinds = {}
            /\ BuildsSnapshot(e)
            /\ \A k \in Before(kind) : BuildsVersion(e, k)

\* It publishes the current revision again, or has published.
EndIsOwn(e) ==
  /\ Holds(e) /\ Doing(e, {"republish"}) => repo.current = Rev(e)
  /\ Doing(e, {"collect"}) => ~Fenced(e)

Sound(e) == BuildIsOwn(e) /\ BeginIsOwn(e) /\ EndIsOwn(e)
ExecutorsAreSound == \A e \in Executors : Sound(e)

\* What another actor leaves to an executor.
LeavesAlone(f) ==
  /\ pipelines'[f] = pipelines[f]
  /\ Fenced(f)' => Fenced(f)
  /\ Holds(f)' => Holds(f) /\ repo'.current = repo.current
  /\ Fenced(f)' /\ BuildsSnapshot(f) => snapshots'[Rev(f)] = snapshots[Rev(f)]
  /\ Holds(f)' /\ BuildsSnapshot(f) =>
       \A k \in {"embedding", "graph"} :
         BuildsVersion(f, k) =>
           /\ versions'[k][Rev(f)].job = versions[k][Rev(f)].job
           /\ versions'[k][Rev(f)].status = versions[k][Rev(f)].status

LEMMA LeftAloneSound ==
  ASSUME NEW f \in Executors, Sound(f), LeavesAlone(f)
  PROVE  Sound(f)'
<1>1. Rev(f)' = Rev(f) /\ CallOf(f)' = CallOf(f) /\ \A ops : Doing(f, ops)' <=> Doing(f, ops)
  BY DEF LeavesAlone, Rev, CallOf, Doing
<1>2. Holds(f)' => Fenced(f)'
  BY DEF Holds, Fenced, Live
<1>3. Holds(f) => Fenced(f)
  BY HolderIsFenced
<1>4. Fenced(f)' /\ BuildsSnapshot(f) => BuildsSnapshot(f)'
  BY <1>1 DEF LeavesAlone, BuildsSnapshot, Building
<1>5. \A k \in {"embedding", "graph"} :
        Holds(f)' /\ BuildsSnapshot(f) /\ BuildsVersion(f, k) => BuildsVersion(f, k)'
  BY <1>1 DEF LeavesAlone, BuildsVersion
<1>6. BuildIsOwn(f)'
  <2>1. Fenced(f)' /\ Doing(f, Tries \cup {"discard"})' => BuildsSnapshot(f)'
    BY <1>1, <1>4 DEF Sound, BuildIsOwn, LeavesAlone
  <2>2. Doing(f, Tries) => Doing(f, Tries \cup {"discard"})
    BY DEF Doing
  <2>3. Holds(f)' /\ Doing(f, Tries)' => \A k \in {"embedding", "graph"} : BuildsVersion(f, k)'
    BY <1>1, <1>2, <1>3, <1>5, <2>2 DEF Sound, BuildIsOwn, LeavesAlone
  <2> QED
    BY <2>1, <2>3 DEF BuildIsOwn
<1>7. BeginIsOwn(f)'
  <2>1. Doing(f, {"begin"})' /\ CallOf(f)'[2] = "snapshot" => pipelines'[f].published = {}
    BY <1>1 DEF Sound, BeginIsOwn, LeavesAlone
  <2>2. ASSUME Doing(f, {"begin"})', CallOf(f)'[2] # "snapshot", Holds(f)'
        PROVE  LET kind == CallOf(f)'[2] IN
               IF repo'.current = Rev(f)'
               THEN pipelines'[f].published = {"snapshot"} \cup Before(kind)
               ELSE /\ pipelines'[f].published \cap Kinds = {}
                    /\ BuildsSnapshot(f)'
                    /\ \A k \in Before(kind) : BuildsVersion(f, k)'
    <3> DEFINE kind == CallOf(f)[2]
    <3>1. IF repo.current = Rev(f)
          THEN pipelines[f].published = {"snapshot"} \cup Before(kind)
          ELSE /\ pipelines[f].published \cap Kinds = {}
               /\ BuildsSnapshot(f)
               /\ \A k \in Before(kind) : BuildsVersion(f, k)
      BY <1>1, <2>2 DEF Sound, BeginIsOwn, LeavesAlone
    <3>2. Before(kind) \subseteq {"embedding", "graph"}
      BY DEF Before
    <3> HIDE DEF kind
    <3>3. CallOf(f)'[2] = kind
      BY <1>1 DEF kind
    <3> QED
      BY <1>1, <1>2, <1>4, <1>5, <2>2, <3>1, <3>2, <3>3 DEF LeavesAlone
  <2> QED
    BY <2>1, <2>2 DEF BeginIsOwn
<1>8. EndIsOwn(f)'
  BY <1>1 DEF Sound, EndIsOwn, LeavesAlone
<1> QED
  BY <1>6, <1>7, <1>8 DEF Sound

LEMMA FencesLeft ==
  ASSUME Typed, NEW e \in Executors, NEW f \in Executors, PipelineStep(e)
  PROVE  (Fenced(f)' => Fenced(f)) /\ (Holds(f)' => Holds(f))
<1>1. CASE jobs' = jobs
  BY <1>1 DEF Fenced, Holds, Live
<1>2. CASE Succeed(e[1]) /\ e[1] \in Jobs
  <2>1. JobsTyped /\ jobs[e[1]] \in JobRow /\ f[1] \in Jobs
    BY <1>2, TypeOKParts DEF Typed, JobsTyped, Executors
  <2>2. /\ jobs'[e[1]] = [jobs[e[1]] EXCEPT !.status = "succeeded", !.lease = "none"]
        /\ \A i \in Jobs \ {e[1]} : jobs'[i] = jobs[i]
    BY <1>2, <2>1, SucceedTyped
  <2>3. jobs'[e[1]].status = "succeeded"
    BY <2>1, <2>2 DEF JobRow
  <2> QED
    BY <2>1, <2>2, <2>3 DEF Fenced, Holds, Live
<1>3. jobs' = jobs \/ (Publish(e) /\ Succeed(e[1]) /\ Holds(e) /\ e[1] \in Jobs)
  BY DEF PipelineStep, CallFails, PipelineDies, BeginSnapshot, BeginVersion, StoreChunk,
         StageArtifacts, StageVersion, StagesOnly, Validate, Publish, DiscardEmbedding,
         FailIntelligence, DiscardGraph, DiscardSnapshot, DiscardsOnly, CollectSnapshots,
         CollectIntelligence, Executors
<1> QED
  BY <1>1, <1>2, <1>3

\* Only a publication moves the current revision.
LEMMA CurrentLeft ==
  ASSUME Typed, NEW e \in Executors, PipelineStep(e), repo'.current # repo.current
  PROVE  Publish(e)
<1>1. RepoTyped
  BY TypeOKParts DEF Typed
<1> QED
  BY <1>1
     DEF PipelineStep, CallFails, PipelineDies, DataUnchanged, BeginSnapshot, BeginVersion,
         StoreChunk, StageArtifacts, StageVersion, StagesOnly, Validate, DiscardEmbedding,
         FailIntelligence, DiscardGraph, DiscardSnapshot, DiscardsOnly, CollectSnapshots,
         CollectIntelligence, RepoTyped

\* The snapshot an executor with a claim is building is not touched by another executor.
LEMMA SnapshotLeft ==
  ASSUME Typed, NEW e \in Executors, PipelineStep(e), NEW f \in Executors, f # e,
         Fenced(f), BuildsSnapshot(f), Rev(f) \in Revisions
  PROVE  snapshots'[Rev(f)] = snapshots[Rev(f)]
<1> DEFINE s == Rev(f)
<1>1. SnapshotsTyped /\ Rev(e) \in Revisions
  BY TypeOKParts, StepMoves, Caller DEF Typed
<1>2. /\ snapshots[s] = Building(f[1])
      /\ snapshots[s].status = "building"
      /\ Fenced(e) => snapshots[s] # Building(e[1])
  BY OneFenced DEF BuildsSnapshot, Building
<1>3. CASE BeginSnapshot(e)
  <2>1. Fenced(e)
    BY <1>3, HolderIsFenced DEF BeginSnapshot
  <2>2. CASE snapshots' = snapshots
    BY <2>2
  <2>3. CASE Restorable(Rev(e)) /\ snapshots' = [snapshots EXCEPT ![Rev(e)] = Building(e[1])]
    BY <1>1, <1>2, <2>3 DEF SnapshotsTyped, Restorable
  <2>4. CASE /\ snapshots[Rev(e)].status \in {"none", "failed", "superseded"}
                  \/ snapshots[Rev(e)] = Building(e[1])
             /\ snapshots' = [t \in Revisions |->
                  IF t = Rev(e) THEN Building(e[1])
                  ELSE IF snapshots[t] = Building(e[1])
                  THEN [status |-> "failed", job |-> e[1]] ELSE snapshots[t]]
    BY <1>2, <2>1, <2>4
  <2> QED
    BY <1>3, <2>2, <2>3, <2>4 DEF BeginSnapshot
<1>4. CASE Publish(e)
  <2>1. Fenced(e)
    BY <1>4, HolderIsFenced DEF Publish
  <2>2. CASE ReadyToMove(Rev(e), e[1]) /\ MoveTo(Rev(e))
    BY <1>2, <2>1, <2>2 DEF ReadyToMove, MoveTo
  <2> QED
    BY <1>4, <2>2 DEF Publish
<1>5. CASE DiscardSnapshot(e)
  <2>1. Fenced(e)
    BY <1>5, HolderIsFenced DEF DiscardSnapshot
  <2>2. \/ snapshots' = snapshots
        \/ \E row : snapshots' = [snapshots EXCEPT ![Rev(e)] =
             IF @ = Building(e[1]) THEN row ELSE @]
    BY <1>5 DEF DiscardSnapshot
  <2> QED
    BY <1>1, <1>2, <2>1, <2>2 DEF SnapshotsTyped
<1>6. CASE CollectSnapshots(e)
  <2>1. PICK gone \in SUBSET Revisions :
          /\ \A r \in gone : snapshots[r].status # "building"
          /\ snapshots' = [r \in Revisions |-> IF r \in gone THEN NoSnapshot ELSE snapshots[r]]
    BY <1>6 DEF CollectSnapshots
  <2> QED
    BY <1>2, <2>1
<1> QED
  BY <1>3, <1>4, <1>5, <1>6
     DEF PipelineStep, CallFails, PipelineDies, DataUnchanged, BeginVersion,
         StoreChunk, StageArtifacts, StageVersion, StagesOnly, Validate, DiscardEmbedding,
         FailIntelligence, DiscardGraph, DiscardsOnly, CollectIntelligence

\* Nor are its artifacts, its index and its graph, if its lease is alive: all that another
\* executor may do is add chunks.
LEMMA VersionsLeft ==
  ASSUME Typed, QueueInv, DataInv, ExecutorsAreSound,
         NEW e \in Executors, PipelineStep(e), NEW f \in Executors, f # e,
         Holds(f), Rev(f) \in Revisions, BuildsSnapshot(f) \/ Rev(f) = repo.current
  PROVE  /\ Rev(f) \in artifacts => Rev(f) \in artifacts'
         /\ \A k \in {"embedding", "graph"} :
              /\ versions'[k][Rev(f)].job = versions[k][Rev(f)].job
              /\ versions'[k][Rev(f)].status = versions[k][Rev(f)].status
              /\ versions[k][Rev(f)].content \subseteq versions'[k][Rev(f)].content
<1> DEFINE s == Rev(f)
           r == Rev(e)
           Left == /\ s \in artifacts => s \in artifacts'
                   /\ \A k \in {"embedding", "graph"} :
                        /\ versions'[k][s].job = versions[k][s].job
                        /\ versions'[k][s].status = versions[k][s].status
                        /\ versions[k][s].content \subseteq versions'[k][s].content
<1>1. VersionsTyped /\ r \in Revisions /\ pipelines[e].todo # <<>>
  BY TypeOKParts, StepMoves, Caller DEF Typed
<1>2. ~Holds(e)
  BY OneHolder DEF QueueInv
<1>3. Fenced(f) /\ s # None
  BY HolderIsFenced, NoneAssumption
<1>4. s = repo.current => snapshots[s].status = "published"
  BY <1>3 DEF DataInv, CurrentIsComplete
<1>5. Kinds = {"embedding", "graph", "intelligence"}
  BY DEF Kinds
<1>6. MayDiscard(e) /\ CallOf(e)[1] = "discard" => r # s
  <2> SUFFICES ASSUME MayDiscard(e), CallOf(e)[1] = "discard" PROVE r # s
    OBVIOUS
  <2>1. Fenced(e) /\ Doing(e, Tries \cup {"discard"})
    BY <1>1, HolderIsFenced DEF Doing
  <2>2. snapshots[r] = Building(e[1])
    BY <2>1 DEF ExecutorsAreSound, Sound, BuildIsOwn, BuildsSnapshot
  <2>3. snapshots[r].status = "building" /\ snapshots[r].job = e[1]
    BY <2>2 DEF Building
  <2>4. BuildsSnapshot(f) => snapshots[s].job = f[1]
    BY DEF BuildsSnapshot, Building
  <2> QED
    BY <1>3, <1>4, <2>1, <2>3, <2>4, OneFenced
<1>7. (\A k \in {"embedding", "graph"} : versions'[k][s] = versions[k][s])
        /\ (s \in artifacts => s \in artifacts') => Left
  OBVIOUS
<1>8. CASE StoreChunk(e, "front") \/ StoreChunk(e, "back")
  <2>1. PICK half \in Whole : StoreChunk(e, half)
    BY <1>8 DEF Whole
  <2> DEFINE v == versions["embedding"][r]
             row == [v EXCEPT !.content = @ \cup {half}]
  <2>2. /\ versions'["embedding"][r] = row
        /\ \A i \in Kinds, t \in Revisions :
             i # "embedding" \/ t # r => versions'[i][t] = versions[i][t]
    BY <1>1, <1>5, <2>1, SetVersionFacts DEF StoreChunk
  <2>3. v \in VersionRow
    BY <1>1, <1>5 DEF VersionsTyped
  <2>4. row.job = v.job /\ row.status = v.status /\ v.content \subseteq row.content
    BY <2>3 DEF VersionRow
  <2>5. artifacts' = artifacts
    BY <2>1 DEF StoreChunk
  <2> HIDE DEF row
  <2> QED
    BY <1>5, <2>2, <2>4, <2>5
<1>9. CASE DiscardEmbedding(e)
  <2>1. r # s
    BY <1>1, <1>6, <1>9, Caller DEF DiscardEmbedding
  <2>2. \A i \in Kinds, t \in Revisions : t # r => versions'[i][t] = versions[i][t]
    BY <1>1, <1>5, <1>9, SetVersionFacts DEF DiscardEmbedding
  <2> QED
    BY <1>5, <1>7, <1>9, <2>1, <2>2 DEF DiscardEmbedding
<1>10. CASE DiscardGraph(e)
  <2>1. r # s
    BY <1>1, <1>6, <1>10, Caller DEF DiscardGraph
  <2>2. \A i \in Kinds, t \in Revisions : t # r => versions'[i][t] = versions[i][t]
    BY <1>1, <1>5, <1>10, SetVersionFacts DEF DiscardGraph
  <2> QED
    BY <1>5, <1>7, <1>10, <2>1, <2>2 DEF DiscardGraph
<1>11. CASE FailIntelligence(e)
  <2>1. \A i \in Kinds, t \in Revisions : i # "intelligence" => versions'[i][t] = versions[i][t]
    BY <1>1, <1>5, <1>11, SetVersionFacts DEF FailIntelligence
  <2> QED
    BY <1>5, <1>7, <1>11, <2>1 DEF FailIntelligence
<1>12. CASE DiscardSnapshot(e)
  <2>1. r # s
    BY <1>1, <1>6, <1>12, Caller DEF DiscardSnapshot
  <2>2. \/ versions' = versions
        \/ SetVersion("embedding", r, [versions["embedding"][r] EXCEPT !.content = {}])
    BY <1>12 DEF DiscardSnapshot
  <2>3. \A i \in Kinds, t \in Revisions : t # r => versions'[i][t] = versions[i][t]
    BY <1>1, <1>5, <2>2, SetVersionFacts
  <2>4. artifacts' = artifacts \/ artifacts' = artifacts \ {r}
    BY <1>12 DEF DiscardSnapshot
  <2> QED
    BY <1>5, <1>7, <2>1, <2>3, <2>4
<1>13. CASE CollectSnapshots(e)
  <2>1. PICK gone \in SUBSET Revisions :
          /\ \A t \in gone : snapshots[t].status # "building" /\ t # repo.current
          /\ artifacts' = artifacts \ gone
          /\ versions' = [k \in Kinds |-> [t \in Revisions |->
               IF t \in gone THEN NoVersion ELSE versions[k][t]]]
    BY <1>13 DEF CollectSnapshots
  <2>2. s \notin gone
    BY <2>1 DEF BuildsSnapshot, Building
  <2>3. \A k \in Kinds : versions'[k][s] = versions[k][s]
    BY <2>1, <2>2
  <2> QED
    BY <1>5, <1>7, <2>1, <2>2, <2>3
<1>14. CASE CollectIntelligence(e)
  <2>1. \A k \in {"embedding", "graph"} : versions'[k] = versions[k]
    BY <1>1, <1>5, <1>14 DEF CollectIntelligence, VersionsTyped
  <2> QED
    BY <1>7, <1>14, <2>1 DEF CollectIntelligence
<1>15. CASE CallFails(e) \/ PipelineDies(e)
  BY <1>7, <1>15 DEF CallFails, PipelineDies, DataUnchanged
<1> QED
  BY <1>2, <1>8, <1>9, <1>10, <1>11, <1>12, <1>13, <1>14, <1>15
     DEF PipelineStep, BeginSnapshot, BeginVersion, StageArtifacts, StageVersion, MayBuild,
         Validate, Publish, Whole

LEMMA OthersLeftAlone ==
  ASSUME Typed, QueueInv, DataInv, ExecutorsAreSound,
         NEW e \in Executors, PipelineStep(e), NEW f \in Executors, f # e,
         Rev(f) \in Revisions
  PROVE  LeavesAlone(f)
<1>1. pipelines'[f] = pipelines[f]
  <2>1. CASE PipelineDies(e)
    BY <2>1 DEF PipelineDies, Typed, TypeOK
  <2> QED
    BY <2>1, StepMoves DEF Moves
<1>2. (Fenced(f)' => Fenced(f)) /\ (Holds(f)' => Holds(f))
  BY FencesLeft
<1>3. Holds(f)' => repo'.current = repo.current
  BY <1>2, CurrentLeft, OneHolder DEF Publish, QueueInv
<1>4. Fenced(f)' /\ BuildsSnapshot(f) => snapshots'[Rev(f)] = snapshots[Rev(f)]
  BY <1>2, SnapshotLeft
<1>5. Holds(f)' /\ BuildsSnapshot(f) =>
       \A k \in {"embedding", "graph"} :
         BuildsVersion(f, k) =>
           /\ versions'[k][Rev(f)].job = versions[k][Rev(f)].job
           /\ versions'[k][Rev(f)].status = versions[k][Rev(f)].status
  BY <1>2, VersionsLeft
<1> QED
  BY <1>1, <1>2, <1>3, <1>4, <1>5 DEF LeavesAlone


\* An executor that ends, or goes on to something else than a begin or the repeated
\* publication, has what that needs.
LEMMA MovesSound ==
  ASSUME NEW e \in Executors, pipelines'[e].todo # <<>> =>
           /\ CallOf(e)'[1] \in Tries \cup {"discard"} /\ Fenced(e)' => BuildsSnapshot(e)'
           /\ CallOf(e)'[1] \in Tries /\ Holds(e)' =>
                \A k \in {"embedding", "graph"} : BuildsVersion(e, k)'
           /\ CallOf(e)'[1] = "collect" => ~Fenced(e)'
           /\ CallOf(e)'[1] \notin {"begin", "republish"}
  PROVE  Sound(e)'
BY DEF Sound, BuildIsOwn, BeginIsOwn, EndIsOwn, Doing

LEMMA CallFailsSound ==
  ASSUME Typed, NEW e \in Executors, Sound(e), CallFails(e)
  PROVE  Sound(e)'
<1>1. /\ pipelines[e].todo # <<>>
      /\ Errs(e) /\ UNCHANGED <<jobs, repo, snapshots, versions>>
  BY DEF CallFails, DataUnchanged
<1>2. /\ Moves(e)
      /\ pipelines'[e].todo # <<>> =>
           \/ CallOf(e)[1] \in Tries /\ CallOf(e)'[1] = "discard"
           \/ CallOf(e)[1] \in {"discard", "collect"} /\ Follows(CallOf(e), CallOf(e)')
  BY <1>1, ErrsMoves
<1>3. pipelines'[e].todo # <<>> =>
        \/ CallOf(e)[1] \in Tries \cup {"discard"} /\ CallOf(e)'[1] = "discard"
        \/ CallOf(e)[1] = "collect" /\ CallOf(e)'[1] = "collect"
  BY <1>2 DEF Follows, Builders
<1>4. /\ Fenced(e)' <=> Fenced(e)
      /\ pipelines'[e].todo # <<>> => (BuildsSnapshot(e)' <=> BuildsSnapshot(e))
  BY <1>1, <1>2 DEF Fenced, BuildsSnapshot, Building, Moves, Rev
<1>5. /\ CallOf(e)[1] \in Tries \cup {"discard"} /\ Fenced(e) => BuildsSnapshot(e)
      /\ CallOf(e)[1] = "collect" => ~Fenced(e)
  BY <1>1 DEF Sound, BuildIsOwn, EndIsOwn, Doing
<1>6. "discard" \notin Tries /\ "collect" \notin Tries
  BY DEF Tries, Builders
<1> QED
  BY <1>3, <1>4, <1>5, <1>6, MovesSound

\* A step of the build: the snapshot is not touched, the versions keep their builder.
LEMMA BuildStepSound ==
  ASSUME Typed, NEW e \in Executors, Sound(e), Doing(e, Builders), Moves(e),
         pipelines'[e].todo # <<>> => MayCome(CallOf(e), CallOf(e)'),
         jobs' = jobs, snapshots' = snapshots,
         pipelines'[e].todo # <<>> /\ CallOf(e)'[1] \in Tries =>
           \A k \in {"embedding", "graph"} :
             BuildsVersion(e, k) =>
               /\ versions'[k][Rev(e)].job = versions[k][Rev(e)].job
               /\ versions'[k][Rev(e)].status \in {"building", "validating"}
  PROVE  Sound(e)'
<1>1. CallOf(e)[1] \in Builders /\ Doing(e, Tries) /\ Doing(e, Tries \cup {"discard"})
  BY DEF Doing, Tries
<1>2. pipelines'[e].todo # <<>> => CallOf(e)'[1] \in Tries \cup {"discard"}
  BY <1>1 DEF MayCome, Follows, Builders
<1>3. /\ Fenced(e)' <=> Fenced(e)
      /\ Holds(e)' <=> Holds(e)
      /\ pipelines'[e].todo # <<>> => /\ BuildsSnapshot(e)' <=> BuildsSnapshot(e)
                                      /\ Rev(e)' = Rev(e)
  BY DEF Fenced, Holds, Live, BuildsSnapshot, Building, Moves, Rev
<1>4. /\ Fenced(e) => BuildsSnapshot(e)
      /\ Holds(e) => \A k \in {"embedding", "graph"} : BuildsVersion(e, k)
  BY <1>1 DEF Sound, BuildIsOwn
<1>5. ASSUME pipelines'[e].todo # <<>>, CallOf(e)'[1] \in Tries, Holds(e)',
             NEW k \in {"embedding", "graph"}
      PROVE  BuildsVersion(e, k)'
  BY <1>3, <1>4, <1>5 DEF BuildsVersion
<1>6. \A op \in Tries \cup {"discard"} : op \notin {"begin", "republish", "collect"}
  BY DEF Tries, Builders
<1> QED
  BY <1>2, <1>3, <1>4, <1>5, <1>6, MovesSound

LEMMA BuildSound ==
  ASSUME Typed, NEW e \in Executors, Sound(e),
         \/ \E half \in Whole : StoreChunk(e, half)
         \/ StageArtifacts(e)
         \/ \E k \in Kinds \ {"embedding"} : StageVersion(e, k)
         \/ \E k \in Kinds : Validate(e, k)
  PROVE  Sound(e)'
<1> DEFINE r == Rev(e)
           Kept == pipelines'[e].todo # <<>> /\ CallOf(e)'[1] \in Tries =>
                     \A k \in {"embedding", "graph"} :
                       BuildsVersion(e, k) =>
                         /\ versions'[k][Rev(e)].job = versions[k][Rev(e)].job
                         /\ versions'[k][Rev(e)].status \in {"building", "validating"}
<1>1. pipelines[e].todo # <<>> /\ CallOf(e)[1] \in Builders
  <2>1. pipelines[e].todo # <<>>
    BY DEF StoreChunk, StageArtifacts, StageVersion, Validate, Calls
  <2>2. \E op \in Builders : \E part : Calls(e, <<op, part>>)
    BY DEF StoreChunk, StageArtifacts, StageVersion, Validate, Builders
  <2> QED
    BY <2>1, <2>2, Caller
<1>2. r \in Revisions /\ Kinds = {"embedding", "graph", "intelligence"} /\ VersionsTyped
  BY <1>1, Caller, TypeOKParts DEF Typed, Kinds
<1>3. jobs' = jobs /\ snapshots' = snapshots
  BY DEF StoreChunk, StageArtifacts, StageVersion, Validate, StagesOnly
<1>4. ASSUME NEW k \in Kinds, NEW row, SetVersion(k, r, row),
             row.job = versions[k][r].job,
             row.status \in {versions[k][r].status, "building", "validating"}
      PROVE  Kept
  <2>1. /\ versions'[k][r] = row
        /\ \A i \in Kinds : i # k => versions'[i][r] = versions[i][r]
    BY <1>2, <1>4, SetVersionFacts
  <2> HIDE DEF r
  <2>2. \A i \in Kinds :
          BuildsVersion(e, i) =>
            /\ versions'[i][r].job = versions[i][r].job
            /\ versions'[i][r].status \in {"building", "validating"}
    BY <1>4, <2>1 DEF BuildsVersion, r
  <2> QED
    BY <1>2, <2>2 DEF r
<1>5. \A k \in Kinds : versions[k][r] \in VersionRow
  BY <1>2 DEF VersionsTyped
<1>6. Kept /\ (Returns(e) \/ Errs(e))
  <2>1. ASSUME NEW half \in Whole, StoreChunk(e, half) PROVE Kept /\ Returns(e)
    <3> DEFINE v == versions["embedding"][r]
               row == [v EXCEPT !.content = @ \cup {half}]
    <3>1. row.job = v.job /\ row.status = v.status
      BY <1>2, <1>5 DEF VersionRow
    <3>2. SetVersion("embedding", r, row) /\ Returns(e)
      BY <2>1 DEF StoreChunk, StagesOnly
    <3> HIDE DEF row
    <3> QED
      BY <1>2, <1>4, <3>1, <3>2
  <2>2. CASE StageArtifacts(e)
    BY <2>2 DEF StageArtifacts, StagesOnly, BuildsVersion
  <2>3. ASSUME NEW k \in Kinds \ {"embedding"}, StageVersion(e, k) PROVE Kept /\ Returns(e)
    <3> DEFINE row == [versions[k][r] EXCEPT !.content = Whole]
    <3>1. row.job = versions[k][r].job /\ row.status = versions[k][r].status
      BY <1>2, <1>5 DEF VersionRow
    <3>2. SetVersion(k, r, row) /\ Returns(e)
      BY <2>3 DEF StageVersion, StagesOnly
    <3> HIDE DEF row
    <3> QED
      BY <1>4, <3>1, <3>2
  <2>4. ASSUME NEW k \in Kinds, Validate(e, k) PROVE Kept /\ (Returns(e) \/ Errs(e))
    <3>1. CASE Returns(e) /\ SetVersion(k, r, [versions[k][r] EXCEPT !.status = "validating"])
      <4> DEFINE row == [versions[k][r] EXCEPT !.status = "validating"]
      <4>1. row.job = versions[k][r].job /\ row.status = "validating"
        BY <1>5 DEF VersionRow
      <4> HIDE DEF row
      <4> QED
        BY <1>4, <3>1, <4>1 DEF row
    <3>2. CASE Errs(e)
      <4>1. pipelines'[e].todo # <<>> =>
              CallOf(e)'[1] = "discard" \/ CallOf(e)[1] \in {"discard", "collect"}
        BY <1>1, <3>2, ErrsMoves
      <4>2. pipelines'[e].todo # <<>> => CallOf(e)'[1] \notin Tries
        BY <1>1, <4>1 DEF Builders, Tries
      <4> QED
        BY <3>2, <4>2
    <3> QED
      BY <2>4, <3>1, <3>2 DEF Validate
  <2> QED
    BY <2>1, <2>2, <2>3, <2>4
<1>7. Moves(e) /\ (pipelines'[e].todo # <<>> => MayCome(CallOf(e), CallOf(e)'))
  BY <1>1, <1>6, ErrsMoves, ReturnsMoves DEF Builders, MayCome
<1> QED
  BY <1>1, <1>3, <1>6, <1>7, BuildStepSound DEF Doing

LEMMA PublishSound ==
  ASSUME Typed, NEW e \in Executors, Publish(e)
  PROVE  Sound(e)'
<1>1. /\ pipelines[e].todo # <<>> /\ Returns(e)
      /\ Calls(e, <<"publish", "snapshot">>) \/ Calls(e, <<"republish", "snapshot">>)
  BY DEF Publish, Calls
<1>2. CallOf(e) \in {<<"publish", "snapshot">>, <<"republish", "snapshot">>}
  BY <1>1, Caller
<1>3. pipelines'[e].todo # <<>> =>
        CallOf(e)[1] = "publish" /\ CallOf(e)'[1] \in {"collect", "discard"}
  BY <1>1, <1>2, ReturnsMoves DEF MayCome, Follows, Tries, Builders
<1>4. ~Fenced(e)' /\ ~Holds(e)'
  <2>1. JobsTyped /\ e[1] \in Jobs /\ Succeed(e[1])
    BY <1>1, TypeOKParts, Caller DEF Publish, Typed
  <2>2. jobs'[e[1]].status = "succeeded"
    BY <2>1, SucceedTyped DEF JobsTyped, JobRow
  <2> QED
    BY <2>2 DEF Fenced, Holds, Live
<1> QED
  BY <1>3, <1>4, MovesSound

LEMMA DiscardSound ==
  ASSUME Typed, NEW e \in Executors, Sound(e),
         DiscardEmbedding(e) \/ FailIntelligence(e) \/ DiscardGraph(e) \/ DiscardSnapshot(e)
  PROVE  Sound(e)'
<1>1. pipelines[e].todo # <<>> /\ Returns(e) /\ jobs' = jobs
  BY DEF DiscardEmbedding, FailIntelligence, DiscardGraph, DiscardSnapshot, DiscardsOnly, Calls
<1>2. /\ CallOf(e)[1] = "discard"
      /\ snapshots' = snapshots \/ CallOf(e) = <<"discard", "snapshot">>
  <2>1. \E part : Calls(e, <<"discard", part>>) /\ (snapshots' = snapshots \/ part = "snapshot")
    BY DEF DiscardEmbedding, FailIntelligence, DiscardGraph, DiscardSnapshot
  <2> QED
    BY <1>1, <2>1, Caller
<1>3. /\ Moves(e)
      /\ pipelines'[e].todo # <<>> =>
           CallOf(e) # <<"discard", "snapshot">> /\ CallOf(e)'[1] = "discard"
  BY <1>1, <1>2, ReturnsMoves DEF MayCome, Follows, Tries, Builders
<1>4. /\ Fenced(e)' <=> Fenced(e)
      /\ pipelines'[e].todo # <<>> => (BuildsSnapshot(e)' <=> BuildsSnapshot(e))
  BY <1>1, <1>2, <1>3 DEF Fenced, BuildsSnapshot, Building, Moves, Rev
<1>5. Fenced(e) => BuildsSnapshot(e)
  BY <1>1, <1>2 DEF Sound, BuildIsOwn, Doing
<1> QED
  BY <1>3, <1>4, <1>5, MovesSound DEF Tries, Builders

LEMMA CollectSound ==
  ASSUME Typed, NEW e \in Executors, Sound(e), CollectSnapshots(e) \/ CollectIntelligence(e)
  PROVE  Sound(e)'
<1>1. pipelines[e].todo # <<>> /\ Returns(e) /\ jobs' = jobs
  BY DEF CollectSnapshots, CollectIntelligence, Calls
<1>2. CallOf(e)[1] = "collect"
  <2>1. \E part : Calls(e, <<"collect", part>>)
    BY DEF CollectSnapshots, CollectIntelligence
  <2> QED
    BY <1>1, <2>1, Caller
<1>3. pipelines'[e].todo # <<>> => CallOf(e)'[1] = "collect"
  BY <1>1, <1>2, ReturnsMoves DEF MayCome, Follows, Tries, Builders
<1>4. ~Fenced(e)'
  BY <1>1, <1>2 DEF Sound, EndIsOwn, Doing, Fenced
<1> QED
  BY <1>3, <1>4, MovesSound DEF Tries, Builders

LEMMA BeginSnapshotSound ==
  ASSUME Typed, NEW e \in Executors, Sound(e), BeginSnapshot(e)
  PROVE  Sound(e)'
<1> DEFINE r == Rev(e)
<1>1. /\ Calls(e, <<"begin", "snapshot">>) /\ pipelines[e].todo # <<>>
      /\ CallOf(e) = <<"begin", "snapshot">>
  BY Caller DEF BeginSnapshot, Calls
<1>2. r \in Revisions /\ RepoTyped /\ SnapshotsTyped
  BY <1>1, Caller, TypeOKParts DEF Typed
<1>3. pipelines[e].published = {}
  BY <1>1 DEF Sound, BeginIsOwn, Doing
<1>4. PICK already \in BOOLEAN :
        /\ Begun(e, "snapshot", already)
        /\ repo'.current = repo.current
        /\ repo.current = r => already
        /\ repo.current # r => snapshots'[r] = Building(e[1])
  BY <1>2 DEF BeginSnapshot, RepoTyped, SnapshotsTyped
<1>5. /\ Moves(e)
      /\ pipelines'[e].todo # <<>> =>
           /\ Follows(<<"begin", "snapshot">>, CallOf(e)')
           /\ pipelines'[e].published = IF already THEN {"snapshot"} ELSE {}
  BY <1>1, <1>3, <1>4, BegunMoves
<1>6. pipelines'[e].todo # <<>> => CallOf(e)' = <<"begin", "embedding">> /\ Rev(e)' = r
  BY <1>5 DEF Follows, Builders, Moves, Rev
<1>7. CASE pipelines'[e].todo = <<>>
  BY <1>7, MovesSound
<1>8. CASE pipelines'[e].todo # <<>>
  <2>1. BuildIsOwn(e)' /\ EndIsOwn(e)'
    BY <1>6, <1>8 DEF BuildIsOwn, EndIsOwn, Doing, Tries, Builders
  <2>2. IF repo'.current = r
        THEN pipelines'[e].published = {"snapshot"}
        ELSE pipelines'[e].published \cap Kinds = {} /\ snapshots'[r] = Building(e[1])
    BY <1>4, <1>5, <1>8 DEF Kinds
  <2>3. Before("embedding") = {}
    BY DEF Before
  <2>4. BeginIsOwn(e)'
    BY <1>6, <1>8, <2>2, <2>3 DEF BeginIsOwn, BuildsSnapshot, Building
  <2> QED
    BY <2>1, <2>4 DEF Sound
<1> QED
  BY <1>7, <1>8

\* The begin of a version that is published already, or of one that is going to be built.
LEMMA BeginVersionSound ==
  ASSUME Typed, DataInv, NEW e \in Executors, Sound(e), NEW kind \in Kinds,
         BeginVersion(e, kind)
  PROVE  Sound(e)'
<1> DEFINE r == Rev(e)
           next == CallOf(e)'
<1>1. /\ Calls(e, <<"begin", kind>>) /\ pipelines[e].todo # <<>>
      /\ CallOf(e) = <<"begin", kind>> /\ Holds(e)
  BY Caller DEF BeginVersion, Calls
<1>2. r \in Revisions /\ r # None /\ VersionsTyped
      /\ Kinds = {"embedding", "graph", "intelligence"}
  BY <1>1, Caller, TypeOKParts DEF Typed, Kinds
<1>3. IF repo.current = r
      THEN pipelines[e].published = {"snapshot"} \cup Before(kind)
      ELSE /\ pipelines[e].published \cap Kinds = {}
           /\ BuildsSnapshot(e)
           /\ \A k \in Before(kind) : BuildsVersion(e, k)
  BY <1>1, <1>2 DEF Sound, BeginIsOwn, Doing
<1>4. jobs' = jobs /\ repo' = repo /\ snapshots' = snapshots
  BY DEF BeginVersion
<1>5. PICK already \in BOOLEAN :
        /\ Begun(e, kind, already)
        /\ already => Published(kind, r) /\ versions' = versions
        /\ ~already => \E kept : /\ ~Published(kind, r)
                                 /\ SetVersion(kind, r, [status |-> "building", job |-> e[1],
                                                         content |-> kept])
  BY DEF BeginVersion
<1>6. already <=> repo.current = r
  BY <1>2, <1>5, CurrentPublished DEF DataInv, CurrentIsComplete, Published
<1>7. /\ Moves(e)
      /\ pipelines'[e].todo # <<>> =>
           LET published == pipelines[e].published \cup (IF already THEN {kind} ELSE {})
           IN  IF kind = "intelligence"
               THEN \/ published = Kinds \cup {"snapshot"} /\ next[1] = "republish"
                    \/ published # Kinds \cup {"snapshot"} /\ next[1] \in Builders
               ELSE /\ Follows(<<"begin", kind>>, next)
                    /\ pipelines'[e].published = published
  BY <1>1, <1>5, BegunMoves
<1>8. pipelines'[e].todo # <<>> => Rev(e)' = r
  BY <1>7 DEF Moves, Rev
<1>9. /\ Before("embedding") = {}
      /\ Before("graph") = {"embedding"}
      /\ Before("intelligence") = {"embedding", "graph"}
  BY DEF Before
<1>10. ASSUME repo.current # r, pipelines'[e].todo # <<>>
       PROVE  /\ BuildsSnapshot(e)'
              /\ \A k \in (Before(kind) \cup {kind}) : BuildsVersion(e, k)'
  <2>1. PICK kept : SetVersion(kind, r, [status |-> "building", job |-> e[1],
                                         content |-> kept])
    BY <1>5, <1>6, <1>10
  <2>2. /\ versions'[kind][r].status = "building" /\ versions'[kind][r].job = e[1]
        /\ \A k \in Kinds : k # kind => versions'[k][r] = versions[k][r]
    BY <1>2, <2>1, SetVersionFacts
  <2>3. BuildsSnapshot(e)'
    BY <1>3, <1>4, <1>8, <1>10 DEF BuildsSnapshot, Building
  <2>4. \A k \in Before(kind) : k \in Kinds /\ k # kind
    BY <1>2, <1>9
  <2> QED
    BY <1>3, <1>8, <1>10, <2>2, <2>3, <2>4 DEF BuildsVersion
<1>11. CASE pipelines'[e].todo = <<>>
  BY <1>11, MovesSound
<1>12. CASE pipelines'[e].todo # <<>> /\ kind # "intelligence"
  <2>1. PICK later \in {"graph", "intelligence"} :
          next = <<"begin", later>> /\ Before(later) = Before(kind) \cup {kind}
    BY <1>2, <1>7, <1>9, <1>12 DEF Follows, Builders
  <2>2. BuildIsOwn(e)' /\ EndIsOwn(e)'
    BY <2>1 DEF BuildIsOwn, EndIsOwn, Doing, Tries, Builders
  <2>3. IF repo.current = r
        THEN pipelines'[e].published = {"snapshot"} \cup Before(later)
        ELSE pipelines'[e].published \cap Kinds = {}
    BY <1>3, <1>6, <1>7, <1>12, <2>1
  <2>4. repo.current # r =>
          BuildsSnapshot(e)' /\ \A k \in Before(later) : BuildsVersion(e, k)'
    BY <1>10, <1>12, <2>1
  <2>5. next[1] = "begin" /\ next[2] = later /\ later # "snapshot"
    BY <2>1
  <2> HIDE DEF next, r
  <2>6. BeginIsOwn(e)'
    BY <1>4, <1>8, <1>12, <2>3, <2>4, <2>5 DEF BeginIsOwn, next
  <2> QED
    BY <2>2, <2>6 DEF Sound
<1>13. CASE pipelines'[e].todo # <<>> /\ kind = "intelligence"
  <2>1. CASE repo.current = r
    <3>1. pipelines[e].published \cup {kind} = Kinds \cup {"snapshot"}
      BY <1>2, <1>3, <1>9, <1>13, <2>1
    <3>2. next[1] = "republish"
      BY <1>6, <1>7, <1>13, <2>1, <3>1
    <3>3. BuildIsOwn(e)' /\ BeginIsOwn(e)'
      BY <3>2 DEF BuildIsOwn, BeginIsOwn, Doing, Tries, Builders
    <3>4. EndIsOwn(e)'
      BY <1>4, <1>8, <1>13, <2>1, <3>2 DEF EndIsOwn, Doing
    <3> QED
      BY <3>3, <3>4 DEF Sound
  <2>2. CASE repo.current # r
    <3>1. pipelines[e].published # Kinds \cup {"snapshot"}
      BY <1>2, <1>3, <2>2
    <3>2. next[1] \in Builders
      BY <1>6, <1>7, <1>13, <2>2, <3>1
    <3>3. /\ BuildsSnapshot(e)'
          /\ \A k \in {"embedding", "graph"} : BuildsVersion(e, k)'
      BY <1>9, <1>10, <1>13, <2>2
    <3> QED
      BY <3>2, <3>3, MovesSound DEF Builders
  <2> QED
    BY <2>1, <2>2
<1> QED
  BY <1>11, <1>12, <1>13

\* What an executor does itself keeps what it says of itself.
LEMMA OwnStepSound ==
  ASSUME Typed, DataInv, NEW e \in Executors, Sound(e), PipelineStep(e)
  PROVE  Sound(e)'
<1>1. CASE PipelineDies(e)
  <2>1. pipelines'[e].todo = <<>>
    BY <1>1 DEF PipelineDies, Ended, Typed, TypeOK
  <2> QED
    BY <2>1, MovesSound
<1> QED
  BY <1>1, CallFailsSound, BeginSnapshotSound, BeginVersionSound, BuildSound, PublishSound,
     DiscardSound, CollectSound
     DEF PipelineStep

LEMMA ExecutorsSoundInit == Init => ExecutorsAreSound
<1> SUFFICES ASSUME Init, NEW e \in Executors PROVE Sound(e)
  BY DEF ExecutorsAreSound
<1>1. pipelines[e].todo = <<>>
  BY DEF Init, Ended
<1> QED
  BY <1>1 DEF Sound, BuildIsOwn, BeginIsOwn, EndIsOwn, Doing

\* A step of the queue gives nobody a claim but to the executor it starts.
LEMMA QueueSound ==
  ASSUME Typed, QueueInv, ExecutorsAreSound, QueueStep
  PROVE  ExecutorsAreSound'
<1> SUFFICES ASSUME NEW f \in Executors PROVE Sound(f)'
  BY DEF ExecutorsAreSound
<1>1. PICK j \in Jobs : \/ RequestJob(j) \/ StartJob(j) \/ LeaseLapses(j)
                        \/ FailJob(j) \/ RetryJob(j) \/ RecoverJob(j)
  BY DEF QueueStep
<1>2. /\ JobsTyped /\ f[1] \in Jobs /\ f[2] \in 1..MaxAttempts
      /\ \A i \in Jobs : jobs[i] \in JobRow
  BY TypeOKParts DEF Typed, JobsTyped, Executors
<1>3. UNCHANGED <<repo, snapshots, artifacts, versions, publications>>
  BY <1>1 DEF RequestJob, StartJob, LeaseLapses, FailJob, RetryJob, RecoverJob, SetJob,
              DataUnchanged
<1>4. ASSUME pipelines'[f] = pipelines[f], Fenced(f)' => Fenced(f), Holds(f)' => Holds(f)
      PROVE  Sound(f)'
  <2>1. LeavesAlone(f)
    BY <1>3, <1>4 DEF LeavesAlone
  <2> QED
    BY <2>1, LeftAloneSound DEF ExecutorsAreSound
<1>5. ASSUME NEW row, SetJob(j, row), pipelines' = pipelines,
             row.status \in {"running", "failed"} =>
               row.attempt = jobs[j].attempt /\ jobs[j].status \in {"running", "failed"},
             row.status = "running" /\ row.lease = "live" => Live(j)
      PROVE  Sound(f)'
  <2>1. jobs'[j] = row /\ \A i \in Jobs \ {j} : jobs'[i] = jobs[i]
    BY <1>2, <1>5 DEF SetJob, JobsTyped
  <2>2. (Fenced(f)' => Fenced(f)) /\ (Holds(f)' => Holds(f))
    BY <1>2, <1>5, <2>1 DEF Fenced, Holds, Live
  <2> QED
    BY <1>4, <1>5, <2>2
<1>6. CASE RequestJob(j)
  BY <1>5, <1>6 DEF RequestJob, QueuedAt
<1>7. CASE LeaseLapses(j)
  <2> DEFINE row == [jobs[j] EXCEPT !.lease = "lapsed"]
  <2>1. row.status = jobs[j].status /\ row.attempt = jobs[j].attempt /\ row.lease = "lapsed"
    BY <1>2 DEF JobRow
  <2>2. SetJob(j, row) /\ pipelines' = pipelines /\ jobs[j].status = "running"
    BY <1>7 DEF LeaseLapses, Live
  <2> HIDE DEF row
  <2> QED
    BY <1>5, <2>1, <2>2
<1>8. CASE FailJob(j)
  BY <1>5, <1>8 DEF FailJob, FailedAt, Live
<1>9. CASE RetryJob(j)
  BY <1>5, <1>9 DEF RetryJob, QueuedAt
<1>10. CASE RecoverJob(j)
  BY <1>5, <1>10 DEF RecoverJob, QueuedAt, FailedAt
<1>11. CASE StartJob(j)
  <2> DEFINE e == <<j, jobs[j].attempt>>
             row == [jobs[j] EXCEPT !.status = "running", !.lease = "live"]
  <2>1. jobs[j].status = "queued" /\ SetJob(j, row)
    BY <1>11 DEF StartJob
  <2>2. row.attempt = jobs[j].attempt
    BY <1>2 DEF JobRow
  <2>3. jobs'[j] = row /\ \A i \in Jobs \ {j} : jobs'[i] = jobs[i]
    BY <1>2, <2>1 DEF SetJob, JobsTyped
  <2>4. PICK r \in Revisions :
          pipelines' = [pipelines EXCEPT ![e] = [rev |-> r, todo |-> Begins, published |-> {}]]
    BY <1>11 DEF StartJob
  <2> HIDE DEF row
  <2>5. CASE f = e
    <3>1. pipelines'[f] = [rev |-> r, todo |-> Begins, published |-> {}]
      BY <2>4, <2>5 DEF Typed, TypeOK
    <3>2. /\ pipelines'[f].todo # <<>> /\ CallOf(f)' = <<"begin", "snapshot">>
          /\ pipelines'[f].published = {}
      BY <3>1 DEF CallOf, Begins
    <3> QED
      BY <3>2 DEF Sound, BuildIsOwn, BeginIsOwn, EndIsOwn, Doing, Tries, Builders
  <2>6. CASE f # e
    <3>1. pipelines'[f] = pipelines[f]
      BY <2>4, <2>6 DEF Typed, TypeOK
    <3>2. f[1] = j => f[2] # jobs[j].attempt
      BY <2>6 DEF Executors
    <3>3. (Fenced(f)' => Fenced(f)) /\ (Holds(f)' => Holds(f))
      BY <1>2, <2>2, <2>3, <3>2 DEF Fenced, Holds, Live
    <3> QED
      BY <1>4, <3>1, <3>3
  <2> QED
    BY <2>5, <2>6
<1> QED
  BY <1>1, <1>6, <1>7, <1>8, <1>9, <1>10, <1>11

\* The recovery of versions leaves those whose job is alive.
LEMMA StartUpSound ==
  ASSUME Typed, ExecutorsAreSound, StartUpStep
  PROVE  ExecutorsAreSound'
<1> SUFFICES ASSUME NEW f \in Executors PROVE Sound(f)'
  BY DEF ExecutorsAreSound
<1>1. CASE pipelines[f].todo = <<>>
  <2>1. pipelines'[f] = pipelines[f]
    BY DEF StartUpStep, RecoverVersions, FindAbandoned, MarkAbandonedFailed
  <2> QED
    BY <1>1, <2>1, MovesSound
<1>2. CASE pipelines[f].todo # <<>>
  <2>1. /\ UNCHANGED <<jobs, snapshots, pipelines>>
        /\ repo'.current = repo.current
    BY DEF StartUpStep, RecoverVersions, FindAbandoned, MarkAbandonedFailed, DataUnchanged,
           Typed, TypeOK
  <2>2. (Fenced(f)' <=> Fenced(f)) /\ (Holds(f)' <=> Holds(f))
    BY <2>1 DEF Fenced, Holds, Live
  <2>3. ASSUME NEW k \in {"embedding", "graph"}, Holds(f), BuildsVersion(f, k)
        PROVE  versions'[k][Rev(f)] = versions[k][Rev(f)]
    <3>1. Rev(f) \in Revisions /\ k \in Kinds /\ VersionsTyped
      BY <1>2, Caller, TypeOKParts DEF Kinds, Typed
    <3>2. CASE versions' = versions
      BY <3>2
    <3>3. ASSUME NEW i \in Kinds, RecoverVersions(i)
          PROVE  versions'[k][Rev(f)] = versions[k][Rev(f)]
      <4>1. Live(versions[k][Rev(f)].job)
        BY <2>3 DEF BuildsVersion, Holds
      <4>2. CASE i # k
        BY <3>1, <3>3, <4>2 DEF RecoverVersions, VersionsTyped
      <4>3. CASE i = k
        BY <3>1, <3>3, <4>1, <4>3 DEF RecoverVersions, VersionsTyped
      <4> QED
        BY <4>2, <4>3
    <3> QED
      BY <3>2, <3>3 DEF StartUpStep, FindAbandoned, MarkAbandonedFailed, DataUnchanged
  <2>4. LeavesAlone(f)
    BY <2>1, <2>2, <2>3 DEF LeavesAlone
  <2> QED
    BY <2>4, LeftAloneSound DEF ExecutorsAreSound
<1> QED
  BY <1>1, <1>2

LEMMA ExecutorsSoundStep ==
  ASSUME Typed, QueueInv, DataInv, ExecutorsAreSound, [Next]_vars
  PROVE  ExecutorsAreSound'
<1>1. CASE UNCHANGED vars
  BY <1>1 DEF vars, ExecutorsAreSound, Sound, BuildIsOwn, BeginIsOwn, EndIsOwn, Doing, CallOf,
              Fenced, Holds, Live, BuildsSnapshot, BuildsVersion, Building, Rev
<1>2. ASSUME NEW e \in Executors, PipelineStep(e)
      PROVE  ExecutorsAreSound'
  <2> SUFFICES ASSUME NEW f \in Executors PROVE Sound(f)'
    BY DEF ExecutorsAreSound
  <2>1. CASE f = e
    BY <1>2, <2>1, OwnStepSound DEF ExecutorsAreSound
  <2>2. CASE f # e /\ Rev(f) \in Revisions
    BY <1>2, <2>2, OthersLeftAlone, LeftAloneSound DEF ExecutorsAreSound
  <2>3. CASE f # e /\ Rev(f) \notin Revisions
    <3>1. pipelines[f].todo = <<>>
      BY <2>3 DEF Typed, CallersHaveRevisions
    <3>2. pipelines'[f] = pipelines[f]
      <4>1. CASE PipelineDies(e)
        BY <2>3, <4>1 DEF PipelineDies, Typed, TypeOK
      <4> QED
        BY <1>2, <2>3, <4>1, StepMoves DEF Moves
    <3> QED
      BY <3>1, <3>2, MovesSound
  <2> QED
    BY <2>1, <2>2, <2>3
<1> QED
  BY <1>1, <1>2, QueueSound, StartUpSound DEF Next


\* The snapshot of the current revision is not touched by an executor without a lease.
LEMMA CurrentSnapshotLeft ==
  ASSUME Typed, DataInv, NEW e \in Executors, PipelineStep(e), ~Holds(e), repo.current # None
  PROVE  snapshots'[repo.current] = snapshots[repo.current]
<1> DEFINE s == repo.current
<1>1. SnapshotsTyped /\ Rev(e) \in Revisions /\ s \in Revisions
  BY TypeOKParts, StepMoves, Caller DEF Typed, RepoTyped
<1>2. snapshots[s].status = "published" /\ snapshots[s] # Building(e[1])
  BY DEF DataInv, CurrentIsComplete, Building
<1>3. CASE DiscardSnapshot(e)
  <2>1. \/ snapshots' = snapshots
        \/ \E row : snapshots' = [snapshots EXCEPT ![Rev(e)] =
             IF @ = Building(e[1]) THEN row ELSE @]
    BY <1>3 DEF DiscardSnapshot
  <2> QED
    BY <1>1, <1>2, <2>1 DEF SnapshotsTyped
<1>4. CASE CollectSnapshots(e)
  <2>1. PICK gone \in SUBSET Revisions :
          /\ s \notin gone
          /\ snapshots' = [r \in Revisions |-> IF r \in gone THEN NoSnapshot ELSE snapshots[r]]
    BY <1>4 DEF CollectSnapshots
  <2> QED
    BY <1>1, <2>1
<1> QED
  BY <1>3, <1>4
     DEF PipelineStep, CallFails, PipelineDies, DataUnchanged, BeginSnapshot, BeginVersion,
         StoreChunk, StageArtifacts, StageVersion, StagesOnly, MayBuild, Validate, Publish,
         DiscardEmbedding, FailIntelligence, DiscardGraph, DiscardsOnly, CollectIntelligence

\* What recovery leaves of a version of a job that is alive, or that is not unfinished.
LEMMA VersionsRecovered ==
  ASSUME VersionsTyped, NEW k \in Kinds, NEW r \in Revisions, StartUpStep,
         Live(versions[k][r].job) \/ ~Unfinished(versions[k][r])
  PROVE  versions'[k][r] = versions[k][r]
<1>1. ASSUME NEW i \in Kinds, RecoverVersions(i)
      PROVE  versions'[k][r] = versions[k][r]
  <2>1. CASE i # k
    BY <1>1, <2>1 DEF RecoverVersions, VersionsTyped
  <2>2. CASE i = k
    BY <1>1, <2>2 DEF RecoverVersions, VersionsTyped
  <2> QED
    BY <2>1, <2>2
<1> QED
  BY <1>1 DEF StartUpStep, FindAbandoned, MarkAbandonedFailed, DataUnchanged

Keeps(e) ==
  LET r == Rev(e) IN
  /\ snapshots'[r] = snapshots[r]
  /\ r \in artifacts => r \in artifacts'
  /\ \A k \in {"embedding", "graph"} :
       /\ versions'[k][r].status = versions[k][r].status
       /\ versions[k][r].content \subseteq versions'[k][r].content

LEMMA KeepsStep ==
  ASSUME Typed, QueueInv, DataInv, ExecutorsAreSound, [Next]_vars,
         NEW e \in Executors, pipelines[e].todo # <<>>,
         pipelines[e].todo[1][1] \notin {"begin", "discard"},
         Holds(e), Holds(e)', pipelines'[e] = pipelines[e]
  PROVE  Keeps(e)
<1> DEFINE r == Rev(e)
<1>1. /\ r \in Revisions /\ r # None /\ VersionsTyped
      /\ "embedding" \in Kinds /\ "graph" \in Kinds
  BY Caller, TypeOKParts DEF Typed, Kinds
<1>2. \/ BuildsSnapshot(e) /\ \A k \in {"embedding", "graph"} : BuildsVersion(e, k)
      \/ r = repo.current
  <2>1. CallOf(e) \in Call
    BY RestNext DEF Typed, TypeOK, Pipeline, CallOf
  <2>2. CallOf(e)[1] \in Tries \cup {"republish", "collect"}
    BY <2>1 DEF Call, Tries, Builders, CallOf
  <2>3. Fenced(e)
    BY HolderIsFenced
  <2>4. Sound(e)
    BY DEF ExecutorsAreSound
  <2> QED
    BY <2>2, <2>3, <2>4 DEF Sound, BuildIsOwn, EndIsOwn, Doing
<1>3. CASE UNCHANGED <<snapshots, artifacts, versions>>
  BY <1>3 DEF Keeps
<1>4. CASE QueueStep
  BY <1>3, <1>4
     DEF QueueStep, RequestJob, StartJob, LeaseLapses, FailJob, RetryJob, RecoverJob, SetJob,
         DataUnchanged
<1>5. CASE StartUpStep
  <2>1. UNCHANGED <<snapshots, artifacts>>
    BY <1>5 DEF StartUpStep, RecoverVersions, FindAbandoned, MarkAbandonedFailed, DataUnchanged
  <2>2. ASSUME NEW k \in {"embedding", "graph"}
        PROVE  Live(versions[k][r].job) \/ ~Unfinished(versions[k][r])
    <3>1. CASE BuildsVersion(e, k)
      BY <3>1 DEF BuildsVersion, Holds
    <3>2. CASE r = repo.current
      BY <1>1, <3>2, CurrentPublished DEF Unfinished
    <3> QED
      BY <1>2, <3>1, <3>2
  <2>3. \A k \in {"embedding", "graph"} : versions'[k][r] = versions[k][r]
    BY <1>1, <1>5, <2>2, VersionsRecovered
  <2> QED
    BY <2>1, <2>3 DEF Keeps
<1>6. ASSUME NEW g \in Executors, PipelineStep(g)
      PROVE  Keeps(e)
  <2>1. g # e
    <3>1. SUFFICES ASSUME g = e PROVE FALSE
      OBVIOUS
    <3>2. CASE PipelineDies(e)
      BY <3>2 DEF PipelineDies, Ended, Typed, TypeOK
    <3> QED
      BY <1>6, <3>1, <3>2, StepMoves DEF Moves
  <2>2. ~Holds(g)
    BY <2>1, OneHolder DEF QueueInv
  <2>3. snapshots'[r] = snapshots[r]
    BY <1>1, <1>2, <1>6, <2>1, <2>2, HolderIsFenced, SnapshotLeft, CurrentSnapshotLeft
  <2>4. /\ r \in artifacts => r \in artifacts'
        /\ \A k \in {"embedding", "graph"} :
             /\ versions'[k][r].status = versions[k][r].status
             /\ versions[k][r].content \subseteq versions'[k][r].content
    BY <1>1, <1>2, <1>6, <2>1, VersionsLeft
  <2> QED
    BY <2>3, <2>4 DEF Keeps
<1> QED
  BY <1>3, <1>4, <1>5, <1>6 DEF Next, vars

\* While an executor holds its lease, no failed or lost attempt, other job, collection or
\* recovery takes from it what it has staged.
THEOREM LiveBuildKept == Spec => LiveBuildIsKept
<1> DEFINE Inv == Typed /\ QueueInv /\ DataInv /\ ExecutorsAreSound
<1>1. Init => Inv
  BY InitTyped, QueueInvInit, DataInvInit, ExecutorsSoundInit
<1>2. Inv /\ [Next]_vars => Inv'
  BY TypedStep, QueueInvStep, DataInvStep, ExecutorsSoundStep
<1>3. Inv /\ [Next]_vars =>
        [\A e \in Executors :
           LET r == Rev(e)
               building == pipelines[e].todo # <<>>
                             /\ pipelines[e].todo[1][1] \notin {"begin", "discard"}
           IN building /\ Holds(e) /\ Holds(e)' /\ pipelines'[e] = pipelines[e] =>
                /\ snapshots'[r] = snapshots[r]
                /\ r \in artifacts => r \in artifacts'
                /\ \A k \in {"embedding", "graph"} :
                     /\ versions'[k][r].status = versions[k][r].status
                     /\ versions[k][r].content \subseteq versions'[k][r].content]_vars
  BY KeepsStep DEF Keeps
<1> QED
  BY <1>1, <1>2, <1>3, PTL DEF Spec, LiveBuildIsKept

-----------------------------------------------------------------------------
(* The previous revision stays restorable.                                  *)

\* The job has not begun a snapshot.
Unbegun(j) ==
  \/ jobs[j].status = "absent"
  \/ /\ jobs[j].attempt = 1
     /\ jobs[j].status = "queued" \/ pipelines[<<j, 1>>].todo = Begins

FreshJobs == \A j \in Jobs : Unbegun(j) => \A s \in Revisions : snapshots[s] # Building(j)

PreviousInv ==
  repo.previous # None =>
    /\ repo.previous # repo.current
    /\ repo.previous \in artifacts
    /\ LET row == snapshots[repo.previous] IN
         \/ row.status \in {"superseded", "building"}
         \/ row.status = "failed" /\ row.job \in Jobs /\ jobs[row.job].attempt > 1

\* Only a begin makes a snapshot a job's.
LEMMA BuilderBegins ==
  ASSUME Typed, NEW e \in Executors, PipelineStep(e), NEW j \in Jobs, NEW s \in Revisions,
         snapshots'[s] = Building(j), snapshots[s] # Building(j)
  PROVE  BeginSnapshot(e) /\ e[1] = j
<1>1. SnapshotsTyped /\ snapshots[s] \in SnapshotRow /\ Rev(e) \in Revisions
  BY TypeOKParts, StepMoves, Caller DEF Typed, SnapshotsTyped
<1>2. snapshots'[s].status = "building" /\ snapshots'[s].job = j /\ j # None
  BY NoneAssumption DEF Building
<1>3. CASE Publish(e)
  <2>1. CASE MoveTo(Rev(e))
    <3>1. [snapshots[s] EXCEPT !.status = "published"].status = "published"
          /\ [snapshots[s] EXCEPT !.status = "superseded"].status = "superseded"
      BY <1>1 DEF SnapshotRow
    <3> QED
      BY <1>2, <2>1, <3>1 DEF MoveTo
  <2> QED
    BY <1>3, <2>1 DEF Publish
<1>4. CASE DiscardSnapshot(e)
  <2>1. \/ snapshots' = snapshots
        \/ \E status \in {"failed", "superseded"} : snapshots' = [snapshots EXCEPT ![Rev(e)] =
             IF @ = Building(e[1]) THEN [status |-> status, job |-> e[1]] ELSE @]
    BY <1>4 DEF DiscardSnapshot
  <2> QED
    BY <1>1, <1>2, <2>1 DEF SnapshotsTyped
<1>5. CASE CollectSnapshots(e)
  <2>1. snapshots'[s] \in {NoSnapshot, snapshots[s]}
    BY <1>5 DEF CollectSnapshots
  <2> QED
    BY <1>2, <2>1 DEF NoSnapshot
<1>6. CASE BeginSnapshot(e)
  <2>1. snapshots'[s] \in {Building(e[1]), [status |-> "failed", job |-> e[1]], snapshots[s]}
    BY <1>1, <1>6 DEF BeginSnapshot, SnapshotsTyped
  <2>2. e[1] = j
    BY <1>2, <2>1 DEF Building
  <2> QED
    BY <1>6, <2>2
<1> QED
  BY <1>3, <1>4, <1>5, <1>6
     DEF PipelineStep, CallFails, PipelineDies, DataUnchanged, BeginVersion,
         StoreChunk, StageArtifacts, StageVersion, StagesOnly, Validate,
         DiscardEmbedding, FailIntelligence, DiscardGraph, DiscardsOnly, CollectIntelligence

\* A job that has begun a snapshot has begun it for good.
LEMMA UnbegunBefore ==
  ASSUME Typed, QueueInv, [Next]_vars, NEW j \in Jobs, Unbegun(j)'
  PROVE  Unbegun(j)
<1>1. JobsTyped /\ (\A i \in Jobs : jobs[i] \in JobRow) /\ <<j, 1>> \in Executors
  <2>1. 1 \in 1..MaxAttempts
    BY AttemptAssumption
  <2> QED
    BY <2>1, TypeOKParts DEF Typed, JobsTyped, Executors
<1>2. CASE jobs' = jobs /\ (pipelines'[<<j, 1>>].todo = Begins => pipelines[<<j, 1>>].todo = Begins)
  BY <1>2 DEF Unbegun
<1>3. ASSUME NEW e \in Executors, PipelineStep(e)
      PROVE  pipelines'[<<j, 1>>].todo = Begins => pipelines[<<j, 1>>].todo = Begins
  <2>1. CASE PipelineDies(e)
    BY <1>1, <2>1 DEF PipelineDies, Typed, TypeOK, Ended, Begins
  <2> QED
    BY <1>1, <1>3, <2>1, StepMoves DEF Moves
<1>4. ASSUME NEW e \in Executors, PipelineStep(e)
      PROVE  Unbegun(j)
  <2>1. CASE jobs' = jobs
    BY <1>2, <1>3, <1>4, <2>1
  <2>2. CASE Succeed(e[1]) /\ e[1] \in Jobs /\ Holds(e)
    <3>1. /\ jobs'[e[1]] = [jobs[e[1]] EXCEPT !.status = "succeeded", !.lease = "none"]
          /\ \A i \in Jobs \ {e[1]} : jobs'[i] = jobs[i]
      BY <1>1, <2>2, SucceedTyped
    <3>2. jobs'[e[1]].status = "succeeded" /\ jobs'[e[1]].attempt = jobs[e[1]].attempt
      BY <1>1, <2>2, <3>1 DEF JobRow
    <3> QED
      BY <1>3, <1>4, <3>1, <3>2 DEF Unbegun
  <2>3. jobs' = jobs \/ (Publish(e) /\ Succeed(e[1]) /\ Holds(e) /\ e[1] \in Jobs)
    BY <1>4
       DEF PipelineStep, CallFails, PipelineDies, BeginSnapshot, BeginVersion, StoreChunk,
           StageArtifacts, StageVersion, StagesOnly, Validate, Publish, DiscardEmbedding,
           FailIntelligence, DiscardGraph, DiscardSnapshot, DiscardsOnly, CollectSnapshots,
           CollectIntelligence, Executors
  <2> QED
    BY <2>1, <2>2, <2>3
<1>5. CASE QueueStep
  <2>1. PICK i \in Jobs : \/ RequestJob(i) \/ StartJob(i) \/ LeaseLapses(i)
                          \/ FailJob(i) \/ RetryJob(i) \/ RecoverJob(i)
    BY <1>5 DEF QueueStep
  <2>2. PICK row : jobs' = [jobs EXCEPT ![i] = row]
    BY <2>1 DEF RequestJob, StartJob, LeaseLapses, FailJob, RetryJob, RecoverJob, SetJob
  <2>3. \A k \in Jobs \ {i} : jobs'[k] = jobs[k]
    BY <1>1, <2>2 DEF JobsTyped
  <2>4. CASE i # j
    <3>1. pipelines' = pipelines
            \/ \E p : pipelines' = [pipelines EXCEPT ![<<i, jobs[i].attempt>>] = p]
      BY <2>1 DEF RequestJob, StartJob, LeaseLapses, FailJob, RetryJob, RecoverJob
    <3>2. <<j, 1>> # <<i, jobs[i].attempt>>
      BY <2>4
    <3>3. pipelines'[<<j, 1>>] = pipelines[<<j, 1>>]
      BY <1>1, <3>1, <3>2 DEF Typed, TypeOK
    <3> QED
      BY <2>3, <2>4, <3>3 DEF Unbegun
  <2>5. CASE i = j
    <3>1. CASE RequestJob(j)
      BY <3>1 DEF RequestJob, Unbegun
    <3>2. CASE StartJob(j)
      <4> DEFINE new == [jobs[j] EXCEPT !.status = "running", !.lease = "live"]
      <4>1. jobs[j].status = "queued" /\ SetJob(j, new)
        BY <3>2 DEF StartJob
      <4>2. jobs'[j] = new
        BY <1>1, <4>1 DEF SetJob, JobsTyped
      <4>3. new.attempt = jobs[j].attempt /\ new.status = "running"
        BY <1>1 DEF JobRow
      <4> HIDE DEF new
      <4> QED
        BY <4>1, <4>2, <4>3 DEF Unbegun
    <3>3. CASE LeaseLapses(j)
      <4> DEFINE new == [jobs[j] EXCEPT !.lease = "lapsed"]
      <4>1. SetJob(j, new) /\ pipelines' = pipelines
        BY <3>3 DEF LeaseLapses
      <4>2. jobs'[j] = new
        BY <1>1, <4>1 DEF SetJob, JobsTyped
      <4>3. new.attempt = jobs[j].attempt /\ new.status = jobs[j].status
        BY <1>1 DEF JobRow
      <4> HIDE DEF new
      <4> QED
        BY <4>1, <4>2, <4>3 DEF Unbegun
    <3>4. CASE FailJob(j)
      <4>1. jobs'[j] = FailedAt(jobs[j].attempt) /\ pipelines' = pipelines
        BY <1>1, <3>4 DEF FailJob, SetJob, JobsTyped
      <4> QED
        BY <4>1 DEF Unbegun, FailedAt
    <3>5. CASE RetryJob(j) \/ RecoverJob(j)
      <4>1. jobs[j].status \in {"failed", "running"} /\ jobs[j].attempt \in Nat
            /\ jobs[j].attempt >= 1
        BY <1>1, <3>5 DEF RetryJob, RecoverJob, QueueInv, AttemptsBegin, JobRow
      <4>2. /\ pipelines' = pipelines
            /\ \/ jobs'[j] = QueuedAt(jobs[j].attempt + 1)
               \/ jobs'[j] = FailedAt(jobs[j].attempt)
        BY <1>1, <3>5 DEF RetryJob, RecoverJob, SetJob, JobsTyped
      <4>3. jobs[j].attempt + 1 # 1
        BY <4>1
      <4> QED
        BY <4>2, <4>3 DEF Unbegun, QueuedAt, FailedAt
    <3> QED
      BY <2>1, <2>5, <3>1, <3>2, <3>3, <3>4, <3>5
  <2> QED
    BY <2>4, <2>5
<1>6. CASE StartUpStep
  BY <1>2, <1>6 DEF StartUpStep, RecoverVersions, FindAbandoned, MarkAbandonedFailed
<1>7. CASE UNCHANGED vars
  BY <1>2, <1>7 DEF vars
<1> QED
  BY <1>4, <1>5, <1>6, <1>7 DEF Next

LEMMA FreshJobsStep ==
  ASSUME Typed, QueueInv, FreshJobs, [Next]_vars
  PROVE  FreshJobs'
<1> SUFFICES ASSUME NEW j \in Jobs, Unbegun(j)', NEW s \in Revisions, snapshots'[s] = Building(j)
             PROVE  FALSE
  BY DEF FreshJobs, Building
<1>1. Unbegun(j)
  BY UnbegunBefore
<1>2. snapshots[s] # Building(j)
  BY <1>1 DEF FreshJobs
<1>3. PICK e \in Executors : PipelineStep(e)
  BY <1>2 DEF Next, vars, QueueStep, RequestJob, StartJob, LeaseLapses, FailJob, RetryJob,
              RecoverJob, SetJob, DataUnchanged, StartUpStep, RecoverVersions, FindAbandoned,
              MarkAbandonedFailed
<1>4. BeginSnapshot(e) /\ e[1] = j
  BY <1>2, <1>3, BuilderBegins
<1>5. jobs' = jobs /\ jobs[j].status = "running" /\ jobs[j].attempt = e[2]
  BY <1>4 DEF BeginSnapshot, Holds, Live
<1>6. e[2] = 1 /\ pipelines'[<<j, 1>>].todo = Begins
  BY <1>5 DEF Unbegun
<1>7. e = <<j, 1>>
  BY <1>4, <1>6 DEF Executors
<1>8. pipelines'[e].todo # Begins
  <2>1. CASE PipelineDies(e)
    BY <2>1 DEF PipelineDies, Typed, TypeOK, Ended, Begins
  <2> QED
    BY <1>3, <2>1, StepMoves DEF Moves
<1> QED
  BY <1>6, <1>7, <1>8

\* What a first attempt fails of its own job when it begins a snapshot: nothing.
LEMMA FailsOnlyRetried ==
  ASSUME Typed, FreshJobs, NEW e \in Executors, BeginSnapshot(e), NEW s \in Revisions,
         snapshots[s] = Building(e[1])
  PROVE  e[1] \in Jobs /\ jobs[e[1]].attempt > 1
<1>1. /\ pipelines[e].todo # <<>> /\ CallOf(e) = <<"begin", "snapshot">>
      /\ e[1] \in Jobs /\ e[2] \in 1..MaxAttempts
  BY Caller DEF BeginSnapshot, Calls
<1>2. pipelines[e].todo = Begins
  BY <1>1, RestNext DEF CallOf, Typed, TypeOK, Pipeline
<1>3. jobs[e[1]].attempt = e[2]
  BY DEF BeginSnapshot, Holds
<1>4. e[2] # 1
  <2> SUFFICES ASSUME e[2] = 1 PROVE FALSE
    OBVIOUS
  <2>1. e = <<e[1], 1>>
    BY DEF Executors
  <2>2. Unbegun(e[1])
    BY <1>2, <1>3, <2>1 DEF Unbegun
  <2> QED
    BY <1>1, <2>2 DEF FreshJobs
<1> QED
  BY <1>1, <1>3, <1>4, AttemptAssumption

\* The attempts of a job that is there do not go back.
LEMMA AttemptsGrow ==
  ASSUME Typed, QueueInv, [Next]_vars, NEW j \in Jobs, jobs[j].attempt > 1
  PROVE  jobs'[j].attempt > 1
<1>1. JobsTyped /\ (\A i \in Jobs : jobs[i] \in JobRow)
  BY TypeOKParts DEF Typed, JobsTyped
<1>2. jobs[j].attempt \in Nat /\ jobs[j].status # "absent"
  BY <1>1 DEF QueueInv, AttemptsBegin, JobRow
<1>3. CASE jobs' = jobs
  BY <1>3
<1>4. ASSUME NEW e \in Executors, Succeed(e[1]), e[1] \in Jobs
      PROVE  jobs'[j].attempt > 1
  <2>1. /\ jobs'[e[1]] = [jobs[e[1]] EXCEPT !.status = "succeeded", !.lease = "none"]
        /\ \A i \in Jobs \ {e[1]} : jobs'[i] = jobs[i]
    BY <1>1, <1>4, SucceedTyped
  <2>2. jobs'[e[1]].attempt = jobs[e[1]].attempt
    BY <1>1, <1>4, <2>1 DEF JobRow
  <2> QED
    BY <2>1, <2>2
<1>5. ASSUME NEW i \in Jobs, NEW row, jobs' = [jobs EXCEPT ![i] = row],
             i = j => row.attempt > 1
      PROVE  jobs'[j].attempt > 1
  BY <1>1, <1>5 DEF JobsTyped
<1>6. ASSUME NEW i \in Jobs, \/ RequestJob(i) \/ StartJob(i) \/ LeaseLapses(i)
                             \/ FailJob(i) \/ RetryJob(i) \/ RecoverJob(i)
      PROVE  jobs'[j].attempt > 1
  <2>1. CASE RequestJob(i)
    BY <1>2, <1>5, <2>1 DEF RequestJob, SetJob
  <2>2. ASSUME NEW row, SetJob(i, row), row.attempt \in {jobs[i].attempt, jobs[i].attempt + 1}
        PROVE  jobs'[j].attempt > 1
    BY <1>2, <1>5, <2>2 DEF SetJob
  <2>3. CASE StartJob(i)
    <3> DEFINE row == [jobs[i] EXCEPT !.status = "running", !.lease = "live"]
    <3>1. row.attempt = jobs[i].attempt
      BY <1>1 DEF JobRow
    <3>2. SetJob(i, row)
      BY <2>3 DEF StartJob
    <3> HIDE DEF row
    <3> QED
      BY <2>2, <3>1, <3>2
  <2>4. CASE LeaseLapses(i)
    <3> DEFINE row == [jobs[i] EXCEPT !.lease = "lapsed"]
    <3>1. row.attempt = jobs[i].attempt
      BY <1>1 DEF JobRow
    <3>2. SetJob(i, row)
      BY <2>4 DEF LeaseLapses
    <3> HIDE DEF row
    <3> QED
      BY <2>2, <3>1, <3>2
  <2>5. CASE FailJob(i) \/ RetryJob(i) \/ RecoverJob(i)
    <3>1. \E row : SetJob(i, row) /\ row.attempt \in {jobs[i].attempt, jobs[i].attempt + 1}
      BY <2>5 DEF FailJob, RetryJob, RecoverJob, QueuedAt, FailedAt
    <3> QED
      BY <2>2, <3>1
  <2> QED
    BY <1>6, <2>1, <2>3, <2>4, <2>5
<1> QED
  BY <1>3, <1>4, <1>6, JobsStep

\* The previous revision is not moved, but for its snapshot.
LEMMA PreviousKept ==
  ASSUME Typed, QueueInv, PreviousInv, [Next]_vars,
         repo'.previous = repo.previous, repo'.current = repo.current,
         repo.previous # None =>
           /\ repo.previous \in artifacts'
           /\ LET row == snapshots'[repo.previous] IN
                \/ row = snapshots[repo.previous]
                \/ row.status \in {"superseded", "building"}
                \/ row.status = "failed" /\ row.job \in Jobs /\ jobs[row.job].attempt > 1
  PROVE  PreviousInv'
<1> SUFFICES ASSUME repo.previous # None PROVE PreviousInv'
  BY DEF PreviousInv
<1> DEFINE row == snapshots[repo.previous]
           new == snapshots'[repo.previous]
<1>1. \/ new.status \in {"superseded", "building"}
      \/ new.status = "failed" /\ new.job \in Jobs /\ jobs[new.job].attempt > 1
  BY DEF PreviousInv
<1>2. \/ new.status \in {"superseded", "building"}
      \/ new.status = "failed" /\ new.job \in Jobs /\ jobs'[new.job].attempt > 1
  BY <1>1, AttemptsGrow
<1> QED
  BY <1>2 DEF PreviousInv

LEMMA PreviousStep ==
  ASSUME Typed, QueueInv, DataInv, FreshJobs, PreviousInv, [Next]_vars
  PROVE  PreviousInv'
<1> DEFINE p == repo.previous
<1>1. RepoTyped /\ SnapshotsTyped /\ p \in Revisions \cup {None}
  BY TypeOKParts DEF Typed, RepoTyped
<1>2. p # None => p \in artifacts /\ p \in Revisions
  BY <1>1 DEF PreviousInv
<1>3. CASE UNCHANGED <<repo, snapshots, artifacts>>
  BY <1>2, <1>3, PreviousKept
<1>4. CASE QueueStep
  BY <1>3, <1>4
     DEF QueueStep, RequestJob, StartJob, LeaseLapses, FailJob, RetryJob, RecoverJob, SetJob,
         DataUnchanged
<1>5. CASE StartUpStep
  <2>1. /\ UNCHANGED <<snapshots, artifacts>>
        /\ repo'.previous = repo.previous /\ repo'.current = repo.current
    BY <1>1, <1>5 DEF StartUpStep, RecoverVersions, FindAbandoned, MarkAbandonedFailed,
                      DataUnchanged, RepoTyped
  <2> QED
    BY <1>2, <2>1, PreviousKept
<1>6. ASSUME NEW e \in Executors, PipelineStep(e)
      PROVE  PreviousInv'
  <2> DEFINE r == Rev(e)
             j == e[1]
  <2>1. r \in Revisions /\ r # None /\ j \in Jobs
    BY <1>6, StepMoves, Caller
  <2>2. CASE BeginSnapshot(e)
    <3>1. /\ artifacts' = artifacts
          /\ repo'.previous = repo.previous /\ repo'.current = repo.current
      BY <1>1, <2>2 DEF BeginSnapshot, RepoTyped
    <3>2. ASSUME p # None
          PROVE  \/ snapshots'[p] = snapshots[p]
                 \/ snapshots'[p] = Building(j)
                 \/ /\ snapshots'[p] = [status |-> "failed", job |-> j]
                    /\ snapshots[p] = Building(j)
      BY <1>1, <1>2, <2>2, <3>2 DEF BeginSnapshot, SnapshotsTyped
    <3>3. ASSUME p # None, snapshots[p] = Building(j)
          PROVE  jobs[j].attempt > 1
      BY <1>2, <2>2, <3>3, FailsOnlyRetried
    <3>4. Building(j).status = "building"
      BY DEF Building
    <3> QED
      BY <1>2, <2>1, <3>1, <3>2, <3>3, <3>4, PreviousKept
  <2>3. CASE Publish(e)
    <3>1. artifacts' = artifacts
      BY <2>3 DEF Publish
    <3>2. CASE repo.current # r /\ MoveTo(r)
      <4>1. repo'.current = r /\ repo'.previous = repo.current
        BY <3>2 DEF MoveTo
      <4>2. ASSUME repo.current # None
            PROVE  /\ repo.current \in artifacts
                   /\ snapshots'[repo.current].status = "superseded"
        <5>1. /\ repo.current \in artifacts /\ snapshots[repo.current].status = "published"
              /\ repo.current \in Revisions
          BY <1>1, <4>2 DEF DataInv, CurrentIsComplete, RepoTyped
        <5>2. snapshots[repo.current] \in SnapshotRow
          BY <1>1, <5>1 DEF SnapshotsTyped
        <5> QED
          BY <3>2, <5>1, <5>2 DEF MoveTo, SnapshotRow
      <4> HIDE DEF r
      <4> QED
        BY <3>1, <3>2, <4>1, <4>2 DEF PreviousInv
    <3>3. CASE /\ snapshots' = snapshots
               /\ repo' = [repo EXCEPT !.publishing = IF @ = r THEN None ELSE @]
      <4>1. repo'.previous = repo.previous /\ repo'.current = repo.current
        BY <1>1, <3>3 DEF RepoTyped
      <4> QED
        BY <1>2, <3>1, <3>3, <4>1, PreviousKept
    <3> QED
      BY <2>3, <3>2, <3>3 DEF Publish
  <2>4. CASE DiscardSnapshot(e)
    <3>1. CASE UNCHANGED <<repo, snapshots, artifacts>>
      BY <1>3, <3>1
    <3>2. CASE /\ repo' = [repo EXCEPT !.publishing = IF @ = r THEN None ELSE @]
               /\ \/ /\ p = r /\ artifacts' = artifacts
                     /\ snapshots' = [snapshots EXCEPT ![r] =
                          IF @ = Building(j) THEN [status |-> "superseded", job |-> j] ELSE @]
                  \/ /\ p # r /\ artifacts' = artifacts \ {r}
                     /\ snapshots' = [snapshots EXCEPT ![r] =
                          IF @ = Building(j) THEN [status |-> "failed", job |-> j] ELSE @]
      <4>1. repo'.previous = repo.previous /\ repo'.current = repo.current
        BY <1>1, <3>2 DEF RepoTyped
      <4>2. ASSUME p # None
            PROVE  /\ p \in artifacts'
                   /\ snapshots'[p] = snapshots[p] \/ snapshots'[p].status = "superseded"
        BY <1>1, <1>2, <3>2, <4>2 DEF SnapshotsTyped
      <4> QED
        BY <4>1, <4>2, PreviousKept
    <3> QED
      BY <2>4, <3>1, <3>2 DEF DiscardSnapshot
  <2>5. CASE CollectSnapshots(e)
    <3>1. PICK gone \in SUBSET Revisions :
            /\ p \notin gone
            /\ artifacts' = artifacts \ gone
            /\ snapshots' = [s \in Revisions |-> IF s \in gone THEN NoSnapshot ELSE snapshots[s]]
      BY <2>5 DEF CollectSnapshots
    <3>2. repo' = repo
      BY <2>5 DEF CollectSnapshots
    <3> QED
      BY <1>2, <3>1, <3>2, PreviousKept
  <2>6. CASE StageArtifacts(e)
    <3>1. repo' = repo /\ snapshots' = snapshots /\ artifacts \subseteq artifacts'
      BY <2>6 DEF StageArtifacts, StagesOnly
    <3> QED
      BY <1>2, <3>1, PreviousKept
  <2> QED
    BY <1>3, <1>6, <2>2, <2>3, <2>4, <2>5, <2>6
       DEF PipelineStep, CallFails, PipelineDies, DataUnchanged, BeginVersion, StoreChunk,
           StageVersion, StagesOnly, Validate, DiscardEmbedding, FailIntelligence, DiscardGraph,
           DiscardsOnly, CollectIntelligence
<1> QED
  BY <1>3, <1>4, <1>5, <1>6 DEF Next, vars

\* The previous revision keeps its artifacts and a snapshot that can be taken up again; only
\* a job that is tried again may have left that snapshot failed.
THEOREM PreviousRestorable == Spec => []PreviousIsRestorable
<1> DEFINE Inv == Typed /\ QueueInv /\ DataInv /\ FreshJobs /\ PreviousInv
<1>1. Init => Inv
  <2>1. Init => FreshJobs /\ PreviousInv
    BY DEF Init, FreshJobs, PreviousInv, NoSnapshot, Building
  <2> QED
    BY <2>1, InitTyped, QueueInvInit, DataInvInit
<1>2. Inv /\ [Next]_vars => Inv'
  BY TypedStep, QueueInvStep, DataInvStep, FreshJobsStep, PreviousStep
<1>3. Inv => PreviousIsRestorable
  BY DEF PreviousInv, PreviousIsRestorable
<1> QED
  BY <1>1, <1>2, <1>3, PTL DEF Spec
=============================================================================
