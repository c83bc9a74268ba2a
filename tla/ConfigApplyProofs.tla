------------------------- MODULE ConfigApplyProofs -------------------------
(***************************************************************************)
(* The configuration backends, for any kernels and bodies, any bound on    *)
(* the history, any faults and any number of applies, wishes and kills:    *)
(* what is remembered, what is published and what runs agree.              *)
(*                                                                         *)
(* The first lemmas are about rollback histories alone; then one lemma for *)
(* each step of an apply and of the lifecycle actor.                       *)
(***************************************************************************)
EXTENDS ConfigApply, FiniteSetTheorems, TLAPS

\* The state of a backend, of a file, and of the config actor.
Backends == [generation : Gens, torn : BOOLEAN,
             prepared : SUBSET [id : 1..MaxApplies, gen : Gens, body : Bodies],
             history : SUBSET [gen : Gens, body : Bodies]]

Files == [body : Bodies, temps : SUBSET [what : {"tmp", "rollback"}, gen : Gens]]

Applies ==
    [at : {"idle", "commits", "publishes", "discards", "reloads", "pushes", "restarts",
           "reports", "rolls", "restores"},
     outcome : {"none", "failed", "done", "restored"}, id : 0..MaxApplies, gen : Gens,
     body : Bodies, unchanged : BOOLEAN, kernel : Kernels, of : Kernels,
     before : Bodies, disturbed : BOOLEAN]

Spent == [applies : 0..MaxApplies, wishes : 0..MaxWishes, kills : 0..MaxKills]

Remembered == [gen : Gens, body : Bodies]

\* HistorySound and PublishedIsCurrent of one backend and its file's body.
Remembers(history, generation) ==
    /\ IsFiniteSet(history) /\ Cardinality(history) <= MaxHistory
    /\ \A g, h \in history : g.gen = h.gen => g = h
    /\ \A h \in history : h.gen <= generation
    /\ generation # 0 => \E h \in history : h.gen = generation

BackendSound(b) == Remembers(b.history, b.generation)

Serves(b, body) ==
    b.generation # 0 /\ ~b.torn => /\ Latest(b.history).gen = b.generation
                                   /\ Latest(b.history).body = body

-----------------------------------------------------------------------------
(* Rollback histories. *)

LEMMA GensAreNatural == Gens \subseteq Nat /\ MaxApplies \in Nat /\ MaxHistory \in Nat
BY ConfigBounds DEF Gens

\* A set of naturals has a least element, a bounded one has a greatest.
LEMMA LeastExists ==
    ASSUME NEW S, S \subseteq Nat, S # {}
    PROVE  \E x \in S : \A y \in S : x <= y
<1> DEFINE R == {p \in Nat \X Nat : p[1] < p[2]}
<1>1. IsWellFoundedOn(R, Nat)
  BY NatLessThanWellFounded, Zenon DEF OpToRel
<1>2. \E x \in S : \A y \in S : <<y, x>> \notin R
  BY <1>1, WFMin, Zenon
<1>3. ASSUME NEW x \in S, NEW y \in S, <<y, x>> \notin R
      PROVE  x <= y
  <2>1. ~ (y < x)
    BY <1>3, Zenon
  <2> QED BY <2>1
<1> QED BY <1>2, <1>3, Zenon

LEMMA GreatestExists ==
    ASSUME NEW S, S \subseteq Gens, S # {}
    PROVE  \E x \in S : \A y \in S : y <= x
<1> DEFINE T == {(MaxApplies + 1) - x : x \in S}
<1>1. T \subseteq Nat /\ T # {}
  <2>1. ASSUME NEW x \in S PROVE (MaxApplies + 1) - x \in Nat
    BY ConfigBounds DEF Gens
  <2> QED BY <2>1, Zenon
<1>2. PICK t \in T : \A u \in T : t <= u
  BY <1>1, LeastExists, Zenon
<1>3. PICK x \in S : t = (MaxApplies + 1) - x
  BY <1>2, Zenon
<1>4. ASSUME NEW y \in S PROVE y <= x
  <2>1. t <= (MaxApplies + 1) - y
    BY <1>2, Zenon
  <2> QED BY <2>1, <1>3, ConfigBounds DEF Gens
<1> QED BY <1>4, Zenon

\* The newest entry of a history is the latest.
LEMMA LatestIs ==
    ASSUME NEW H, H \subseteq Remembered, \A g, h \in H : g.gen = h.gen => g = h,
           NEW e \in H, \A h \in H : h.gen <= e.gen
    PROVE  Latest(H) = e
<1>1. Generations(H) \subseteq Nat /\ e.gen \in Generations(H)
  BY GensAreNatural, Zenon DEF Generations, Remembered
<1>2. \A n \in Generations(H) : n <= e.gen
  BY Zenon DEF Generations
<1>3. Max(Generations(H)) = e.gen
  BY <1>1, <1>2 DEF Max
<1> QED BY <1>3, Zenon DEF Latest

LEMMA LatestOf ==
    ASSUME NEW H, H \subseteq Remembered, \A g, h \in H : g.gen = h.gen => g = h, H # {}
    PROVE  Latest(H) \in H /\ \A h \in H : h.gen <= Latest(H).gen
<1>1. Generations(H) \subseteq Gens /\ Generations(H) # {}
  BY Zenon DEF Generations, Remembered
<1>2. PICK n \in Generations(H) : \A m \in Generations(H) : m <= n
  BY <1>1, GreatestExists, Zenon
<1>3. PICK e \in H : e.gen = n
  BY <1>2, Zenon DEF Generations
<1>4. \A h \in H : h.gen <= e.gen
  BY <1>2, <1>3, Zenon DEF Generations
<1> QED BY <1>3, <1>4, LatestIs, Zenon

\* Recording a generation newer than every other keeps the history bounded and
\* remembers it, and the generation before it.
RecordKeeps(H, gen, body) ==
    LET R == Recorded(H, gen, body) IN
    /\ R \subseteq Remembered
    /\ Remembers(R, gen)
    /\ Latest(R).gen = gen /\ Latest(R).body = body
    /\ [gen |-> gen, body |-> body] \in R
    /\ \A h \in H : h.gen + 1 = gen => h \in R

LEMMA RecordedSound ==
    ASSUME NEW H, H \subseteq Remembered, NEW last \in Gens, Remembers(H, last),
           last + 1 \in Gens, NEW body \in Bodies
    PROVE  RecordKeeps(H, last + 1, body)
<1> DEFINE gen == last + 1
           new == [gen |-> gen, body |-> body]
           all == {h \in H : h.gen # gen} \cup {new}
           Newer(h) == {o \in all : o.gen > h.gen}
           R == Recorded(H, gen, body)
<1>1. R = {h \in all : Cardinality(Newer(h)) < MaxHistory}
  BY Zenon DEF Recorded
<1>2. all = H \cup {new} /\ new.gen = gen /\ new.body = body /\ new \notin H
  BY GensAreNatural DEF Remembers, Remembered
<1>3. all \subseteq Remembered /\ new \in Remembered
  BY <1>2, Zenon DEF Remembered
<1>4. \A g, h \in all : g.gen = h.gen => g = h
  BY <1>2, Zenon DEF Remembers
<1>0. last \in Nat /\ gen \in Nat /\ \A h \in Remembered : h.gen \in Nat
  BY GensAreNatural, Zenon DEF Remembered
<1>5. ASSUME NEW h \in all PROVE h.gen <= gen /\ h.gen \in Nat
  <2>1. CASE h = new
    BY <2>1, <1>0, <1>2
  <2>2. CASE h \in H
    <3>1. h.gen \in Nat /\ h.gen <= last
      BY <2>2, <1>0, Zenon DEF Remembers
    <3> QED BY <3>1, <1>0
  <2> QED BY <1>2, <2>1, <2>2, Zenon
<1>6. IsFiniteSet(all) /\ Cardinality(all) = Cardinality(H) + 1
  BY <1>2, FS_AddElement, Zenon DEF Remembers
<1>7. Cardinality(H) \in Nat /\ Cardinality(H) <= MaxHistory
  BY FS_CardinalityType, Zenon DEF Remembers
<1>8. new \in R
  <2>1. Newer(new) = {}
    BY <1>2, <1>5, GensAreNatural
  <2> QED BY <1>1, <2>1, FS_EmptySet, ConfigBounds
<1>9. ASSUME NEW h \in H, h.gen + 1 = gen PROVE h \in R
  <2>1. Newer(h) = {new}
    BY <1>2, <1>5, <1>9, GensAreNatural
  <2> QED BY <1>1, <1>2, <2>1, FS_Singleton, ConfigBounds, Zenon
<1> HIDE DEF new
<1>11. R \subseteq all
  BY <1>1, Zenon
<1>10. IsFiniteSet(R) /\ Cardinality(R) <= MaxHistory
  <2>1. PICK n \in {h.gen : h \in all} : \A m \in {h.gen : h \in all} : n <= m
    <3>1. {h.gen : h \in all} \subseteq Nat /\ {h.gen : h \in all} # {}
      BY <1>5, Zenon
    <3> QED BY <3>1, LeastExists, Zenon
  <2>2. PICK e \in all : n = e.gen
    BY <2>1, Zenon
  <2>3. \A h \in all : e.gen <= h.gen
    BY <2>1, <2>2, Zenon
  <2>4. Newer(e) = all \ {e}
    BY <1>4, <1>5, <2>3
  <2>5. Cardinality(Newer(e)) = Cardinality(H)
    <3>1. Cardinality(all \ {e}) = Cardinality(all) - 1
      BY <1>6, FS_RemoveElement, Zenon
    <3> HIDE DEF all
    <3> QED BY <1>6, <1>7, <2>4, <3>1
  <2>6. CASE Cardinality(H) = MaxHistory
    <3>1. R \subseteq all \ {e}
      <4>1. ~ (Cardinality(Newer(e)) < MaxHistory)
        BY <2>5, <2>6, GensAreNatural
      <4>2. e \notin R
        BY <1>1, <4>1, Zenon
      <4> HIDE DEF all, R
      <4> QED BY <1>11, <4>2, Zenon
    <3>2. IsFiniteSet(all \ {e}) /\ Cardinality(all \ {e}) = MaxHistory
      BY <1>6, <2>4, <2>5, <2>6, FS_RemoveElement, Zenon
    <3> QED BY <3>1, <3>2, FS_Subset, Zenon
  <2>7. CASE Cardinality(H) # MaxHistory
    <3>1. R \subseteq all
      BY <1>1, Zenon
    <3>2. Cardinality(R) <= Cardinality(all) /\ IsFiniteSet(R)
      BY <3>1, <1>6, FS_Subset, Zenon
    <3> QED BY <3>2, <2>7, <1>6, <1>7, GensAreNatural, FS_CardinalityType
  <2> QED BY <2>6, <2>7, Zenon
<1>12. Remembers(R, gen) /\ R \subseteq Remembered
  BY <1>2, <1>3, <1>4, <1>5, <1>8, <1>10, <1>11, Zenon DEF Remembers
<1>13. Latest(R) = new
  BY <1>2, <1>5, <1>8, <1>11, <1>12, LatestIs DEF Remembers
<1> QED BY <1>2, <1>8, <1>9, <1>12, <1>13, Zenon DEF RecordKeeps, new

\* Dropping the newest generation leaves the one before it as the latest.
DropKeeps(H, gen) ==
    LET R == {h \in H : h.gen # gen}
        older == Latest({h \in H : h.gen < gen})
    IN  /\ R \subseteq Remembered
        /\ older \in H /\ older \in Remembered /\ older.gen < gen
        /\ Remembers(R, older.gen)
        /\ Latest(R) = older
        /\ \A h \in H : h.gen + 1 = gen => older = h

LEMMA DroppedSound ==
    ASSUME NEW H, H \subseteq Remembered, NEW gen \in Gens, Remembers(H, gen),
           {h \in H : h.gen < gen} # {}
    PROVE  DropKeeps(H, gen)
<1> DEFINE Old == {h \in H : h.gen < gen}
           R == {h \in H : h.gen # gen}
           older == Latest(Old)
<1>0. gen \in Nat /\ \A h \in H : h.gen \in Nat /\ h.gen <= gen
  BY GensAreNatural, Zenon DEF Remembers, Remembered
<1>1. R = Old
  <2>1. ASSUME NEW h \in H PROVE h.gen # gen <=> h.gen < gen
    BY <1>0
  <2> QED BY <2>1, Zenon
<1>2. Old \subseteq Remembered /\ \A g, h \in Old : g.gen = h.gen => g = h
  BY Zenon DEF Remembers
<1>3. older \in Old /\ \A h \in Old : h.gen <= older.gen
  BY <1>2, LatestOf, Zenon
<1>4. IsFiniteSet(Old) /\ Cardinality(Old) <= MaxHistory
  <2>1. IsFiniteSet(Old) /\ Cardinality(Old) <= Cardinality(H)
    BY FS_Subset, Zenon DEF Remembers
  <2> QED BY <2>1, FS_CardinalityType, GensAreNatural DEF Remembers
<1>5. Remembers(Old, older.gen)
  BY <1>2, <1>3, <1>4, Zenon DEF Remembers
<1>6. ASSUME NEW h \in H, h.gen + 1 = gen PROVE older = h
  <2>1. h \in Old /\ \A o \in Old : o.gen <= h.gen
    BY <1>6, <1>0
  <2> QED BY <2>1, <1>2, LatestIs, Zenon
<1> HIDE DEF older
<1> QED BY <1>1, <1>2, <1>3, <1>5, <1>6, Zenon DEF DropKeeps, older

-----------------------------------------------------------------------------
(* The invariant, by the parts of the state it is about. *)

\* ConfigTypeOK in three parts.
Cells(act, sw, u) == act \in Kernels /\ sw \subseteq Kernels /\ u \in Spent

Stores(d, b, r, u) ==
    /\ d \in [Kernels -> Files] /\ b \in [Kernels -> Backends] /\ r \in [Kernels -> SUBSET Bodies]
    /\ \A k \in Kernels : /\ b[k].generation <= u.applies
                          /\ \A p \in b[k].prepared : p.id <= u.applies

AtMostOne(r) == \A k \in Kernels : \A b, c \in r[k] : b = c

Actor(a, u) == a \in Applies /\ a.gen <= u.applies

FilesAgree(d, b) == \A k \in Kernels : BackendSound(b[k]) /\ Serves(b[k], d[k].body)

\* The rest of the invariant: of the loaded body, the rollback and the apply.
Sure == LoadedIsPublished /\ RollbackUndoes /\ ApplyKnows

LEMMA InvFolds ==
    /\ ConfigFilesInv <=>
          /\ Cells(active, switch, used) /\ Stores(disk, backend, running, used)
          /\ AtMostOne(running) /\ Actor(apply, used) /\ FilesAgree(disk, backend) /\ Sure
    /\ ConfigFilesInv' <=>
          /\ Cells(active', switch', used') /\ Stores(disk', backend', running', used')
          /\ AtMostOne(running') /\ Actor(apply', used') /\ FilesAgree(disk', backend') /\ Sure'
<1>1. ConfigTypeOK <=> /\ Cells(active, switch, used) /\ Stores(disk, backend, running, used)
                       /\ AtMostOne(running) /\ Actor(apply, used)
  BY Zenon DEF ConfigTypeOK, Cells, Stores, AtMostOne, Actor, Backends, Files, Applies, Spent
<1>2. ConfigTypeOK' <=> /\ Cells(active', switch', used') /\ Stores(disk', backend', running', used')
                        /\ AtMostOne(running') /\ Actor(apply', used')
  BY Zenon DEF ConfigTypeOK, Cells, Stores, AtMostOne, Actor, Backends, Files, Applies, Spent
<1>3. HistorySound /\ PublishedIsCurrent <=> FilesAgree(disk, backend)
  BY Zenon DEF HistorySound, PublishedIsCurrent, FilesAgree, BackendSound, Remembers, Serves
<1>4. (HistorySound /\ PublishedIsCurrent)' <=> FilesAgree(disk', backend')
  BY Zenon DEF HistorySound, PublishedIsCurrent, FilesAgree, BackendSound, Remembers, Serves
<1> QED BY <1>1, <1>2, <1>3, <1>4, Zenon DEF ConfigFilesInv, Sure

LEMMA CommitMissingKeeps ==
    ASSUME ConfigFilesInv, CommitMissing
    PROVE  ConfigFilesInv'
<1> USE DEF CommitMissing
<1>1. Actor(apply, used) /\ Sure
  BY InvFolds, Zenon
<1>2. Actor(apply', used')
  BY <1>1, Zenon DEF Actor, Applies
<1>3. LoadedIsPublished' /\ RollbackUndoes'
  BY <1>1, Zenon DEF Sure, LoadedIsPublished, RollbackUndoes, ApplyKnows, Actor, Applies
<1>4. ApplyKnows'
  BY <1>1, Zenon DEF Sure, ApplyKnows, Actor, Applies
<1> QED BY <1>2, <1>3, <1>4, InvFolds, Zenon DEF Sure

\* Where current_contents and hot_reload find the body: the newest generation.
LEMMA CurrentContentsKeeps ==
    ASSUME ConfigFilesInv, CurrentContents
    PROVE  ConfigFilesInv'
<1> USE DEF CurrentContents
<1> DEFINE H == backend[active].history
<1>1. Actor(apply, used) /\ Sure /\ Cells(active, switch, used) /\ FilesAgree(disk, backend)
      /\ Stores(disk, backend, running, used)
  BY InvFolds, Zenon
<1>2. H \subseteq Remembered /\ Remembers(H, backend[active].generation)
  BY <1>1, Zenon DEF Cells, Stores, FilesAgree, BackendSound, Backends, Remembered
<1>3. H # {} => Latest(H) \in Remembered
  BY <1>2, LatestOf, Zenon DEF Remembers
<1>4. Actor(apply', used')
  BY <1>1, <1>3, Zenon DEF Actor, Applies, Remembered
<1>5. LoadedIsPublished' /\ RollbackUndoes'
  BY <1>1, Zenon DEF Sure, LoadedIsPublished, RollbackUndoes, ApplyKnows, Actor, Applies
<1>6. ~apply.disturbed => H # {} /\ Latest(H).body = disk[apply.of].body
  <2>1. SUFFICES ASSUME ~apply.disturbed PROVE H # {} /\ Latest(H).body = disk[apply.of].body
    BY Zenon
  <2> DEFINE e == [gen |-> apply.gen, body |-> disk[apply.of].body]
  <2>2. e \in H /\ apply.gen = backend[active].generation
    BY <1>1, <2>1, Zenon DEF Sure, ApplyKnows
  <2>3. Latest(H) = e
    BY <1>2, <2>2, LatestIs, Zenon DEF Remembers
  <2> QED BY <2>2, <2>3
<1>7. ApplyKnows'
  <2>1. apply'.at \in {"restarts", "pushes"} /\ apply'.outcome = apply.outcome /\ apply'.id = apply.id
        /\ apply'.kernel = apply.kernel /\ apply'.of = apply.of /\ apply'.gen = apply.gen
        /\ apply'.before = apply.before
    BY <1>1, Zenon DEF Actor, Applies
  <2>2. apply'.disturbed = apply.disturbed
    BY <1>1, Zenon DEF Actor, Applies
  <2>3. apply'.at = "pushes" => apply'.body = Latest(H).body
    BY <1>1, Zenon DEF Actor, Applies
  <2> QED BY <1>1, <1>6, <2>1, <2>2, <2>3, Zenon DEF Sure, ApplyKnows
<1> QED BY <1>1, <1>4, <1>5, <1>7, InvFolds, Zenon DEF Sure

LEMMA HotReloadKeeps ==
    ASSUME ConfigFilesInv, HotReload
    PROVE  ConfigFilesInv'
<1> USE DEF HotReload
<1>1. Actor(apply, used) /\ Sure /\ Cells(active, switch, used) /\ FilesAgree(disk, backend)
      /\ Stores(disk, backend, running, used) /\ AtMostOne(running)
  BY InvFolds, Zenon
<1>2. Actor(apply', used')
  BY <1>1, Zenon DEF Actor, Applies
<1>3. Stores(disk', backend', running', used') /\ AtMostOne(running')
  <2>1. CASE UNCHANGED running
    BY <1>1, <2>1, Zenon
  <2>2. CASE running' = [running EXCEPT ![active] = {apply.body}]
    <3>1. apply.body \in Bodies
      BY <1>1, Zenon DEF Actor, Applies
    <3> QED BY <1>1, <2>2, <3>1, Zenon DEF Stores, AtMostOne
  <2> QED BY <2>1, <2>2, Zenon
<1>4. LoadedIsPublished'
  BY <1>1 DEF Sure, LoadedIsPublished, ApplyKnows, Actor, Applies, Stores, Cells
<1>5. RollbackUndoes'
  BY <1>1, Zenon DEF Sure, RollbackUndoes, ApplyKnows, Actor, Applies
<1>6. ApplyKnows'
  BY <1>1, ZenonT(60) DEF Sure, ApplyKnows, Actor, Applies
<1> QED BY <1>1, <1>2, <1>3, <1>4, <1>5, <1>6, InvFolds, Zenon DEF Sure

LEMMA RestartKeeps ==
    ASSUME ConfigFilesInv, Restart
    PROVE  ConfigFilesInv'
<1> USE DEF Restart
<1>1. Actor(apply, used) /\ Sure /\ Cells(active, switch, used) /\ FilesAgree(disk, backend)
      /\ Stores(disk, backend, running, used) /\ AtMostOne(running)
  BY InvFolds, Zenon
<1>2. Actor(apply', used')
  BY <1>1, Zenon DEF Actor, Applies
<1>3. Stores(disk', backend', running', used') /\ AtMostOne(running')
  <2>1. CASE UNCHANGED running
    BY <1>1, <2>1, Zenon
  <2>2. CASE running' = [running EXCEPT ![active] = {}]
    BY <1>1, <2>2, Zenon DEF Stores, AtMostOne
  <2>3. CASE running' = [running EXCEPT ![active] = {disk[active].body}]
    <3>1. disk[active].body \in Bodies
      BY <1>1, Zenon DEF Stores, Files, Cells
    <3> QED BY <1>1, <2>3, <3>1, Zenon DEF Stores, AtMostOne
  <2> QED BY <2>1, <2>2, <2>3, Zenon
<1>4. LoadedIsPublished'
  BY <1>1, Zenon DEF Sure, LoadedIsPublished, ApplyKnows, Actor, Applies, Stores, Cells
<1>5. RollbackUndoes'
  BY <1>1, Zenon DEF Sure, RollbackUndoes, ApplyKnows, Actor, Applies
<1>6. ApplyKnows'
  BY <1>1, Zenon DEF Sure, ApplyKnows, Actor, Applies
<1> QED BY <1>1, <1>2, <1>3, <1>4, <1>5, <1>6, InvFolds, Zenon DEF Sure

LEMMA ReportsAppliedKeeps ==
    ASSUME ConfigFilesInv, ReportsApplied
    PROVE  ConfigFilesInv'
<1> USE DEF ReportsApplied, Ends
<1>1. Actor(apply, used) /\ Sure
  BY InvFolds, Zenon
<1>2. Actor(apply', used')
  BY <1>1, Zenon DEF Actor, Applies
<1>3. LoadedIsPublished' /\ RollbackUndoes'
  BY <1>1, Zenon DEF Sure, LoadedIsPublished, RollbackUndoes, ApplyKnows, Actor, Applies
<1>4. ApplyKnows'
  BY <1>1, Zenon DEF Sure, ApplyKnows, Actor, Applies
<1> QED BY <1>2, <1>3, <1>4, InvFolds, Zenon DEF Sure

\* Without an older generation the apply was the first of this daemon, unless it
\* was disturbed or a publication was torn.
LEMMA RollbackNothingKeeps ==
    ASSUME ConfigFilesInv, RollbackNothing
    PROVE  ConfigFilesInv'
<1> USE DEF RollbackNothing, Ends
<1>1. Actor(apply, used) /\ Sure
  BY InvFolds, Zenon
<1>2. Actor(apply', used')
  BY <1>1, Zenon DEF Actor, Applies
<1>3. LoadedIsPublished'
  BY <1>1, Zenon DEF Sure, LoadedIsPublished, Actor, Applies
<1>4. ~(apply.gen > 1 /\ ~apply.disturbed /\ ~backend[apply.of].torn)
  <2>1. SUFFICES ASSUME apply.gen > 1, ~apply.disturbed, ~backend[apply.of].torn PROVE FALSE
    BY Zenon
  <2>2. backend[active].generation = apply.gen /\ apply.of = active
        /\ [gen |-> apply.gen - 1, body |-> apply.before] \in backend[active].history
    BY <1>1, <2>1, Zenon DEF Sure, ApplyKnows
  <2>3. apply.gen \in Nat
    BY <1>1, GensAreNatural, Zenon DEF Actor, Applies
  <2> QED BY <2>2, <2>3 DEF Older
<1>5. RollbackUndoes'
  BY <1>1, <1>4, Zenon DEF RollbackUndoes, Actor, Applies
<1>6. ApplyKnows'
  BY <1>1, Zenon DEF Sure, ApplyKnows, Actor, Applies
<1> QED BY <1>2, <1>3, <1>5, <1>6, InvFolds, Zenon DEF Sure

\* A candidate leaves the backend: nothing else of the backend changes.
Forgets(b, c) ==
    /\ c \in [Kernels -> Backends]
    /\ \A k \in Kernels : /\ c[k].generation = b[k].generation /\ c[k].history = b[k].history
                          /\ c[k].prepared \subseteq b[k].prepared
    /\ \A k \in Kernels : c[k].torn = b[k].torn

LEMMA KeptForgets ==
    ASSUME ConfigFilesInv, backend' = [backend EXCEPT ![active].prepared = Kept]
    PROVE  Forgets(backend, backend')
<1>1. active \in Kernels /\ backend \in [Kernels -> Backends]
  BY InvFolds, Zenon DEF Cells, Stores
<1> DEFINE b == [backend[active] EXCEPT !.prepared = Kept]
<1>2. b \in Backends /\ b.generation = backend[active].generation
      /\ b.history = backend[active].history /\ b.prepared \subseteq backend[active].prepared
  BY <1>1, Zenon DEF Backends, Kept
<1>3. b.torn = backend[active].torn
  BY <1>1, Zenon DEF Backends
<1>4. backend' = [backend EXCEPT ![active] = b]
  BY <1>1, Zenon
<1> HIDE DEF b
<1>5. backend' \in [Kernels -> Backends] /\ backend'[active] = b
      /\ \A k \in Kernels \ {active} : backend'[k] = backend[k]
  BY <1>1, <1>2, <1>4, Zenon
<1> QED BY <1>2, <1>3, <1>5, Zenon DEF Forgets

LEMMA ForgetKeeps ==
    ASSUME ConfigFilesInv, Forgets(backend, backend'), UNCHANGED <<disk, running, used>>
    PROVE  Stores(disk', backend', running', used') /\ FilesAgree(disk', backend')
<1>1. Stores(disk, backend, running, used) /\ FilesAgree(disk, backend)
  BY InvFolds, Zenon
<1>2. Stores(disk', backend', running', used')
  BY <1>1, Zenon DEF Stores, Forgets
<1>3. FilesAgree(disk', backend')
  BY <1>1, Zenon DEF FilesAgree, BackendSound, Serves, Forgets
<1> QED BY <1>2, <1>3, Zenon

LEMMA CommitUnchangedKeeps ==
    ASSUME ConfigFilesInv, CommitUnchanged
    PROVE  ConfigFilesInv'
<1> USE DEF CommitUnchanged
<1>1. Actor(apply, used) /\ Sure /\ Cells(active, switch, used) /\ Stores(disk, backend, running, used)
  BY InvFolds, Zenon
<1>2. Forgets(backend, backend')
  BY KeptForgets, Zenon
<1>3. backend[active].generation \in Gens /\ backend[active].generation <= used.applies
  BY <1>1, Zenon DEF Cells, Stores, Backends
<1>4. apply' = [apply EXCEPT !.at = "reports", !.unchanged = TRUE, !.gen = backend[active].generation]
  BY Zenon
<1>5. apply' \in Applies /\ apply'.gen = backend[active].generation /\ apply'.at = "reports"
      /\ apply'.outcome = apply.outcome /\ apply'.id = apply.id /\ apply'.of = apply.of
  BY <1>1, <1>3, <1>4, Zenon DEF Actor, Applies
<1>6. apply'.unchanged /\ apply'.disturbed = apply.disturbed
  BY <1>1, <1>4, Zenon DEF Actor, Applies
<1>7. Actor(apply', used')
  BY <1>3, <1>5, Zenon DEF Actor
<1>8. LoadedIsPublished' /\ RollbackUndoes'
  BY <1>1, <1>5, <1>6, Zenon DEF Sure, LoadedIsPublished, RollbackUndoes, ApplyKnows
<1>9. ApplyKnows'
  BY <1>1, <1>5, <1>6, Zenon DEF Sure, ApplyKnows
<1> QED BY <1>1, <1>2, <1>7, <1>8, <1>9, ForgetKeeps, InvFolds, Zenon DEF Sure

LEMMA DiscardPreparedKeeps ==
    ASSUME ConfigFilesInv, DiscardPrepared
    PROVE  ConfigFilesInv'
<1> USE DEF DiscardPrepared, Ends
<1>1. Actor(apply, used) /\ Sure
  BY InvFolds, Zenon
<1>2. Forgets(backend, backend')
  BY KeptForgets, Zenon
<1>3. Actor(apply', used')
  BY <1>1, Zenon DEF Actor, Applies
<1>4. LoadedIsPublished' /\ RollbackUndoes'
  BY <1>1, Zenon DEF LoadedIsPublished, RollbackUndoes, Actor, Applies
<1>5. ApplyKnows'
  BY <1>1, Zenon DEF ApplyKnows, Actor, Applies
<1> QED BY <1>1, <1>2, <1>3, <1>4, <1>5, ForgetKeeps, InvFolds, Zenon DEF Sure

-----------------------------------------------------------------------------
(* The lifecycle actor. *)

\* An apply that is under way is disturbed; nothing else of it changes.
LEMMA DisturbsSound ==
    ASSUME apply \in Applies, Disturbs
    PROVE  /\ apply' \in Applies /\ apply'.at = apply.at /\ apply'.outcome = apply.outcome
           /\ apply'.id = apply.id /\ apply'.gen = apply.gen /\ apply'.body = apply.body
           /\ apply'.kernel = apply.kernel /\ apply'.of = apply.of /\ apply'.before = apply.before
           /\ apply'.unchanged = apply.unchanged
           /\ apply'.disturbed = (apply.disturbed \/ apply.at # "idle")
<1> DEFINE d == apply.disturbed \/ apply.at # "idle"
<1>1. d \in BOOLEAN
  BY Zenon
<1>2. apply' = [apply EXCEPT !.disturbed = d]
  BY Zenon DEF Disturbs
<1> HIDE DEF d
<1>3. apply' \in Applies /\ apply'.at = apply.at /\ apply'.outcome = apply.outcome
      /\ apply'.id = apply.id /\ apply'.gen = apply.gen /\ apply'.body = apply.body
      /\ apply'.kernel = apply.kernel /\ apply'.of = apply.of /\ apply'.before = apply.before
  BY <1>1, <1>2, Zenon DEF Applies
<1>4. apply'.unchanged = apply.unchanged
  BY <1>2, Zenon DEF Applies
<1>5. apply'.disturbed = d
  BY <1>2, Zenon DEF Applies
<1> QED BY <1>3, <1>4, <1>5, Zenon DEF d

LEMMA DisturbsKeeps ==
    ASSUME ConfigFilesInv, Disturbs, UNCHANGED <<disk, backend>>,
           used' \in Spent, used'.applies = used.applies
    PROVE  Actor(apply', used') /\ Sure'
<1>1. Actor(apply, used) /\ Sure
  BY InvFolds, Zenon
<1>2. apply \in Applies
  BY <1>1, Zenon DEF Actor
<1>3. Actor(apply', used')
  BY <1>1, <1>2, DisturbsSound, Zenon DEF Actor
<1>4. CASE apply.at = "idle"
  <2>1. LoadedIsPublished' /\ RollbackUndoes'
    BY <1>1, <1>2, <1>4, DisturbsSound, Zenon DEF Sure, LoadedIsPublished, RollbackUndoes
  <2>2. ApplyKnows'
    BY <1>1, <1>2, <1>4, DisturbsSound, Zenon DEF Sure, ApplyKnows
  <2> QED BY <1>3, <2>1, <2>2, Zenon DEF Sure
<1>5. CASE apply.at # "idle"
  <2>1. LoadedIsPublished' /\ RollbackUndoes'
    BY <1>2, <1>5, DisturbsSound, Zenon DEF LoadedIsPublished, RollbackUndoes
  <2>2. Older(apply.kernel)' = Older(apply.kernel)
    BY <1>2, DisturbsSound, Zenon DEF Older
  <2>3. ApplyKnows'
    BY <1>1, <1>2, <1>5, <2>2, DisturbsSound, Zenon DEF Sure, ApplyKnows
  <2> QED BY <1>3, <2>1, <2>3, Zenon DEF Sure
<1> QED BY <1>4, <1>5, Zenon

\* A kernel that is left alone, stopped or loaded runs at most one body.
LEMMA LoadSound ==
    ASSUME ConfigFilesInv, NEW k \in Kernels, NEW body \in Bodies \cup {disk[k].body},
           running' \in {running, [running EXCEPT ![k] = {}], [running EXCEPT ![k] = {body}]},
           UNCHANGED <<disk, backend>>, used'.applies = used.applies
    PROVE  Stores(disk', backend', running', used') /\ AtMostOne(running')
<1>1. Stores(disk, backend, running, used) /\ AtMostOne(running)
  BY InvFolds, Zenon
<1>2. body \in Bodies
  BY <1>1, Zenon DEF Stores, Files
<1>3. CASE running' = running
  BY <1>1, <1>3, Zenon DEF Stores
<1>4. CASE running' = [running EXCEPT ![k] = {}]
  BY <1>1, <1>4, Zenon DEF Stores, AtMostOne
<1>5. CASE running' = [running EXCEPT ![k] = {body}]
  BY <1>1, <1>2, <1>5, Zenon DEF Stores, AtMostOne
<1> QED BY <1>3, <1>4, <1>5, Zenon

LEMMA WishSpends ==
    ASSUME ConfigFilesInv, used.wishes < MaxWishes, used' = [used EXCEPT !.wishes = @ + 1]
    PROVE  used' \in Spent /\ used'.applies = used.applies
<1>1. used \in Spent
  BY InvFolds, Zenon DEF Cells
<1> QED BY <1>1, ConfigBounds DEF Spent

LEMMA WishKeeps ==
    ASSUME ConfigFilesInv,
           StopsCore \/ StartsCore \/ \E target \in Kernels : SwitchFlips(target)
    PROVE  ConfigFilesInv'
<1>1. Cells(active, switch, used) /\ FilesAgree(disk, backend)
  BY InvFolds, Zenon
<1>2. used' \in Spent /\ used'.applies = used.applies
  BY WishSpends, Zenon DEF StopsCore, StartsCore, SwitchFlips, Wishes
<1>3. UNCHANGED <<disk, backend>> /\ Disturbs
  BY Zenon DEF StopsCore, StartsCore, SwitchFlips, Wishes
<1>4. Actor(apply', used') /\ Sure'
  BY <1>2, <1>3, DisturbsKeeps, Zenon
<1>5. Stores(disk', backend', running', used') /\ AtMostOne(running')
  <2>1. running' \in {running, [running EXCEPT ![active] = {}],
                      [running EXCEPT ![active] = {disk[active].body}]}
    BY Zenon DEF StopsCore, StartsCore, SwitchFlips
  <2> QED BY <1>1, <1>2, <1>3, <2>1, LoadSound, Zenon DEF Cells
<1>6. Cells(active', switch', used')
  BY <1>1, <1>2, Zenon DEF StopsCore, StartsCore, SwitchFlips, Cells
<1> QED BY <1>1, <1>3, <1>4, <1>5, <1>6, InvFolds, Zenon

LEMMA SwitchStartsKeeps ==
    ASSUME ConfigFilesInv, SwitchStarts
    PROVE  ConfigFilesInv'
<1>1. Cells(active, switch, used) /\ FilesAgree(disk, backend)
  BY InvFolds, Zenon
<1>2. UNCHANGED <<disk, backend, used>> /\ Disturbs
  BY Zenon DEF SwitchStarts
<1>3. Actor(apply', used') /\ Sure'
  BY <1>1, <1>2, DisturbsKeeps, Zenon DEF Cells
<1>4. PICK k \in Kernels : running' \in {running, [running EXCEPT ![k] = {}],
                                         [running EXCEPT ![k] = {disk[k].body}]}
  BY <1>1, Zenon DEF SwitchStarts, Cells
<1>5. Stores(disk', backend', running', used') /\ AtMostOne(running')
  BY <1>2, <1>4, LoadSound, Zenon
<1>6. Cells(active', switch', used')
  BY <1>1, Zenon DEF SwitchStarts, Cells
<1> QED BY <1>1, <1>2, <1>3, <1>5, <1>6, InvFolds, Zenon

\* A fresh backend remembers nothing and serves nothing.
LEMMA FreshSound ==
    FreshBackend \in Backends /\ BackendSound(FreshBackend)
    /\ \A body : Serves(FreshBackend, body)
<1>1. FreshBackend.generation = 0 /\ FreshBackend.history = {} /\ FreshBackend.prepared = {}
  BY Zenon DEF FreshBackend
<1>2. FreshBackend \in Backends
  BY ConfigBounds DEF FreshBackend, Backends, Gens
<1>3. BackendSound(FreshBackend)
  BY <1>1, FS_EmptySet, ConfigBounds DEF BackendSound, Remembers
<1> QED BY <1>1, <1>2, <1>3, Zenon DEF Serves

LEMMA FreshBackends ==
    ASSUME NEW d, NEW b, NEW u, b = [k \in Kernels |-> FreshBackend], u \in Spent
    PROVE  /\ b \in [Kernels -> Backends] /\ FilesAgree(d, b)
           /\ \A k \in Kernels : b[k].generation = 0 /\ b[k].prepared = {}
<1>1. \A k \in Kernels : b[k] = FreshBackend
  BY Zenon
<1>2. FilesAgree(d, b)
  BY <1>1, FreshSound, Zenon DEF FilesAgree
<1>3. b \in [Kernels -> Backends]
  BY FreshSound, Zenon
<1> QED BY <1>1, <1>2, <1>3, Zenon DEF FreshBackend

\* An idle actor.
LEMMA IdleSound ==
    ASSUME NEW k \in Kernels, NEW a, NEW d \in BOOLEAN,
           a = [at |-> "idle", outcome |-> "none", id |-> 0, gen |-> 0, body |-> Boot,
                unchanged |-> FALSE, kernel |-> k, of |-> k, before |-> Boot, disturbed |-> d]
    PROVE  a \in Applies /\ a.at = "idle" /\ a.outcome = "none" /\ a.gen = 0
BY ConfigBounds DEF Applies, Gens

LEMMA DaemonKilledKeeps ==
    ASSUME ConfigFilesInv, DaemonKilled
    PROVE  ConfigFilesInv'
<1> USE DEF DaemonKilled
<1>1. Cells(active, switch, used) /\ Stores(disk, backend, running, used)
  BY InvFolds, Zenon
<1>2. used' \in Spent /\ used'.applies = used.applies
  BY <1>1, ConfigBounds DEF Cells, Spent
<1>3. Cells(active', switch', used')
  BY <1>2, Zenon DEF Cells
<1>4. backend' \in [Kernels -> Backends] /\ FilesAgree(disk', backend')
      /\ \A k \in Kernels : backend'[k].generation = 0 /\ backend'[k].prepared = {}
  BY <1>2, FreshBackends, Zenon
<1>5. disk \in [Kernels -> Files]
  BY <1>1, Zenon DEF Stores
<1>6. running' \in [Kernels -> SUBSET Bodies] /\ AtMostOne(running')
  <2>1. PICK started \in SUBSET {active'} :
          running' = [k \in Kernels |-> IF k \in started THEN {disk[k].body} ELSE {}]
    BY Zenon
  <2>2. \A k \in Kernels : disk[k].body \in Bodies
    BY <1>5, Zenon DEF Files
  <2> QED BY <2>1, <2>2, Zenon DEF AtMostOne
<1>7. Stores(disk', backend', running', used')
  BY <1>2, <1>4, <1>5, <1>6 DEF Stores, Spent
<1>8. apply' \in Applies /\ apply'.at = "idle" /\ apply'.outcome = "none" /\ apply'.gen = 0
  <2>1. apply' = [at |-> "idle", outcome |-> "none", id |-> 0, gen |-> 0, body |-> Boot,
                  unchanged |-> FALSE, kernel |-> active', of |-> active', before |-> Boot,
                  disturbed |-> FALSE]
    BY Zenon DEF IdleApply
  <2> QED BY <2>1, IdleSound, Zenon
<1>9. Actor(apply', used')
  BY <1>2, <1>8 DEF Actor, Spent
<1>10. Sure'
  BY <1>8, Zenon DEF Sure, LoadedIsPublished, RollbackUndoes, ApplyKnows
<1> QED BY <1>3, <1>4, <1>6, <1>7, <1>9, <1>10, InvFolds, Zenon

-----------------------------------------------------------------------------
(* An apply begins. *)

\* The backend of the active kernel changes, the others do not.
LEMMA BackendMoves ==
    ASSUME backend \in [Kernels -> Backends], NEW k \in Kernels, NEW b \in Backends,
           backend' = [backend EXCEPT ![k] = b]
    PROVE  /\ backend' \in [Kernels -> Backends] /\ backend'[k] = b
           /\ \A j \in Kernels \ {k} : backend'[j] = backend[j]
BY Zenon

LEMMA ApplySpends ==
    ASSUME ConfigFilesInv, used.applies < MaxApplies, used' = [used EXCEPT !.applies = @ + 1]
    PROVE  /\ used' \in Spent /\ used'.applies = used.applies + 1
           /\ used.applies \in Nat /\ used.applies + 1 \in 1..MaxApplies
<1>1. used \in Spent
  BY InvFolds, Zenon DEF Cells
<1> QED BY <1>1, ConfigBounds DEF Spent

\* The actor with a candidate to commit.
HasCandidate(c, a, i, g, body) ==
    /\ c \in Applies
    /\ c.at = "commits" /\ c.outcome = a.outcome /\ c.id = i /\ c.gen = g
    /\ c.of = a.of /\ c.kernel = a.kernel /\ c.before = body

LEMMA CommitsSound ==
    ASSUME NEW a \in Applies, NEW i \in 1..MaxApplies, NEW g \in Gens, NEW body \in Bodies, NEW c,
           c = [a EXCEPT !.at = "commits", !.id = i, !.gen = g, !.before = body]
    PROVE  HasCandidate(c, a, i, g, body)
<1>1. i \in 0..MaxApplies
  BY GensAreNatural
<1>2. c \in Applies
  BY <1>1, Zenon DEF Applies
<1>3. c.at = "commits" /\ c.outcome = a.outcome /\ c.id = i /\ c.gen = g
  BY Zenon DEF Applies
<1>4. c.of = a.of /\ c.kernel = a.kernel /\ c.before = body
  BY Zenon DEF Applies
<1> QED BY <1>2, <1>3, <1>4, Zenon DEF HasCandidate

LEMMA ParseAndRenderKeeps ==
    ASSUME ConfigFilesInv, NEW body \in Bodies, ParseAndRender(body)
    PROVE  ConfigFilesInv'
<1> USE DEF ParseAndRender
<1> DEFINE id == used.applies + 1
           gen == backend[active].generation + 1
           idle == [at |-> "idle", outcome |-> "none", id |-> 0, gen |-> 0, body |-> Boot,
                    unchanged |-> FALSE, kernel |-> active, of |-> active, before |-> Boot,
                    disturbed |-> switch # {}]
           kept == [id |-> id, gen |-> gen, body |-> body]
           P == backend[active].prepared \cup {kept}
           b == [backend[active] EXCEPT !.prepared = P]
<1>1. Cells(active, switch, used) /\ Stores(disk, backend, running, used) /\ AtMostOne(running)
      /\ FilesAgree(disk, backend)
  BY InvFolds, Zenon
<1>2. used' \in Spent /\ used'.applies = id /\ used.applies \in Nat /\ id \in 1..MaxApplies
  BY ApplySpends, Zenon
<1>3. active \in Kernels /\ backend \in [Kernels -> Backends] /\ disk \in [Kernels -> Files]
  BY <1>1, Zenon DEF Cells, Stores
<1>4. backend[active].generation \in Nat /\ gen \in Gens /\ gen <= id
  <2>1. backend[active].generation \in Gens /\ backend[active].generation <= used.applies
    BY <1>1, <1>3, Zenon DEF Stores, Backends
  <2> QED BY <2>1, <1>2, ConfigBounds DEF Gens
<1>5. Cells(active', switch', used')
  BY <1>1, <1>2, Zenon DEF Cells
<1>6. CASE /\ apply' = [IdleApply(active) EXCEPT !.outcome = "failed"]
           /\ UNCHANGED backend
  <2>1. (switch # {}) \in BOOLEAN
    BY Zenon
  <2>2. idle \in Applies /\ idle.at = "idle" /\ idle.gen = 0
    BY <1>3, <2>1, IdleSound, Zenon
  <2>3. apply' = [idle EXCEPT !.outcome = "failed"]
    BY <1>6, Zenon DEF IdleApply
  <2> HIDE DEF idle
  <2>4. apply' \in Applies /\ apply'.at = "idle" /\ apply'.outcome = "failed" /\ apply'.gen = 0
    BY <2>2, <2>3, Zenon DEF Applies
  <2>5. Actor(apply', used')
    BY <2>4, <1>2 DEF Actor
  <2>6. Sure'
    BY <2>4, Zenon DEF Sure, LoadedIsPublished, RollbackUndoes, ApplyKnows
  <2>7. Stores(disk', backend', running', used')
    <3>1. ASSUME NEW k \in Kernels
          PROVE  backend[k].generation <= id /\ \A p \in backend[k].prepared : p.id <= id
      <4>1. /\ backend[k].generation <= used.applies /\ backend[k].generation \in Nat
            /\ \A p \in backend[k].prepared : p.id <= used.applies /\ p.id \in Nat
        BY <1>1, <1>3, GensAreNatural DEF Stores, Backends
      <4> QED BY <1>2, <4>1
    <3> QED BY <1>1, <1>2, <1>6, <3>1, Zenon DEF Stores
  <2> QED BY <1>1, <1>5, <1>6, <2>5, <2>6, <2>7, InvFolds, Zenon
<1>7. CASE /\ backend' = [backend EXCEPT ![active].prepared = @ \cup {kept}]
           /\ apply' = [IdleApply(active) EXCEPT
                          !.at = "commits", !.id = id, !.gen = gen, !.before = disk[active].body]
  <2>1. (switch # {}) \in BOOLEAN /\ disk[active].body \in Bodies
    <3>1. (switch # {}) \in BOOLEAN
      BY Zenon
    <3> QED BY <3>1, <1>3, Zenon DEF Files
  <2>2. idle \in Applies /\ idle.outcome = "none" /\ idle.of = active /\ idle.kernel = active
    <3>1. idle \in Applies /\ idle.outcome = "none"
      BY <1>3, <2>1, IdleSound, Zenon
    <3> QED BY <3>1, Zenon
  <2>3. apply' = [idle EXCEPT !.at = "commits", !.id = id, !.gen = gen, !.before = disk[active].body]
    BY <1>7, Zenon DEF IdleApply
  <2> HIDE DEF idle
  <2>4. /\ apply' \in Applies
        /\ apply'.at = "commits" /\ apply'.outcome = idle.outcome /\ apply'.id = id /\ apply'.gen = gen
        /\ apply'.of = idle.of /\ apply'.kernel = idle.kernel /\ apply'.before = disk[active].body
    <3> HIDE DEF id, gen
    <3>1. HasCandidate(apply', idle, id, gen, disk[active].body)
      BY <1>2, <1>4, <2>1, <2>2, <2>3, CommitsSound, Zenon
    <3> QED BY <3>1, Zenon DEF HasCandidate
  <2>5. apply'.outcome = "none" /\ apply'.of = active /\ apply'.kernel = active
    BY <2>2, <2>4, Zenon
  <2>6. Actor(apply', used')
    BY <1>2, <1>4, <2>4, <2>5, Zenon DEF Actor
  <2>7. P \in SUBSET [id : 1..MaxApplies, gen : Gens, body : Bodies]
    BY <1>2, <1>3, <1>4 DEF Backends
  <2>8. b \in Backends /\ b.generation = backend[active].generation
        /\ b.history = backend[active].history /\ b.prepared = P
    BY <1>3, <2>7, Zenon DEF Backends
  <2>9. b.torn = backend[active].torn
    BY <1>3, Zenon DEF Backends
  <2>10. backend' = [backend EXCEPT ![active] = b]
    BY <1>3, <1>7, Zenon
  <2> HIDE DEF b
  <2>11. /\ backend' \in [Kernels -> Backends] /\ backend'[active] = b
         /\ \A j \in Kernels \ {active} : backend'[j] = backend[j]
    BY <1>3, <2>8, <2>10, BackendMoves, Zenon
  <2>12. FilesAgree(disk', backend')
    <3>1. BackendSound(b) /\ Serves(b, disk[active].body)
      BY <1>1, <1>3, <2>8, <2>9, Zenon DEF FilesAgree, BackendSound, Serves
    <3>2. ASSUME NEW k \in Kernels PROVE BackendSound(backend'[k]) /\ Serves(backend'[k], disk[k].body)
      BY <1>1, <2>11, <3>1, Zenon DEF FilesAgree
    <3> QED BY <3>2, Zenon DEF FilesAgree
  <2>13. Stores(disk', backend', running', used')
    <3>1. ASSUME NEW k \in Kernels
          PROVE  backend'[k].generation <= id /\ \A p \in backend'[k].prepared : p.id <= id
      <4>1. /\ backend[k].generation <= used.applies /\ backend[k].generation \in Nat
            /\ \A p \in backend[k].prepared : p.id <= used.applies /\ p.id \in Nat
        BY <1>1, <1>3, GensAreNatural DEF Stores, Backends
      <4>2. \A p \in P : p.id <= id
        BY <1>1, <1>2, <1>3 DEF Stores, Backends
      <4>3. CASE k = active
        BY <1>2, <2>8, <2>11, <4>1, <4>2, <4>3
      <4>4. CASE k # active
        BY <1>2, <2>11, <4>1, <4>4
      <4> QED BY <4>3, <4>4, Zenon
    <3> QED BY <1>1, <1>2, <2>11, <3>1, Zenon DEF Stores
  <2>14. LoadedIsPublished' /\ RollbackUndoes'
    BY <2>4, <2>5, Zenon DEF LoadedIsPublished, RollbackUndoes
  <2>15. ASSUME NEW k \in Kernels \ {active}, NEW p \in backend'[k].prepared PROVE p.id # id
    BY <1>1, <1>2, <1>3, <2>11 DEF Stores, Backends
  <2>16. ApplyKnows'
    BY <1>2, <2>4, <2>5, <2>8, <2>11, <2>15, ZenonT(60) DEF ApplyKnows
  <2> QED BY <1>1, <1>5, <2>6, <2>12, <2>13, <2>14, <2>16, InvFolds, Zenon DEF Sure
<1> QED BY <1>6, <1>7, Zenon

-----------------------------------------------------------------------------
(* A file is staged beside the kernel's. *)

Temps == [what : {"tmp", "rollback"}, gen : Gens]

\* Only the temporaries beside a file change.
LEMMA TempsMove ==
    ASSUME disk \in [Kernels -> Files], NEW k \in Kernels, NEW T \in SUBSET Temps,
           disk' = [disk EXCEPT ![k].temps = T]
    PROVE  disk' \in [Kernels -> Files] /\ \A j \in Kernels : disk'[j].body = disk[j].body
<1> DEFINE f == [disk[k] EXCEPT !.temps = T]
<1>1. f \in Files /\ f.body = disk[k].body
  BY Zenon DEF Files, Temps
<1>2. disk' = [disk EXCEPT ![k] = f]
  BY Zenon
<1> HIDE DEF f
<1>3. disk'[k] = f /\ \A j \in Kernels \ {k} : disk'[j] = disk[j]
  BY <1>2, Zenon
<1> QED BY <1>1, <1>2, <1>3, Zenon

LEMMA StageKeeps ==
    ASSUME ConfigFilesInv, Forgets(backend, backend'), UNCHANGED <<running, used>>,
           disk' \in [Kernels -> Files], \A k \in Kernels : disk'[k].body = disk[k].body
    PROVE  Stores(disk', backend', running', used') /\ FilesAgree(disk', backend')
<1>1. Stores(disk, backend, running, used) /\ FilesAgree(disk, backend)
  BY InvFolds, Zenon
<1>2. Stores(disk', backend', running', used')
  BY <1>1, Zenon DEF Stores, Forgets
<1>3. FilesAgree(disk', backend')
  BY <1>1, Zenon DEF FilesAgree, BackendSound, Serves, Forgets
<1> QED BY <1>2, <1>3, Zenon

LEMMA CommitStagesKeeps ==
    ASSUME ConfigFilesInv, CommitStages
    PROVE  ConfigFilesInv'
<1>1. Actor(apply, used) /\ Sure /\ Cells(active, switch, used) /\ Stores(disk, backend, running, used)
      /\ AtMostOne(running)
  BY InvFolds, Zenon
<1>2. /\ apply.at = "commits" /\ UNCHANGED <<active, running, switch, used>>
      /\ backend' = [backend EXCEPT ![active].prepared = Kept]
  BY Zenon DEF CommitStages
<1>3. PICK p \in Candidate :
        \/ UNCHANGED disk /\ apply' = [apply EXCEPT !.at = "discards"]
        \/ /\ disk' = [disk EXCEPT ![active].temps = @ \cup {PublishTemp(apply.gen)}]
           /\ apply' = [apply EXCEPT !.at = "publishes", !.body = p.body]
  BY Zenon DEF CommitStages
<1>4. p.body \in Bodies /\ p \in backend[active].prepared /\ p.id = apply.id
  BY <1>1, <1>3 DEF Candidate, Cells, Stores, Backends
<1>5. active = apply.of
  BY <1>1, <1>2, <1>4, Zenon DEF Sure, ApplyKnows, Cells
<1>6. Forgets(backend, backend')
  BY <1>2, KeptForgets, Zenon
<1>7. backend'[apply.of].generation = backend[apply.of].generation
  BY <1>1, <1>5, <1>6, Zenon DEF Forgets, Cells
<1>8. CASE UNCHANGED disk /\ apply' = [apply EXCEPT !.at = "discards"]
  <2>1. Actor(apply', used')
    BY <1>1, <1>2, <1>8, Zenon DEF Actor, Applies
  <2>2. LoadedIsPublished' /\ RollbackUndoes'
    BY <1>1, <1>2, <1>8, Zenon DEF Sure, LoadedIsPublished, RollbackUndoes, ApplyKnows, Actor, Applies
  <2>3. ApplyKnows'
    BY <1>1, <1>2, <1>8, Zenon DEF Sure, ApplyKnows, Actor, Applies
  <2> QED BY <1>1, <1>2, <1>6, <1>8, <2>1, <2>2, <2>3, ForgetKeeps, InvFolds, Zenon DEF Sure
<1>9. CASE /\ disk' = [disk EXCEPT ![active].temps = @ \cup {PublishTemp(apply.gen)}]
           /\ apply' = [apply EXCEPT !.at = "publishes", !.body = p.body]
  <2> DEFINE T == disk[active].temps \cup {PublishTemp(apply.gen)}
  <2>1. T \in SUBSET Temps
    BY <1>1 DEF Actor, Applies, PublishTemp, Temps, Cells, Stores, Files
  <2>2. disk' = [disk EXCEPT ![active].temps = T]
    BY <1>9, Zenon
  <2> HIDE DEF T
  <2>3. disk' \in [Kernels -> Files] /\ \A j \in Kernels : disk'[j].body = disk[j].body
    BY <1>1, <2>1, <2>2, TempsMove, Zenon DEF Stores, Cells
  <2>4. Stores(disk', backend', running', used') /\ FilesAgree(disk', backend')
    BY <1>2, <1>6, <2>3, StageKeeps, Zenon
  <2>5. Actor(apply', used')
    BY <1>1, <1>2, <1>4, <1>9, Zenon DEF Actor, Applies
  <2>6. apply'.at = "publishes" /\ apply'.outcome = apply.outcome /\ apply'.id = apply.id
        /\ apply'.kernel = apply.kernel /\ apply'.of = apply.of /\ apply'.gen = apply.gen
        /\ apply'.before = apply.before
    BY <1>1, <1>9, Zenon DEF Actor, Applies
  <2>7. LoadedIsPublished' /\ RollbackUndoes'
    BY <1>1, <1>2, <2>6, Zenon DEF Sure, LoadedIsPublished, RollbackUndoes, ApplyKnows
  <2>8. apply.of \in Kernels
    BY <1>1, Zenon DEF Actor, Applies
  <2>9. ApplyKnows'
    BY <1>1, <1>2, <1>5, <1>7, <2>3, <2>6, <2>8, Zenon DEF Sure, ApplyKnows
  <2> QED BY <1>1, <1>2, <2>4, <2>5, <2>7, <2>9, InvFolds, Zenon DEF Sure
<1> QED BY <1>3, <1>8, <1>9, Zenon

LEMMA RollbackStagesKeeps ==
    ASSUME ConfigFilesInv, RollbackStages
    PROVE  ConfigFilesInv'
<1> DEFINE temp == RollbackTemp(Latest(Older(active)).gen)
<1>1. Actor(apply, used) /\ Sure /\ Cells(active, switch, used) /\ Stores(disk, backend, running, used)
      /\ AtMostOne(running) /\ FilesAgree(disk, backend)
  BY InvFolds, Zenon
<1>2. /\ apply.at = "rolls" /\ UNCHANGED <<active, backend, running, switch, used>>
      /\ backend[active].generation = apply.gen /\ Older(active) # {}
  BY Zenon DEF RollbackStages
<1>3. \/ UNCHANGED disk /\ apply' = [apply EXCEPT !.at = "idle", !.outcome = "failed"]
      \/ /\ disk' = [disk EXCEPT ![active].temps = @ \cup {temp}]
         /\ apply' = [apply EXCEPT !.at = "restores", !.kernel = active]
  BY Zenon DEF RollbackStages, Ends
<1>4. CASE UNCHANGED disk /\ apply' = [apply EXCEPT !.at = "idle", !.outcome = "failed"]
  <2>1. Actor(apply', used')
    BY <1>1, <1>2, <1>4, Zenon DEF Actor, Applies
  <2>2. LoadedIsPublished' /\ RollbackUndoes'
    BY <1>1, <1>2, <1>4, Zenon DEF LoadedIsPublished, RollbackUndoes, Actor, Applies
  <2>3. ApplyKnows'
    BY <1>1, <1>2, <1>4, Zenon DEF ApplyKnows, Actor, Applies
  <2> QED BY <1>1, <1>2, <1>4, <2>1, <2>2, <2>3, InvFolds, Zenon DEF Sure
<1>5. CASE /\ disk' = [disk EXCEPT ![active].temps = @ \cup {temp}]
           /\ apply' = [apply EXCEPT !.at = "restores", !.kernel = active]
  <2> DEFINE T == disk[active].temps \cup {temp}
  <2>1. Latest(Older(active)) \in Remembered
    <3>1. Older(active) \subseteq Remembered /\ \A g, h \in Older(active) : g.gen = h.gen => g = h
      BY <1>1, Zenon DEF Cells, Stores, FilesAgree, BackendSound, Remembers, Backends, Older, Remembered
    <3> QED BY <1>2, <3>1, LatestOf, Zenon
  <2>2. T \in SUBSET Temps
    BY <1>1, <2>1 DEF RollbackTemp, Temps, Cells, Stores, Files, Remembered
  <2>3. disk' = [disk EXCEPT ![active].temps = T]
    BY <1>5, Zenon
  <2> HIDE DEF T
  <2>4. disk' \in [Kernels -> Files] /\ \A j \in Kernels : disk'[j].body = disk[j].body
    BY <1>1, <2>2, <2>3, TempsMove, Zenon DEF Stores, Cells
  <2>5. Stores(disk', backend', running', used') /\ FilesAgree(disk', backend')
    <3>1. Forgets(backend, backend')
      BY <1>1, <1>2, Zenon DEF Forgets, Stores
    <3> QED BY <1>2, <2>4, <3>1, StageKeeps, Zenon
  <2>6. Actor(apply', used')
    BY <1>1, <1>2, <1>5, Zenon DEF Actor, Applies, Cells
  <2>7. apply'.at = "restores" /\ apply'.outcome = apply.outcome /\ apply'.id = apply.id
        /\ apply'.kernel = active /\ apply'.of = apply.of /\ apply'.gen = apply.gen
        /\ apply'.before = apply.before
    BY <1>1, <1>5, Zenon DEF Actor, Applies
  <2>8. apply'.disturbed = apply.disturbed
    BY <1>1, <1>5, Zenon DEF Actor, Applies
  <2>9. LoadedIsPublished' /\ RollbackUndoes'
    BY <1>1, <1>2, <2>7, Zenon DEF Sure, LoadedIsPublished, RollbackUndoes, ApplyKnows
  <2>10. apply.of \in Kernels
    BY <1>1, Zenon DEF Actor, Applies
  <2>11. Older(apply.kernel)' = Older(active)
    BY <1>2, <2>7, Zenon DEF Older
  <2>12. ApplyKnows'
    BY <1>1, <1>2, <2>4, <2>7, <2>8, <2>10, <2>11, Zenon DEF Sure, ApplyKnows
  <2> QED BY <1>1, <1>2, <2>5, <2>6, <2>9, <2>12, InvFolds, Zenon DEF Sure
<1> QED BY <1>3, <1>4, <1>5, Zenon

-----------------------------------------------------------------------------
(* A staged file takes the place of the kernel's. *)

\* The file and the backend of one kernel move together.
Moved(k, f, b) ==
    /\ Stores(disk', backend', running', used') /\ FilesAgree(disk', backend')
    /\ disk'[k] = f /\ backend'[k] = b

LEMMA PairMoves ==
    ASSUME ConfigFilesInv, NEW k \in Kernels, NEW f \in Files, NEW b \in Backends,
           disk' = [disk EXCEPT ![k] = f], backend' = [backend EXCEPT ![k] = b],
           UNCHANGED <<running, used>>,
           b.generation <= used.applies, b.prepared \subseteq backend[k].prepared,
           BackendSound(b), Serves(b, f.body)
    PROVE  Moved(k, f, b)
<1>1. Stores(disk, backend, running, used) /\ FilesAgree(disk, backend)
  BY InvFolds, Zenon
<1>2. disk \in [Kernels -> Files] /\ backend \in [Kernels -> Backends]
  BY <1>1, Zenon DEF Stores
<1>3. /\ disk' \in [Kernels -> Files] /\ disk'[k] = f
      /\ \A j \in Kernels \ {k} : disk'[j] = disk[j]
  BY <1>2, Zenon
<1>4. /\ backend' \in [Kernels -> Backends] /\ backend'[k] = b
      /\ \A j \in Kernels \ {k} : backend'[j] = backend[j]
  BY <1>2, BackendMoves, Zenon
<1>5. Stores(disk', backend', running', used')
  BY <1>1, <1>3, <1>4, Zenon DEF Stores
<1>6. FilesAgree(disk', backend')
  <2>1. ASSUME NEW j \in Kernels PROVE BackendSound(backend'[j]) /\ Serves(backend'[j], disk'[j].body)
    BY <1>1, <1>3, <1>4, Zenon DEF FilesAgree
  <2> QED BY <2>1, Zenon DEF FilesAgree
<1> QED BY <1>3, <1>4, <1>5, <1>6, Zenon DEF Moved

\* A publication torn after its rename: the backend no longer answers for the
\* file, and remembers what it did.
LEMMA TornMoves ==
    ASSUME ConfigFilesInv, NEW k \in Kernels, NEW f \in Files,
           disk' = [disk EXCEPT ![k] = f], backend' = [backend EXCEPT ![k].torn = TRUE],
           UNCHANGED <<running, used>>
    PROVE  Stores(disk', backend', running', used') /\ FilesAgree(disk', backend')
<1> DEFINE b == [backend[k] EXCEPT !.torn = TRUE]
<1>1. Stores(disk, backend, running, used) /\ FilesAgree(disk, backend)
  BY InvFolds, Zenon
<1>2. backend[k] \in Backends /\ BackendSound(backend[k])
  BY <1>1, Zenon DEF Stores, FilesAgree
<1>3. b \in Backends /\ b.generation = backend[k].generation /\ b.history = backend[k].history
      /\ b.prepared = backend[k].prepared
  BY <1>2, Zenon DEF Backends
<1>4. b.torn
  BY <1>2, Zenon DEF Backends
<1>5. backend' = [backend EXCEPT ![k] = b]
  BY Zenon
<1> HIDE DEF b
<1>6. BackendSound(b) /\ Serves(b, f.body)
  BY <1>2, <1>3, <1>4, Zenon DEF BackendSound, Serves
<1>7. b.generation <= used.applies /\ b.prepared \subseteq backend[k].prepared
  BY <1>1, <1>3, Zenon DEF Stores
<1>8. Moved(k, f, b)
  BY <1>3, <1>5, <1>6, <1>7, PairMoves, Zenon
<1> QED BY <1>8, Zenon DEF Moved

\* An apply gives up before its end and has a candidate to discard.
LEMMA DiscardsKeeps ==
    ASSUME ConfigFilesInv, apply.at # "idle", UNCHANGED <<active, used>>,
           apply' = [apply EXCEPT !.at = "discards"]
    PROVE  Actor(apply', used') /\ Sure'
<1>1. Actor(apply, used) /\ Sure
  BY InvFolds, Zenon
<1>2. Actor(apply', used')
  BY <1>1, Zenon DEF Actor, Applies
<1>3. LoadedIsPublished' /\ RollbackUndoes'
  BY <1>1, Zenon DEF Sure, LoadedIsPublished, RollbackUndoes, ApplyKnows, Actor, Applies
<1>4. ApplyKnows'
  BY <1>1, Zenon DEF Sure, ApplyKnows, Actor, Applies
<1> QED BY <1>2, <1>3, <1>4, Zenon DEF Sure

\* The generation before a candidate is remembered with the file it replaces.
LEMMA PreviousIsRemembered ==
    ASSUME ConfigFilesInv, apply.at = "publishes", apply.gen > 1, ~backend[apply.of].torn
    PROVE  [gen |-> apply.gen - 1, body |-> apply.before] \in backend[apply.of].history
<1> DEFINE b == backend[apply.of]
           H == b.history
<1>1. Actor(apply, used) /\ Sure /\ Stores(disk, backend, running, used) /\ FilesAgree(disk, backend)
  BY InvFolds, Zenon
<1>2. apply.of \in Kernels /\ apply.gen \in Nat
  BY <1>1, GensAreNatural, Zenon DEF Actor, Applies
<1>3. H \subseteq Remembered /\ b.generation \in Nat /\ Remembers(H, b.generation)
  BY <1>1, <1>2, GensAreNatural, Zenon DEF Stores, Backends, Remembered, FilesAgree, BackendSound
<1>4. apply.gen = b.generation + 1 /\ apply.before = disk[apply.of].body
  BY <1>1, Zenon DEF Sure, ApplyKnows
<1>5. b.generation # 0 /\ b.generation = apply.gen - 1
  BY <1>2, <1>3, <1>4
<1>6. Latest(H).gen = b.generation /\ Latest(H).body = disk[apply.of].body
  BY <1>1, <1>2, <1>5, Zenon DEF FilesAgree, Serves
<1>7. Latest(H) \in H
  BY <1>3, <1>5, LatestOf, Zenon DEF Remembers
<1> HIDE DEF b
<1>8. Latest(H) = [gen |-> apply.gen - 1, body |-> apply.before]
  <2>1. Latest(H) \in Remembered
    BY <1>3, <1>7, Zenon
  <2> QED BY <2>1, <1>4, <1>5, <1>6, Zenon DEF Remembered
<1> QED BY <1>7, <1>8, Zenon DEF b

LEMMA CommitPublishesKeeps ==
    ASSUME ConfigFilesInv, CommitPublishes
    PROVE  ConfigFilesInv'
<1> DEFINE k == apply.kernel
           unstaged == disk[k].temps \ {PublishTemp(apply.gen)}
           f == [body |-> apply.body, temps |-> unstaged]
           R == Recorded(backend[k].history, apply.gen, apply.body)
           b == [backend[k] EXCEPT !.history = R, !.generation = apply.gen]
<1>1. Actor(apply, used) /\ Sure /\ Cells(active, switch, used) /\ Stores(disk, backend, running, used)
      /\ AtMostOne(running) /\ FilesAgree(disk, backend)
  BY InvFolds, Zenon
<1>2. apply.at = "publishes" /\ UNCHANGED <<active, running, switch, used>>
  BY Zenon DEF CommitPublishes
<1>3. \/ /\ disk' = [disk EXCEPT ![k] = f]
         /\ backend' = [backend EXCEPT ![k] = b]
         /\ apply' = [apply EXCEPT !.at = "reloads"]
      \/ /\ disk' = [disk EXCEPT ![k].temps = unstaged]
         /\ apply' = [apply EXCEPT !.at = "discards"]
         /\ UNCHANGED backend
      \/ /\ disk' = [disk EXCEPT ![k] = f]
         /\ apply' = [apply EXCEPT !.at = "discards"]
         /\ backend' = [backend EXCEPT ![k].torn = TRUE]
  BY Zenon DEF CommitPublishes
<1>4. k \in Kernels /\ k = apply.of /\ apply.gen \in Gens /\ apply.body \in Bodies
  BY <1>1, <1>2, Zenon DEF Actor, Applies, Sure, ApplyKnows
<1>5. backend[k] \in Backends /\ disk[k] \in Files
  BY <1>1, <1>4, Zenon DEF Stores
<1>6. unstaged \in SUBSET Temps /\ f \in Files /\ f.body = apply.body
  BY <1>4, <1>5, Zenon DEF Files, Temps
<1>7. Cells(active', switch', used') /\ AtMostOne(running')
  BY <1>1, <1>2, Zenon
<1>8. CASE /\ disk' = [disk EXCEPT ![k] = f]
           /\ backend' = [backend EXCEPT ![k] = b]
           /\ apply' = [apply EXCEPT !.at = "reloads"]
  <2>1. RecordKeeps(backend[k].history, apply.gen, apply.body)
    <3>1. apply.gen = backend[k].generation + 1
      BY <1>1, <1>2, <1>4, Zenon DEF Sure, ApplyKnows
    <3>2. backend[k].history \subseteq Remembered /\ backend[k].generation \in Gens
      BY <1>5, Zenon DEF Backends, Remembered
    <3>3. Remembers(backend[k].history, backend[k].generation)
      BY <1>1, <1>4, Zenon DEF FilesAgree, BackendSound
    <3> QED BY <1>4, <3>1, <3>2, <3>3, RecordedSound, Zenon
  <2>2. /\ R \subseteq Remembered /\ Remembers(R, apply.gen)
        /\ Latest(R).gen = apply.gen /\ Latest(R).body = apply.body
        /\ [gen |-> apply.gen, body |-> apply.body] \in R
        /\ \A h \in backend[k].history : h.gen + 1 = apply.gen => h \in R
    BY <2>1, Zenon DEF RecordKeeps
  <2> HIDE DEF R, f
  <2>3. b \in Backends /\ b.generation = apply.gen /\ b.history = R
        /\ b.prepared = backend[k].prepared
    BY <1>4, <1>5, <2>2, Zenon DEF Backends, Remembered
  <2>4. b.torn = backend[k].torn
    BY <1>5, Zenon DEF Backends
  <2> HIDE DEF b
  <2>5. BackendSound(b) /\ Serves(b, f.body)
    BY <1>6, <2>2, <2>3, Zenon DEF BackendSound, Serves
  <2>6. b.generation <= used.applies /\ b.prepared \subseteq backend[k].prepared
    BY <1>1, <2>3, Zenon DEF Actor
  <2>7. Moved(k, f, b)
    BY <1>2, <1>4, <1>6, <1>8, <2>3, <2>5, <2>6, PairMoves, Zenon
  <2>8. Actor(apply', used')
    BY <1>1, <1>2, <1>8, Zenon DEF Actor, Applies
  <2>9. apply'.at = "reloads" /\ apply'.outcome = apply.outcome /\ apply'.id = apply.id
        /\ apply'.kernel = apply.kernel /\ apply'.of = apply.of /\ apply'.gen = apply.gen
        /\ apply'.before = apply.before
    BY <1>1, <1>8, Zenon DEF Actor, Applies
  <2>10. apply'.disturbed = apply.disturbed
    BY <1>1, <1>8, Zenon DEF Actor, Applies
  <2>11. LoadedIsPublished' /\ RollbackUndoes'
    BY <1>1, <1>2, <2>9, Zenon DEF Sure, LoadedIsPublished, RollbackUndoes, ApplyKnows
  <2>12. apply.gen > 1 /\ ~backend'[k].torn => [gen |-> apply.gen - 1, body |-> apply.before] \in R
    <3>1. SUFFICES ASSUME apply.gen > 1, ~backend[k].torn
                   PROVE  [gen |-> apply.gen - 1, body |-> apply.before] \in R
      BY <2>4, <2>7, Zenon DEF Moved
    <3> DEFINE e == [gen |-> apply.gen - 1, body |-> apply.before]
    <3>2. e \in backend[k].history
      BY <1>2, <1>4, <3>1, PreviousIsRemembered, Zenon
    <3>3. e.gen + 1 = apply.gen
      <4>1. apply.gen \in Nat
        BY <1>4, GensAreNatural, Zenon
      <4> QED BY <4>1
    <3> QED BY <2>2, <3>2, <3>3, Zenon
  <2>13. [gen |-> apply.gen, body |-> disk'[k].body] \in backend'[k].history
         /\ backend'[k].generation = apply.gen /\ backend'[k].history = R
    BY <1>6, <2>2, <2>3, <2>7, Zenon DEF Moved
  <2>14. ApplyKnows'
    BY <1>1, <1>2, <1>4, <2>9, <2>10, <2>12, <2>13, Zenon DEF Sure, ApplyKnows
  <2> QED BY <1>7, <2>7, <2>8, <2>11, <2>14, InvFolds, Zenon DEF Sure, Moved
<1>9. CASE /\ disk' = [disk EXCEPT ![k].temps = unstaged]
           /\ apply' = [apply EXCEPT !.at = "discards"]
           /\ UNCHANGED backend
  <2>1. disk' \in [Kernels -> Files] /\ \A j \in Kernels : disk'[j].body = disk[j].body
    BY <1>1, <1>4, <1>6, <1>9, TempsMove, Zenon DEF Stores
  <2>2. Forgets(backend, backend')
    BY <1>1, <1>9, Zenon DEF Forgets, Stores
  <2>3. Stores(disk', backend', running', used') /\ FilesAgree(disk', backend')
    BY <1>2, <2>1, <2>2, StageKeeps, Zenon
  <2>4. Actor(apply', used') /\ Sure'
    BY <1>2, <1>9, DiscardsKeeps, Zenon
  <2> QED BY <1>7, <2>3, <2>4, InvFolds, Zenon
<1>10. CASE /\ disk' = [disk EXCEPT ![k] = f]
            /\ apply' = [apply EXCEPT !.at = "discards"]
            /\ backend' = [backend EXCEPT ![k].torn = TRUE]
  <2> HIDE DEF f
  <2>1. Stores(disk', backend', running', used') /\ FilesAgree(disk', backend')
    BY <1>2, <1>4, <1>6, <1>10, TornMoves, Zenon
  <2>2. Actor(apply', used') /\ Sure'
    BY <1>2, <1>10, DiscardsKeeps, Zenon
  <2> QED BY <1>7, <2>1, <2>2, InvFolds, Zenon
<1> QED BY <1>3, <1>8, <1>9, <1>10, Zenon

LEMMA RollbackRestoresKeeps ==
    ASSUME ConfigFilesInv, RollbackRestores
    PROVE  ConfigFilesInv'
<1> DEFINE k == apply.kernel
           H == backend[k].history
           older == Latest(Older(k))
           unstaged == disk[k].temps \ {RollbackTemp(older.gen)}
           f == [body |-> older.body, temps |-> unstaged]
           R == {h \in H : h.gen # apply.gen}
           b == [backend[k] EXCEPT !.generation = older.gen, !.history = R]
           Done(outcome) == apply' = [apply EXCEPT !.at = "idle", !.outcome = outcome]
<1>1. Actor(apply, used) /\ Sure /\ Cells(active, switch, used) /\ Stores(disk, backend, running, used)
      /\ AtMostOne(running) /\ FilesAgree(disk, backend)
  BY InvFolds, Zenon
<1>2. apply.at = "restores" /\ UNCHANGED <<active, running, switch, used>>
  BY Zenon DEF RollbackRestores
<1>3. \/ /\ disk' = [disk EXCEPT ![k] = f]
         /\ backend' = [backend EXCEPT ![k] = b]
         /\ Done("restored")
      \/ /\ disk' = [disk EXCEPT ![k].temps = unstaged]
         /\ Done("failed")
         /\ UNCHANGED backend
      \/ /\ disk' = [disk EXCEPT ![k] = f]
         /\ Done("failed")
         /\ backend' = [backend EXCEPT ![k].torn = TRUE]
  BY Zenon DEF RollbackRestores, Ends
<1>4. k \in Kernels /\ apply.gen \in Gens /\ backend[k].generation = apply.gen /\ Older(k) # {}
  BY <1>1, <1>2, Zenon DEF Actor, Applies, Sure, ApplyKnows
<1>5. backend[k] \in Backends /\ disk[k] \in Files
  BY <1>1, <1>4, Zenon DEF Stores
<1>6. DropKeeps(H, apply.gen)
  <2>1. H \subseteq Remembered
    BY <1>5, Zenon DEF Backends, Remembered
  <2>2. Remembers(H, apply.gen)
    BY <1>1, <1>4, Zenon DEF FilesAgree, BackendSound
  <2>3. {h \in H : h.gen < apply.gen} # {}
    BY <1>4, Zenon DEF Older
  <2> QED BY <1>4, <2>1, <2>2, <2>3, DroppedSound, Zenon
<1>7. /\ R \subseteq Remembered /\ older \in Remembered /\ older.gen < apply.gen
      /\ Remembers(R, older.gen) /\ Latest(R) = older
      /\ \A h \in H : h.gen + 1 = apply.gen => older = h
  BY <1>6, Zenon DEF DropKeeps, Older
<1> HIDE DEF older
<1>8. older.gen \in Gens /\ older.body \in Bodies
  BY <1>7, Zenon DEF Remembered
<1>9. unstaged \in SUBSET Temps /\ f \in Files /\ f.body = older.body
  BY <1>5, <1>8, Zenon DEF Files, Temps
<1>10. Cells(active', switch', used') /\ AtMostOne(running')
  BY <1>1, <1>2, Zenon
<1>11. ASSUME NEW outcome \in {"restored", "failed"}, Done(outcome)
       PROVE  /\ Actor(apply', used') /\ LoadedIsPublished' /\ ApplyKnows'
              /\ apply'.outcome = outcome /\ apply'.gen = apply.gen /\ apply'.of = apply.of
              /\ apply'.before = apply.before
  <2>1. /\ Actor(apply', used') /\ apply'.at = "idle"
        /\ apply'.outcome = outcome /\ apply'.gen = apply.gen /\ apply'.of = apply.of
        /\ apply'.before = apply.before
    BY <1>1, <1>2, <1>11, Zenon DEF Actor, Applies
  <2> QED BY <2>1, Zenon DEF LoadedIsPublished, ApplyKnows
<1>12. CASE /\ disk' = [disk EXCEPT ![k] = f]
            /\ backend' = [backend EXCEPT ![k] = b]
            /\ Done("restored")
  <2> HIDE DEF f, R
  <2>1. b \in Backends /\ b.generation = older.gen /\ b.history = R /\ b.prepared = backend[k].prepared
    BY <1>5, <1>7, <1>8, Zenon DEF Backends, Remembered
  <2>2. b.torn = backend[k].torn
    BY <1>5, Zenon DEF Backends
  <2> HIDE DEF b
  <2>3. BackendSound(b) /\ Serves(b, f.body)
    BY <1>7, <1>9, <2>1, Zenon DEF BackendSound, Serves
  <2>4. b.generation <= used.applies
    <3>1. older.gen < apply.gen /\ apply.gen <= used.applies /\ older.gen \in Nat /\ apply.gen \in Nat
      BY <1>1, <1>4, <1>7, <1>8, GensAreNatural, Zenon DEF Actor
    <3>2. used.applies \in Nat
      BY <1>1, GensAreNatural DEF Cells, Spent
    <3> QED BY <2>1, <3>1, <3>2
  <2>5. Moved(k, f, b)
    BY <1>2, <1>4, <1>9, <1>12, <2>1, <2>3, <2>4, PairMoves, Zenon
  <2>6. apply'.disturbed = apply.disturbed
    BY <1>1, <1>12, Zenon DEF Actor, Applies
  <2>7. RollbackUndoes'
    <3>1. SUFFICES ASSUME apply.gen > 1, ~apply.disturbed, ~backend'[apply.of].torn
                   PROVE  disk'[apply.of].body = apply.before
      BY <1>11, <1>12, <2>6, Zenon DEF RollbackUndoes
    <3>2. k = apply.of
      BY <1>1, <1>2, <3>1, Zenon DEF Sure, ApplyKnows
    <3>3. ~backend[apply.of].torn
      BY <2>2, <2>5, <3>1, <3>2, Zenon DEF Moved
    <3> DEFINE e == [gen |-> apply.gen - 1, body |-> apply.before]
    <3>4. e \in H
      BY <1>1, <1>2, <3>1, <3>2, <3>3, Zenon DEF Sure, ApplyKnows
    <3>5. e.gen + 1 = apply.gen /\ e.body = apply.before
      <4>1. apply.gen \in Nat
        BY <1>4, GensAreNatural, Zenon
      <4> QED BY <4>1
    <3>6. older = e
      BY <1>7, <3>4, <3>5, Zenon
    <3> QED BY <1>9, <2>5, <3>2, <3>5, <3>6, Zenon DEF Moved
  <2> QED BY <1>10, <1>11, <1>12, <2>5, <2>7, InvFolds, Zenon DEF Sure, Moved
<1>13. ASSUME Done("failed") PROVE Actor(apply', used') /\ Sure'
  BY <1>11, <1>13, Zenon DEF Sure, RollbackUndoes
<1>14. CASE /\ disk' = [disk EXCEPT ![k].temps = unstaged]
            /\ Done("failed")
            /\ UNCHANGED backend
  <2>1. disk' \in [Kernels -> Files] /\ \A j \in Kernels : disk'[j].body = disk[j].body
    BY <1>1, <1>4, <1>9, <1>14, TempsMove, Zenon DEF Stores
  <2>2. Forgets(backend, backend')
    BY <1>1, <1>14, Zenon DEF Forgets, Stores
  <2>3. Stores(disk', backend', running', used') /\ FilesAgree(disk', backend')
    BY <1>2, <2>1, <2>2, StageKeeps, Zenon
  <2> QED BY <1>10, <1>13, <1>14, <2>3, InvFolds, Zenon
<1>15. CASE /\ disk' = [disk EXCEPT ![k] = f]
            /\ Done("failed")
            /\ backend' = [backend EXCEPT ![k].torn = TRUE]
  <2> HIDE DEF f
  <2>1. Stores(disk', backend', running', used') /\ FilesAgree(disk', backend')
    BY <1>2, <1>4, <1>9, <1>15, TornMoves, Zenon
  <2> QED BY <1>10, <1>13, <1>15, <2>1, InvFolds, Zenon
<1> QED BY <1>3, <1>12, <1>14, <1>15, Zenon

-----------------------------------------------------------------------------
(* The invariant holds in every reachable state. *)

LEMMA ConfigInitHolds ==
    ASSUME ConfigInit
    PROVE  ConfigFilesInv
<1> USE DEF ConfigInit
<1>1. used \in Spent /\ used.applies = 0
  BY ConfigBounds DEF Spent
<1>2. Cells(active, switch, used)
  BY <1>1, Zenon DEF Cells
<1>3. backend \in [Kernels -> Backends] /\ FilesAgree(disk, backend)
      /\ \A k \in Kernels : backend[k].generation = 0 /\ backend[k].prepared = {}
  BY <1>1, FreshBackends, Zenon
<1>4. disk \in [Kernels -> Files]
  BY ConfigBounds, Zenon DEF Files
<1>5. running \in [Kernels -> SUBSET Bodies] /\ AtMostOne(running)
  BY ConfigBounds, Zenon DEF AtMostOne
<1>6. Stores(disk, backend, running, used)
  <2>1. ASSUME NEW k \in Kernels
        PROVE  backend[k].generation <= used.applies /\ \A p \in backend[k].prepared : p.id <= used.applies
    <3>1. backend[k].generation = 0 /\ backend[k].prepared = {}
      BY <1>3, Zenon
    <3> QED BY <1>1, <3>1
  <2> QED BY <1>3, <1>4, <1>5, <2>1, Zenon DEF Stores
<1>7. apply \in Applies /\ apply.at = "idle" /\ apply.outcome = "none" /\ apply.gen = 0
  <2>1. (switch # {}) \in BOOLEAN
    BY Zenon
  <2> QED BY <2>1, IdleSound, Zenon DEF IdleApply
<1>8. Actor(apply, used)
  BY <1>1, <1>7 DEF Actor
<1>9. Sure
  BY <1>7, Zenon DEF Sure, LoadedIsPublished, RollbackUndoes, ApplyKnows
<1> QED BY <1>2, <1>3, <1>5, <1>6, <1>8, <1>9, InvFolds, Zenon

LEMMA ConfigStepKeeps ==
    ASSUME ConfigFilesInv, [ConfigNext]_configVars
    PROVE  ConfigFilesInv'
<1>1. CASE UNCHANGED configVars
  <2>1. /\ Cells(active', switch', used') <=> Cells(active, switch, used)
        /\ Stores(disk', backend', running', used') <=> Stores(disk, backend, running, used)
        /\ AtMostOne(running') <=> AtMostOne(running)
        /\ Actor(apply', used') <=> Actor(apply, used)
        /\ FilesAgree(disk', backend') <=> FilesAgree(disk, backend)
    BY <1>1, Zenon DEF configVars
  <2>2. Sure' <=> Sure
    BY <1>1 DEF configVars, Sure, LoadedIsPublished, RollbackUndoes, ApplyKnows, Older
  <2> QED BY <2>1, <2>2, InvFolds, Zenon
<1>2. CASE ConfigNext
  BY <1>2, ParseAndRenderKeeps, CommitMissingKeeps, CommitUnchangedKeeps, CommitStagesKeeps,
     CommitPublishesKeeps, DiscardPreparedKeeps, CurrentContentsKeeps, HotReloadKeeps, RestartKeeps,
     ReportsAppliedKeeps, RollbackNothingKeeps, RollbackStagesKeeps, RollbackRestoresKeeps,
     WishKeeps, SwitchStartsKeeps, DaemonKilledKeeps, Zenon
     DEF ConfigNext
<1> QED BY <1>1, <1>2, Zenon

\* In every reachable state, whatever faults, switches, stops and kills fall
\* between the steps of an apply: the rollback history is bounded, has one body
\* for each generation and the newest of them is the published file; a kernel
\* reported as running the applied configuration runs the published file; and a
\* rollback that reports the previous generation restored has restored the file
\* the apply found (apply_commit, publish_and_record and rollback_commit).
THEOREM ConfigFilesAgree == ConfigSpec => []ConfigFilesInv
BY ConfigInitHolds, ConfigStepKeeps, PTL DEF ConfigSpec
=============================================================================
