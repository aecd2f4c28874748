--------------------------- MODULE BranchGCProofs ---------------------------
(***************************************************************************)
(* What a deletion of BranchGC may take away, for any number of branches,  *)
(* helpers, changes and failures.                                          *)
(***************************************************************************)
EXTENDS BranchGC, TLAPS

Checking == {"registryAgain", "baseAgain", "worktreeAgain", "delete", "orphan"}

Proven(g, b) ==
    \/ Ancestor(seen[g].refs[b], seen[g].base)
    \/ \E p \in seen[g].prs :
          p.head = b /\ p.tip = seen[g].refs[b] /\ p.merge \in seen[g].base

\* What a helper knows, stage by stage: each check still holds, or "late" says
\* that it does not.
Candidates(g) == \A b \in todo[g] : seen[g].registry[b] = "archived"
Asked(g) == seen[g].prs \subseteq prs
Proof(g) == pc[g] \in Checking => \A b \in Branch : IsNext(g, b) => Proven(g, b)
RegistryKnown(g) ==
    pc[g] \in Checking \ {"registryAgain"} =>
        registry = seen[g].registry \/ "registry" \in late[g]
BaseKnown(g) ==
    pc[g] \in {"worktreeAgain", "delete", "orphan"} =>
        base = seen[g].base \/ "base" \in late[g]
WorktreeKnown(g) ==
    pc[g] \in {"delete", "orphan"} =>
        \A b \in Branch : IsNext(g, b) => b \notin wt \/ "worktree" \in late[g]

Knows(g) ==
    /\ Candidates(g) /\ Asked(g) /\ Proof(g)
    /\ RegistryKnown(g) /\ BaseKnown(g) /\ WorktreeKnown(g)

Typed ==
    /\ pc \in [GC -> Stage] /\ seen \in [GC -> Seen]
    /\ todo \in [GC -> SUBSET Branch] /\ late \in [GC -> SUBSET Fact]

Inv == TypeOK /\ \A g \in GC : Knows(g)

----------------------------------------------------------------------------
(* Types.                                                                  *)

LEMMA Numbers == Branches \in Nat /\ MaxChanges \in Nat /\ MaxFaults \in Nat
  BY BoundsAssumption

LEMMA UnreadType == Unread \in Seen
  BY DEF Unread, Seen, Tip

LEMMA InitType == Init => TypeOK
<1> SUFFICES ASSUME Init PROVE TypeOK
  OBVIOUS
<1> USE DEF Init
<1>0. 0 \in Commit /\ \A b \in Branch : b \in Commit /\ Branches + b \in Commit
  BY Numbers DEF Commit, Branch
<1>1. refs \in [Branch -> Tip] /\ base \in Tip
  BY <1>0 DEF Tip
<1>2. prs \subseteq PR
  <2>1. \A b \in Branch : FirstPR(b) \in PR
    BY <1>0 DEF FirstPR, PR, Tip
  <2> QED  BY <2>1
<1>3. pc \in [GC -> Stage] /\ registry \in [Branch -> {"active", "archived", "foreign"}]
  BY DEF Stage
<1>4. seen \in [GC -> Seen]
  BY UnreadType
<1>5. changes \in 0..MaxChanges /\ faults \in 0..MaxFaults
  BY Numbers
<1> QED  BY <1>1, <1>2, <1>3, <1>4, <1>5 DEF TypeOK

LEMMA QuitType ==
  ASSUME Typed, NEW g \in GC, Quit(g)
  PROVE  Typed'
  BY UnreadType DEF Typed, Quit, Go, Stage

LEMMA GoType ==
  ASSUME Typed, NEW g \in GC, NEW stage \in Stage, Go(g, stage), UNCHANGED Notes
  PROVE  Typed'
  BY DEF Typed, Go, Notes

LEMMA SkipType ==
  ASSUME Typed, NEW g \in GC, NEW b, Skip(g, b)
  PROVE  Typed'
  BY DEF Typed, Skip, Go, Stage

WorldTyped ==
    /\ refs \in [Branch -> Tip] /\ base \in Tip /\ wt \subseteq Branch
    /\ registry \in [Branch -> {"active", "archived", "foreign"}]
    /\ prs \subseteq PR /\ fetched \subseteq Commit

\* A helper that looks at branches has seen their references.
Sighted ==
    \A g \in GC : pc[g] \notin {"idle", "registry", "base", "refs"} =>
        \A b \in todo[g] : seen[g].refs[b] # {}

LEMMA TypeParts ==
  TypeOK <=> /\ WorldTyped /\ Typed /\ Sighted /\ lock \subseteq GC
             /\ changes \in 0..MaxChanges /\ faults \in 0..MaxFaults
  BY DEF TypeOK, WorldTyped, Typed, Sighted

LEMMA HelperTyped ==
  ASSUME TypeOK, NEW g \in GC, Helper(g) \/ Abort(g) \/ KillHelper(g)
  PROVE  Typed'
<1>t. Typed /\ WorldTyped
  BY TypeParts
<1> USE <1>t DEF Stage
<1>1. CASE Start(g)
  BY <1>1, GoType DEF Start
<1>2. CASE ReadRegistry(g)
  <2>0. ASSUME NEW r \in Seen, NEW x \in [Branch -> {"active", "archived", "foreign"}] PROVE [r EXCEPT !.registry = x] \in Seen
    BY <2>0 DEF Seen
  <2>1. [seen[g] EXCEPT !.registry = registry] \in Seen
    BY <2>0 DEF Typed, WorldTyped
  <2>2. seen' = [seen EXCEPT ![g] = [seen[g] EXCEPT !.registry = registry]]
    BY <1>2 DEF ReadRegistry
  <2>3. seen' \in [GC -> Seen]
    BY <2>1, <2>2 DEF Typed
  <2>4. pc' \in [GC -> Stage] /\ todo' \in [GC -> SUBSET Branch] /\ late' = late
    BY <1>2 DEF ReadRegistry, Go, Typed
  <2> QED  BY <2>3, <2>4 DEF Typed
<1>3. CASE ReadBase(g)
  <2>0. ASSUME NEW r \in Seen, NEW x \in Tip PROVE [r EXCEPT !.base = x] \in Seen
    BY <2>0 DEF Seen
  <2>1. [seen[g] EXCEPT !.base = base] \in Seen
    BY <2>0 DEF Typed, WorldTyped
  <2>2. seen' = [seen EXCEPT ![g] = [seen[g] EXCEPT !.base = base]]
    BY <1>3 DEF ReadBase
  <2>3. seen' \in [GC -> Seen]
    BY <2>1, <2>2 DEF Typed
  <2>4. pc' \in [GC -> Stage] /\ todo' \in [GC -> SUBSET Branch] /\ late' = late
    BY <1>3 DEF ReadBase, Go, Typed
  <2> QED  BY <2>3, <2>4 DEF Typed
<1>4. CASE ReadRefs(g)
  <2>0. ASSUME NEW r \in Seen, NEW x \in [Branch -> Tip] PROVE [r EXCEPT !.refs = x] \in Seen
    BY <2>0 DEF Seen
  <2>1. [seen[g] EXCEPT !.refs = refs] \in Seen
    BY <2>0 DEF Typed, WorldTyped
  <2>2. seen' = [seen EXCEPT ![g] = [seen[g] EXCEPT !.refs = refs]]
    BY <1>4 DEF ReadRefs
  <2>3. seen' \in [GC -> Seen]
    BY <2>1, <2>2 DEF Typed
  <2>4. pc' \in [GC -> Stage] /\ todo' \in [GC -> SUBSET Branch] /\ late' = late
    BY <1>4 DEF ReadRefs, Go, Typed
  <2> QED  BY <2>3, <2>4 DEF Typed
<1>5. CASE Look(g)
  BY <1>5, QuitType, SkipType, GoType DEF Look
<1>6. CASE Ask(g)
  <2>1. ASSUME NEW r \in Seen, NEW known \in SUBSET PR
        PROVE  [r EXCEPT !.asked = TRUE, !.prs = known] \in Seen
    BY <2>1 DEF Seen
  <2>2. ASSUME NEW r \in Seen PROVE [r EXCEPT !.asked = TRUE] \in Seen
    BY <2>2 DEF Seen
  <2>3. seen[g] \in Seen
    BY DEF Typed
  <2>4. \E r \in Seen : seen' = [seen EXCEPT ![g] = r]
    <3>1. CASE seen' = [seen EXCEPT ![g] = [@ EXCEPT !.asked = TRUE, !.prs = prs]]
      <4>1. [seen[g] EXCEPT !.asked = TRUE, !.prs = prs] \in Seen
        BY <2>1, <2>3 DEF WorldTyped
      <4> QED  BY <3>1, <4>1
    <3>2. CASE seen' = [seen EXCEPT ![g] = [@ EXCEPT !.asked = TRUE]]
      <4>1. [seen[g] EXCEPT !.asked = TRUE] \in Seen
        BY <2>2, <2>3
      <4> QED  BY <3>2, <4>1
    <3> QED  BY <1>6, <3>1, <3>2 DEF Ask
  <2>5. seen' \in [GC -> Seen]
    BY <2>4 DEF Typed
  <2> QED  BY <1>6, <2>5 DEF Ask, Typed
<1>7. CASE Prove(g)
  BY <1>7, QuitType, SkipType, GoType DEF Prove
<1>8. CASE RecheckRegistry(g)
  <2>1. CASE Go(g, "baseAgain") /\ late' = [late EXCEPT ![g] = {}] /\ UNCHANGED <<lock, seen, todo>>
    BY <2>1 DEF Go, Typed
  <2> QED  BY <1>8, <2>1, QuitType DEF RecheckRegistry
<1>9. CASE RecheckBase(g)
  BY <1>9, QuitType, GoType DEF RecheckBase
<1>10. CASE RecheckWorktree(g)
  BY <1>10, SkipType, GoType DEF RecheckWorktree
<1>11. CASE Delete(g)
  <2>1. CASE \E b : Go(g, "look") /\ todo' = [todo EXCEPT ![g] = @ \ {b}] /\ UNCHANGED <<lock, seen, late>>
    BY <2>1 DEF Go, Typed
  <2> QED  BY <1>11, <2>1, QuitType DEF Delete
<1>12. CASE Abort(g)
  BY <1>12, QuitType DEF Abort
<1>13. CASE KillHelper(g)
  BY <1>13, GoType DEF KillHelper
<1> QED
  BY <1>1, <1>2, <1>3, <1>4, <1>5, <1>6, <1>7, <1>8, <1>9, <1>10, <1>11, <1>12, <1>13 DEF Helper

LEMMA HelperSighted ==
  ASSUME TypeOK, NEW g \in GC, Helper(g) \/ Abort(g) \/ KillHelper(g)
  PROVE  Sighted'
<1>t. Typed /\ Sighted
  BY TypeParts
<1> DEFINE Same(h) == /\ pc'[h] = pc[h] /\ todo'[h] = todo[h] /\ seen'[h] = seen[h]
           See(h) == pc[h] \notin {"idle", "registry", "base", "refs"} =>
                        \A b \in todo[h] : seen[h].refs[b] # {}
           Early == {"idle", "registry", "base", "refs"}
<1>q. Quit(g) => pc'[g] = "idle" /\ \A h \in GC \ {g} : Same(h)
  BY <1>t DEF Quit, Go, Typed
<1>g. ASSUME NEW stage, Go(g, stage), UNCHANGED Notes, pc[g] \notin Early
      PROVE  todo'[g] \subseteq todo[g] /\ seen'[g].refs = seen[g].refs
             /\ \A h \in GC \ {g} : Same(h)
  BY <1>g, <1>t DEF Go, Notes, Typed
<1>s. ASSUME NEW b, Skip(g, b)
      PROVE  todo'[g] \subseteq todo[g] /\ seen'[g].refs = seen[g].refs
             /\ \A h \in GC \ {g} : Same(h)
  BY <1>s, <1>t DEF Skip, Go, Typed
<1>1. /\ \A h \in GC \ {g} : Same(h)
      /\ \/ pc'[g] \in Early
         \/ /\ pc[g] \notin Early
            /\ todo'[g] \subseteq todo[g] /\ seen'[g].refs = seen[g].refs
         \/ ReadRefs(g)
  <2>1. CASE Start(g)
    BY <2>1, <1>t DEF Start, Go, Notes, Typed
  <2>2. CASE ReadRegistry(g)
    BY <2>2, <1>t DEF ReadRegistry, Go, Typed
  <2>3. CASE ReadBase(g)
    BY <2>3, <1>t DEF ReadBase, Go, Typed
  <2>4. CASE ReadRefs(g)
    BY <2>4, <1>t DEF ReadRefs, Go, Typed
  <2>5. CASE Look(g)
    BY <2>5, <1>q, <1>g, <1>s DEF Look
  <2>6. CASE Ask(g)
    <3>1. pc' = pc /\ todo' = todo /\ pc[g] = "prove" /\ \A h \in GC \ {g} : seen'[h] = seen[h]
      BY <2>6, <1>t DEF Ask, Typed
    <3>2. seen'[g].refs = seen[g].refs
      <4>1. CASE seen' = [seen EXCEPT ![g] = [@ EXCEPT !.asked = TRUE, !.prs = prs]]
        BY <4>1, <1>t DEF Typed, Seen
      <4>2. CASE seen' = [seen EXCEPT ![g] = [@ EXCEPT !.asked = TRUE]]
        BY <4>2, <1>t DEF Typed, Seen
      <4> QED  BY <2>6, <4>1, <4>2 DEF Ask
    <3> QED  BY <3>1, <3>2
  <2>7. CASE Prove(g)
    BY <2>7, <1>q, <1>g, <1>s DEF Prove
  <2>8. CASE RecheckRegistry(g)
    <3>1. CASE Go(g, "baseAgain") /\ UNCHANGED <<lock, seen, todo>>
      BY <2>8, <3>1, <1>t DEF RecheckRegistry, Go, Typed
    <3> QED  BY <2>8, <3>1, <1>q DEF RecheckRegistry
  <2>9. CASE RecheckBase(g)
    BY <2>9, <1>q, <1>g DEF RecheckBase
  <2>10. CASE RecheckWorktree(g)
    BY <2>10, <1>g, <1>s DEF RecheckWorktree
  <2>11. CASE Delete(g)
    <3>1. ASSUME NEW b, Go(g, "look"), todo' = [todo EXCEPT ![g] = @ \ {b}],
                 UNCHANGED <<lock, seen, late>>
          PROVE  todo'[g] \subseteq todo[g] /\ seen'[g].refs = seen[g].refs
                 /\ \A h \in GC \ {g} : Same(h)
      BY <3>1, <1>t DEF Go, Typed
    <3> QED  BY <2>11, <3>1, <1>q DEF Delete
  <2>12. CASE Abort(g)
    BY <2>12, <1>q DEF Abort
  <2>13. CASE KillHelper(g)
    BY <2>13, <1>g DEF KillHelper
  <2> QED
    BY <2>1, <2>2, <2>3, <2>4, <2>5, <2>6, <2>7, <2>8, <2>9, <2>10, <2>11, <2>12, <2>13 DEF Helper
<1>2. \A h \in GC : See(h)
  BY <1>t DEF Sighted
<1>3. \A h \in GC : See(h)'
  <2> SUFFICES ASSUME NEW h \in GC PROVE See(h)'
    OBVIOUS
  <2>1. CASE h # g
    BY <2>1, <1>1, <1>2
  <2>2. CASE h = g /\ ~ReadRefs(g)
    BY <2>2, <1>1, <1>2
  <2>3. CASE h = g /\ ReadRefs(g)
    <3>1. todo'[g] = {b \in todo[g] : refs[b] # {}}
      BY <2>3, <1>t DEF ReadRefs, Typed
    <3>2. seen'[g].refs = refs
      BY <2>3, <1>t DEF ReadRefs, Typed, Seen
    <3> QED  BY <2>3, <3>1, <3>2
  <2> QED  BY <2>1, <2>2, <2>3
<1> QED  BY <1>3 DEF Sighted

\* What a helper leaves alone.
LEMMA HelperWorld ==
  ASSUME NEW g \in GC, Helper(g) \/ Abort(g) \/ KillHelper(g)
  PROVE  /\ UNCHANGED <<base, wt, registry, prs, fetched>>
         /\ Delete(g) \/ UNCHANGED refs
  BY DEF Helper, Start, ReadRegistry, ReadBase, ReadRefs, Look, Skip, Ask, Prove,
         RecheckRegistry, RecheckBase, RecheckWorktree, Delete, Abort, KillHelper, world

LEMMA HelperBounds ==
  ASSUME TypeOK, NEW g \in GC, Helper(g) \/ Abort(g) \/ KillHelper(g)
  PROVE  /\ lock' \subseteq GC
         /\ changes' \in 0..MaxChanges /\ faults' \in 0..MaxFaults
<1>1. lock' \subseteq GC
  BY DEF TypeOK, Helper, Start, ReadRegistry, ReadBase, ReadRefs, Look, Skip, Ask, Prove,
         RecheckRegistry, RecheckBase, RecheckWorktree, Delete, Abort, KillHelper, Quit
<1>2. UNCHANGED Bounds \/ Fault
  BY DEF Helper, Start, ReadRegistry, ReadBase, ReadRefs, Look, Skip, Ask, Prove,
         RecheckRegistry, RecheckBase, RecheckWorktree, Delete, Abort, KillHelper
<1>3. changes' \in 0..MaxChanges /\ faults' \in 0..MaxFaults
  BY <1>2, Numbers DEF Bounds, Fault, TypeOK
<1> QED  BY <1>1, <1>3

LEMMA HelperType ==
  ASSUME TypeOK, NEW g \in GC, Helper(g) \/ Abort(g) \/ KillHelper(g)
  PROVE  TypeOK'
<1>1. refs' \in [Branch -> Tip]
  <2>1. {} \in Tip
    BY DEF Tip
  <2>2. refs \in [Branch -> Tip]
    BY DEF TypeOK
  <2>3. CASE Delete(g)
    <3>1. PICK b \in Branch : refs' = refs \/ refs' = [refs EXCEPT ![b] = {}]
      BY <2>3 DEF Delete
    <3> QED  BY <2>1, <2>2, <3>1
  <2> QED  BY <2>2, <2>3, HelperWorld
<1>2. WorldTyped'
  BY <1>1, HelperWorld DEF WorldTyped, TypeOK
<1> QED
  BY <1>2, HelperTyped, HelperSighted, HelperBounds DEF TypeOK, WorldTyped, Typed, Sighted

LEMMA EnvironmentType == ASSUME TypeOK, Environment PROVE TypeOK'
<1>1. Others
  BY DEF Environment, CommitTo, AddWorktree, RemoveWorktree, ChangeRegistry, Squash, Fetch, MoveBase
<1>2. changes' \in 0..MaxChanges /\ UNCHANGED <<lock, pc, seen, todo, faults>>
  BY <1>1, Numbers DEF Others, TypeOK
<1>3. New \in Commit
  BY <1>1, Numbers DEF Others, New, Commit, TypeOK
<1>4. late' \in [GC -> SUBSET Fact]
  BY DEF Environment, CommitTo, AddWorktree, RemoveWorktree, ChangeRegistry, Squash, Fetch, MoveBase,
         Unnoticed, TypeOK, Fact
<1>5. WorldTyped'
  <2> USE DEF TypeOK, WorldTyped
  <2>1. ASSUME NEW b \in Branch, CommitTo(b) PROVE WorldTyped'
    BY <2>1, <1>3 DEF CommitTo, Tip
  <2>2. ASSUME NEW b \in Branch, AddWorktree(b) PROVE WorldTyped'
    BY <2>2 DEF AddWorktree
  <2>3. ASSUME NEW b \in Branch, RemoveWorktree(b) PROVE WorldTyped'
    BY <2>3 DEF RemoveWorktree
  <2>4. ASSUME NEW b \in Branch, ChangeRegistry(b) PROVE WorldTyped'
    BY <2>4 DEF ChangeRegistry
  <2>5. ASSUME NEW b \in Branch, Squash(b) PROVE WorldTyped'
    BY <2>5, <1>3 DEF Squash, PR
  <2>6. CASE Fetch
    BY <2>6 DEF Fetch, PR
  <2>7. CASE MoveBase
    <3>1. 0 \in Commit
      BY Numbers DEF Commit
    <3>2. base' \in Tip
      BY <2>7, <3>1 DEF MoveBase, Tip
    <3> QED  BY <2>7, <3>2 DEF MoveBase
  <2> QED  BY <2>1, <2>2, <2>3, <2>4, <2>5, <2>6, <2>7 DEF Environment
<1>6. Typed' /\ Sighted'
  BY <1>2, <1>4 DEF TypeOK, Typed, Sighted
<1> QED  BY <1>2, <1>5, <1>6, TypeParts DEF TypeOK, WorldTyped, Typed, Sighted

LEMMA TypeStep == TypeOK /\ [Next]_vars => TypeOK'
<1>1. ASSUME TypeOK, UNCHANGED vars PROVE TypeOK'
  BY <1>1 DEF TypeOK, vars, world
<1> QED  BY <1>1, HelperType, EnvironmentType DEF Next

----------------------------------------------------------------------------
(* What helpers know.                                                      *)

LEMMA InitKnows == Init => \A g \in GC : Knows(g)
  BY DEF Init, Knows, Candidates, Asked, Proof, RegistryKnown, BaseKnown, WorktreeKnown, Checking, Unread

\* The changes of others make every helper late for what they concern.
LEMMA EnvironmentKnows ==
  ASSUME Inv, Environment, NEW g \in GC PROVE Knows(g)'
<1> USE DEF Inv, TypeOK
<1>1. UNCHANGED <<pc, seen, todo>>
  BY DEF Environment, CommitTo, AddWorktree, RemoveWorktree, ChangeRegistry, Squash, Fetch, MoveBase, Others
<1>2. /\ prs \subseteq prs' /\ late[g] \subseteq late'[g]
      /\ registry' = registry \/ "registry" \in late'[g]
      /\ base' = base \/ "base" \in late'[g]
      /\ wt' = wt \/ "worktree" \in late'[g]
  BY DEF Environment, CommitTo, AddWorktree, RemoveWorktree, ChangeRegistry, Squash, Fetch, MoveBase, Unnoticed
<1>3. Knows(g)
  OBVIOUS
<1>4. Candidates(g)' /\ Asked(g)' /\ Proof(g)'
  BY <1>1, <1>2, <1>3 DEF Knows, Candidates, Asked, Proof, IsNext, Proven
<1>5. RegistryKnown(g)' /\ BaseKnown(g)' /\ WorktreeKnown(g)'
  BY <1>1, <1>2, <1>3 DEF Knows, RegistryKnown, BaseKnown, WorktreeKnown, IsNext
<1> QED  BY <1>4, <1>5 DEF Knows

\* A helper that does nothing knows what it knew: a deletion by another one
\* changes references only.
LEMMA OtherKnows ==
  ASSUME Inv, NEW g \in GC, Helper(g) \/ Abort(g) \/ KillHelper(g),
         NEW h \in GC, pc'[h] = pc[h], seen'[h] = seen[h], todo'[h] = todo[h], late'[h] = late[h]
  PROVE  Knows(h)'
<1>1. UNCHANGED <<base, wt, registry, prs, fetched>>
  BY HelperWorld
<1>2. Knows(h)
  BY DEF Inv
<1> QED
  BY <1>1, <1>2 DEF Knows, Candidates, Asked, Proof, RegistryKnown, BaseKnown, WorktreeKnown, IsNext, Proven

LEMMA QuitKnows ==
  ASSUME Typed, NEW g \in GC, Quit(g) PROVE Knows(g)'
<1>1. pc'[g] = "idle" /\ todo'[g] = {} /\ seen'[g] = Unread
  BY DEF Quit, Go, Typed
<1> QED
  BY <1>1 DEF Knows, Candidates, Asked, Proof, RegistryKnown, BaseKnown, WorktreeKnown, Checking, Unread

\* A helper between two branches knows its candidates only.
LEMMA PlainKnows ==
  ASSUME Inv, NEW g \in GC, pc'[g] \notin Checking, seen'[g] = seen[g], todo'[g] \subseteq todo[g],
         prs' = prs
  PROVE  Knows(g)'
  BY DEF Inv, Knows, Candidates, Asked, Proof, RegistryKnown, BaseKnown, WorktreeKnown, Checking

LEMMA SkipKnows ==
  ASSUME Inv, NEW g \in GC, NEW b, Skip(g, b) PROVE Knows(g)'
<1>1. pc'[g] = "look" /\ todo'[g] \subseteq todo[g] /\ seen' = seen /\ prs' = prs
  BY DEF Skip, Go, Inv, TypeOK, world
<1> QED  BY <1>1, PlainKnows DEF Checking

\* Only the helper that moves learns or forgets something.
LEMMA OthersStay ==
  ASSUME TypeOK, NEW g \in GC, Helper(g) \/ Abort(g) \/ KillHelper(g), NEW h \in GC \ {g}
  PROVE  pc'[h] = pc[h] /\ seen'[h] = seen[h] /\ todo'[h] = todo[h] /\ late'[h] = late[h]
<1> USE DEF TypeOK, Go
<1>q. Quit(g) => pc'[h] = pc[h] /\ seen'[h] = seen[h] /\ todo'[h] = todo[h] /\ late'[h] = late[h]
  BY DEF Quit
<1>s. \A b : Skip(g, b) =>
        pc'[h] = pc[h] /\ seen'[h] = seen[h] /\ todo'[h] = todo[h] /\ late'[h] = late[h]
  BY DEF Skip
<1>1. CASE Start(g) \/ ReadRegistry(g) \/ ReadBase(g) \/ ReadRefs(g) \/ Ask(g)
  BY <1>1 DEF Start, ReadRegistry, ReadBase, ReadRefs, Ask, Notes
<1>2. CASE Look(g) \/ Prove(g) \/ RecheckWorktree(g)
  BY <1>2, <1>q, <1>s DEF Look, Prove, RecheckWorktree, Notes
<1>3. CASE RecheckRegistry(g) \/ RecheckBase(g)
  BY <1>3, <1>q DEF RecheckRegistry, RecheckBase, Notes
<1>4. CASE Delete(g)
  BY <1>4, <1>q DEF Delete
<1>5. CASE Abort(g) \/ KillHelper(g)
  BY <1>5, <1>q DEF Abort, KillHelper, Notes
<1> QED  BY <1>1, <1>2, <1>3, <1>4, <1>5 DEF Helper

LEMMA HelperKnows ==
  ASSUME Inv, NEW g \in GC, Helper(g) \/ Abort(g) \/ KillHelper(g)
  PROVE  Knows(g)'
<1>t. TypeOK /\ Typed
  BY TypeParts DEF Inv
<1>k. Knows(g)
  BY DEF Inv
<1>w. UNCHANGED <<base, wt, registry, prs>>
  BY HelperWorld
<1> USE DEF Go
<1>1. CASE Start(g)
  <2>1. pc'[g] = "registry" /\ seen' = seen /\ todo' = todo
    BY <1>1, <1>t DEF Start, Notes, TypeOK
  <2> QED  BY <2>1, <1>w, PlainKnows DEF Checking
<1>2. CASE ReadRegistry(g)
  <2>1. /\ pc'[g] = "base" /\ todo'[g] = {b \in Branch : registry[b] = "archived"}
        /\ seen'[g].registry = registry /\ seen'[g].prs = seen[g].prs
    BY <1>2, <1>t DEF ReadRegistry, TypeOK, Seen
  <2> QED
    BY <2>1, <1>k, <1>w
    DEF Knows, Candidates, Asked, Proof, RegistryKnown, BaseKnown, WorktreeKnown, Checking
<1>3. CASE ReadBase(g) \/ ReadRefs(g)
  <2>1. /\ pc'[g] \in {"refs", "look"} /\ todo'[g] \subseteq todo[g]
        /\ seen'[g].registry = seen[g].registry /\ seen'[g].prs = seen[g].prs
    BY <1>3, <1>t DEF ReadBase, ReadRefs, TypeOK, Seen
  <2> QED
    BY <2>1, <1>k, <1>w
    DEF Knows, Candidates, Asked, Proof, RegistryKnown, BaseKnown, WorktreeKnown, Checking
<1>4. CASE Look(g)
  <2>1. CASE Go(g, "prove") /\ UNCHANGED Notes
    <3>1. pc'[g] = "prove" /\ seen' = seen /\ todo' = todo
      BY <2>1, <1>t DEF Notes, TypeOK
    <3> QED  BY <3>1, <1>w, PlainKnows DEF Checking
  <2> QED  BY <1>4, <2>1, <1>t, QuitKnows, SkipKnows DEF Look
<1>5. CASE Ask(g)
  <2>1. /\ pc'[g] = "prove" /\ todo' = todo
        /\ seen'[g].registry = seen[g].registry /\ seen'[g].prs \in {seen[g].prs, prs}
    <3>1. pc'[g] = "prove" /\ todo' = todo
      BY <1>5, <1>t DEF Ask, TypeOK
    <3>2. CASE seen' = [seen EXCEPT ![g] = [@ EXCEPT !.asked = TRUE, !.prs = prs]]
      BY <3>1, <3>2, <1>t DEF TypeOK, Seen
    <3>3. CASE seen' = [seen EXCEPT ![g] = [@ EXCEPT !.asked = TRUE]]
      BY <3>1, <3>3, <1>t DEF TypeOK, Seen
    <3> QED  BY <1>5, <3>2, <3>3 DEF Ask
  <2> QED
    BY <2>1, <1>k, <1>w
    DEF Knows, Candidates, Asked, Proof, RegistryKnown, BaseKnown, WorktreeKnown, Checking
<1>6. CASE Prove(g)
  <2>1. ASSUME NEW b \in Branch, IsNext(g, b), Go(g, "registryAgain"), UNCHANGED Notes,
               \/ Ancestor(seen[g].refs[b], seen[g].base)
               \/ \E p \in Matching(g, b) : p.merge \in seen[g].base
        PROVE  Knows(g)'
    <3>1. pc'[g] = "registryAgain" /\ seen' = seen /\ todo' = todo
      BY <2>1, <1>t DEF Notes, TypeOK
    <3>2. \A c \in Branch : IsNext(g, c) => c = b
      BY <2>1 DEF IsNext, Branch
    <3>3. Proven(g, b)
      BY <2>1 DEF Proven, Matching
    <3>4. Proof(g)'
      BY <3>1, <3>2, <3>3 DEF Proof, IsNext, Proven
    <3> QED
      BY <3>1, <3>4, <1>k, <1>w
      DEF Knows, Candidates, Asked, RegistryKnown, BaseKnown, WorktreeKnown
  <2> QED  BY <1>6, <2>1, <1>t, QuitKnows, SkipKnows DEF Prove
<1>7. CASE RecheckRegistry(g)
  <2>1. CASE registry = seen[g].registry
    <3>1. pc[g] = "registryAgain" /\ pc'[g] = "baseAgain" /\ seen' = seen /\ todo' = todo
      BY <1>7, <2>1, <1>t DEF RecheckRegistry, TypeOK
    <3> QED
      BY <2>1, <3>1, <1>k, <1>w
      DEF Knows, Candidates, Asked, Proof, RegistryKnown, BaseKnown, WorktreeKnown, Checking, IsNext, Proven
  <2> QED  BY <1>7, <2>1, <1>t, QuitKnows DEF RecheckRegistry
<1>8. CASE RecheckBase(g)
  <2>1. CASE base = seen[g].base
    <3>1. /\ pc[g] = "baseAgain" /\ pc'[g] = "worktreeAgain"
          /\ seen' = seen /\ todo' = todo /\ late' = late
      BY <1>8, <2>1, <1>t DEF RecheckBase, Notes, TypeOK
    <3> QED
      BY <2>1, <3>1, <1>k, <1>w
      DEF Knows, Candidates, Asked, Proof, RegistryKnown, BaseKnown, WorktreeKnown, Checking, IsNext, Proven
  <2> QED  BY <1>8, <2>1, <1>t, QuitKnows DEF RecheckBase
<1>9. CASE RecheckWorktree(g)
  <2>1. ASSUME NEW b \in Branch, IsNext(g, b), b \notin wt, pc[g] = "worktreeAgain",
               Go(g, "delete"), UNCHANGED Notes
        PROVE  Knows(g)'
    <3>1. pc'[g] = "delete" /\ seen' = seen /\ todo' = todo /\ late' = late
      BY <2>1, <1>t DEF Notes, TypeOK
    <3>2. \A c \in Branch : IsNext(g, c) => c = b
      BY <2>1 DEF IsNext, Branch
    <3>3. WorktreeKnown(g)'
      BY <2>1, <3>1, <3>2, <1>w DEF WorktreeKnown, IsNext
    <3> QED
      BY <2>1, <3>1, <3>3, <1>k, <1>w
      DEF Knows, Candidates, Asked, Proof, RegistryKnown, BaseKnown, Checking, IsNext, Proven
  <2> QED  BY <1>9, <2>1, SkipKnows DEF RecheckWorktree
<1>10. CASE Delete(g)
  <2>1. ASSUME NEW b, Go(g, "look"), todo' = [todo EXCEPT ![g] = @ \ {b}], UNCHANGED <<lock, seen, late>>
        PROVE  Knows(g)'
    <3>1. pc'[g] = "look" /\ todo'[g] \subseteq todo[g] /\ seen' = seen
      BY <2>1, <1>t DEF TypeOK
    <3> QED  BY <3>1, <1>w, PlainKnows DEF Checking
  <2> QED  BY <1>10, <2>1, <1>t, QuitKnows DEF Delete
<1>11. CASE Abort(g)
  BY <1>11, <1>t, QuitKnows DEF Abort
<1>12. CASE KillHelper(g)
  <2>1. pc[g] = "delete" /\ pc'[g] = "orphan" /\ seen' = seen /\ todo' = todo /\ late' = late
    BY <1>12, <1>t DEF KillHelper, Notes, TypeOK
  <2> QED
    BY <2>1, <1>k, <1>w
    DEF Knows, Candidates, Asked, Proof, RegistryKnown, BaseKnown, WorktreeKnown, Checking, IsNext, Proven
<1> QED
  BY <1>1, <1>2, <1>3, <1>4, <1>5, <1>6, <1>7, <1>8, <1>9, <1>10, <1>11, <1>12 DEF Helper

LEMMA InvStep == Inv /\ [Next]_vars => Inv'
<1> SUFFICES ASSUME Inv, [Next]_vars, NEW h \in GC PROVE Knows(h)'
  BY TypeStep DEF Inv
<1>1. ASSUME NEW g \in GC, Helper(g) \/ Abort(g) \/ KillHelper(g) PROVE Knows(h)'
  BY <1>1, HelperKnows, OtherKnows, OthersStay DEF Inv
<1>2. CASE Environment
  BY <1>2, EnvironmentKnows
<1>3. CASE UNCHANGED vars
  BY <1>3 DEF Inv, vars, world, Knows, Candidates, Asked, Proof, RegistryKnown, BaseKnown,
              WorktreeKnown, IsNext, Proven
<1> QED  BY <1>1, <1>2, <1>3 DEF Next

----------------------------------------------------------------------------
(* Theorems.                                                               *)

LEMMA Invariance == Spec => []Inv
<1>1. Init => Inv
  BY InitType, InitKnows DEF Inv
<1> QED  BY <1>1, InvStep, PTL DEF Spec

\* Every variable of the branch collection keeps its type.
THEOREM TypeCorrect == Spec => []TypeOK
  BY Invariance, PTL DEF Inv

\* Only a helper at its last step deletes, and only what it has proved.
LEMMA Deletion ==
  ASSUME Inv, [Next]_vars, NEW b \in Branch, Deleted(b)
  PROVE  \E g \in GC : /\ pc[g] \in {"delete", "orphan"} /\ IsNext(g, b)
                       /\ refs[b] = seen[g].refs[b]
<1> USE DEF Deleted
<1>1. ~Environment
  <2> SUFFICES ASSUME Environment PROVE FALSE
    OBVIOUS
  <2>1. refs' = refs \/ \E c \in Branch : CommitTo(c) \/ AddWorktree(c)
    BY DEF Environment, RemoveWorktree, ChangeRegistry, Squash, Fetch, MoveBase
  <2>2. ASSUME NEW c \in Branch, CommitTo(c) PROVE refs'[b] # {}
    BY <2>2 DEF CommitTo, Inv, TypeOK
  <2>3. ASSUME NEW c \in Branch, AddWorktree(c) PROVE refs'[b] # {}
    BY <2>3 DEF AddWorktree, Inv, TypeOK
  <2> QED  BY <2>1, <2>2, <2>3
<1>2. PICK g \in GC : Helper(g) \/ Abort(g) \/ KillHelper(g)
  BY <1>1 DEF Next, vars, world
<1>3. Delete(g)
  BY <1>2, HelperWorld
<1>4. PICK c \in Branch : /\ IsNext(g, c)
                         /\ refs' = IF refs[c] = seen[g].refs[c] THEN [refs EXCEPT ![c] = {}] ELSE refs
  BY <1>3 DEF Delete
<1>5. c = b /\ refs[c] = seen[g].refs[c]
  BY <1>4 DEF Inv, TypeOK
<1> QED  BY <1>3, <1>4, <1>5 DEF Delete

\* The branch of an active or unknown workspace is deleted only if the workspace
\* changed after the registry was compared for this very branch.
THEOREM KeepsActive == Spec => ActiveKept
<1>1. Inv /\ [Next]_vars =>
        [\A b \in Branch : Deleted(b) => registry[b] = "archived" \/ Excused(b, "registry")]_vars
  <2> SUFFICES ASSUME Inv, [Next]_vars, NEW b \in Branch, Deleted(b)
               PROVE  registry[b] = "archived" \/ Excused(b, "registry")
    OBVIOUS
  <2>1. PICK g \in GC : pc[g] \in {"delete", "orphan"} /\ IsNext(g, b)
    BY Deletion
  <2>2. registry = seen[g].registry \/ "registry" \in late[g]
    BY <2>1 DEF Inv, Knows, RegistryKnown, Checking
  <2>3. seen[g].registry[b] = "archived"
    BY <2>1 DEF Inv, Knows, Candidates, IsNext
  <2> QED  BY <2>1, <2>2, <2>3 DEF Excused
<1> QED  BY <1>1, Invariance, PTL DEF Spec, ActiveKept

\* A branch that a worktree has checked out is deleted only if the worktree
\* changed after the last look at them.
THEOREM KeepsTrees == Spec => TreesKept
<1>1. Inv /\ [Next]_vars =>
        [\A b \in Branch : Deleted(b) => b \notin wt \/ Excused(b, "worktree")]_vars
  <2> SUFFICES ASSUME Inv, [Next]_vars, NEW b \in Branch, Deleted(b)
               PROVE  b \notin wt \/ Excused(b, "worktree")
    OBVIOUS
  <2>1. PICK g \in GC : pc[g] \in {"delete", "orphan"} /\ IsNext(g, b)
    BY Deletion
  <2> QED  BY <2>1 DEF Inv, Knows, WorktreeKnown, Excused
<1> QED  BY <1>1, Invariance, PTL DEF Spec, TreesKept

\* What is deleted is integrated in the base, unless the base was moved after it
\* was compared.
THEOREM KeepsWork == Spec => WorkKept
<1>1. Inv /\ [Next]_vars =>
        [\A b \in Branch : Deleted(b) => Integrated(b) \/ Excused(b, "base")]_vars
  <2> SUFFICES ASSUME Inv, [Next]_vars, NEW b \in Branch, Deleted(b)
               PROVE  Integrated(b) \/ Excused(b, "base")
    OBVIOUS
  <2>1. PICK g \in GC : /\ pc[g] \in {"delete", "orphan"} /\ IsNext(g, b)
                        /\ refs[b] = seen[g].refs[b]
    BY Deletion
  <2>2. base = seen[g].base \/ "base" \in late[g]
    BY <2>1 DEF Inv, Knows, BaseKnown
  <2>3. Proven(g, b) /\ seen[g].prs \subseteq prs
    BY <2>1 DEF Inv, Knows, Proof, Asked, Checking
  <2> QED  BY <2>1, <2>2, <2>3 DEF Proven, Integrated, Excused
<1> QED  BY <1>1, Invariance, PTL DEF Spec, WorkKept

----------------------------------------------------------------------------
(* Without the excuses: what holds of every deletion.                       *)

\* An update-ref removes the very tip whose proof the helper has: a commit made
\* after the references were read is never deleted, not even by the update-ref of
\* a helper that was killed.
TipProven ==
    [][\A b \in Branch : Deleted(b) =>
          \E g \in GC : refs[b] = seen[g].refs[b] /\ Proven(g, b)]_vars

\* ancestor(), exact_merged_pr() and the expected value of update-ref -d: nobody
\* deletes a tip that nobody has proved.
THEOREM DeletesProven == Spec => TipProven
<1>1. Inv /\ [Next]_vars =>
        [\A b \in Branch : Deleted(b) =>
            \E g \in GC : refs[b] = seen[g].refs[b] /\ Proven(g, b)]_vars
  <2> SUFFICES ASSUME Inv, [Next]_vars, NEW b \in Branch, Deleted(b)
               PROVE  \E g \in GC : refs[b] = seen[g].refs[b] /\ Proven(g, b)
    OBVIOUS
  <2>1. PICK g \in GC : /\ pc[g] \in {"delete", "orphan"} /\ IsNext(g, b)
                        /\ refs[b] = seen[g].refs[b]
    BY Deletion
  <2>2. Proven(g, b)
    BY <2>1 DEF Inv, Knows, Proof, Checking
  <2> QED  BY <2>1, <2>2
<1> QED  BY <1>1, Invariance, PTL DEF Spec, TipProven

\* The base that a helper has read, as long as nobody resets it.
Behind(g) == pc[g] \notin {"idle", "registry", "base"} => seen[g].base \subseteq base

LEMMA BehindStep ==
  ASSUME Inv, [Next]_vars, base \subseteq base', NEW h \in GC, Behind(h)
  PROVE  Behind(h)'
<1> USE DEF Behind
<1>t. Typed
  BY TypeParts DEF Inv
<1>1. ASSUME NEW g \in GC, Helper(g) \/ Abort(g) \/ KillHelper(g) PROVE Behind(h)'
  <2>w. base' = base
    BY <1>1, HelperWorld
  <2>1. CASE h # g
    BY <1>1, <2>1, <2>w, OthersStay DEF Inv
  <2>2. CASE h = g
    <3> USE <2>2, <2>w, <1>t DEF Typed, Go
    <3>q. Quit(g) => pc'[g] = "idle"
      BY DEF Quit
    <3>s. \A b : Skip(g, b) => seen' = seen
      BY DEF Skip
    <3>1. CASE Start(g) \/ ReadRegistry(g)
      BY <3>1 DEF Start, ReadRegistry
    <3>2. CASE ReadBase(g)
      BY <3>2 DEF ReadBase
    <3>3. CASE ReadRefs(g)
      BY <3>3 DEF ReadRefs
    <3>4. CASE Look(g)
      BY <3>4, <3>q, <3>s DEF Look, Notes
    <3>5. CASE Ask(g)
      <4>1. seen' = [seen EXCEPT ![g] = [seen[g] EXCEPT !.asked = TRUE, !.prs = prs]]
            \/ seen' = [seen EXCEPT ![g] = [seen[g] EXCEPT !.asked = TRUE]]
        BY <3>5 DEF Ask
      <4>2. seen'[g].base = seen[g].base
        BY <4>1 DEF Seen
      <4>3. pc' = pc
        BY <3>5 DEF Ask
      <4> QED  BY <4>2, <4>3
    <3>6. CASE Prove(g)
      BY <3>6, <3>q, <3>s DEF Prove, Notes
    <3>7. CASE RecheckRegistry(g) \/ RecheckBase(g)
      BY <3>7, <3>q DEF RecheckRegistry, RecheckBase, Notes
    <3>8. CASE RecheckWorktree(g)
      BY <3>8, <3>s DEF RecheckWorktree, Notes
    <3>9. CASE Delete(g)
      BY <3>9, <3>q DEF Delete
    <3>10. CASE Abort(g) \/ KillHelper(g)
      BY <3>10, <3>q DEF Abort, KillHelper, Notes
    <3> QED
      BY <1>1, <3>1, <3>2, <3>3, <3>4, <3>5, <3>6, <3>7, <3>8, <3>9, <3>10 DEF Helper
  <2> QED  BY <2>1, <2>2
<1>2. CASE Environment
  <2>1. UNCHANGED <<pc, seen>>
    BY <1>2 DEF Environment, CommitTo, AddWorktree, RemoveWorktree, ChangeRegistry, Squash,
           Fetch, MoveBase, Others
  <2> QED  BY <2>1
<1>3. CASE UNCHANGED vars
  BY <1>3 DEF vars, world
<1> QED  BY <1>1, <1>2, <1>3 DEF Next

\* Where the integration branch is only added to, no work is lost at all: what
\* may be excused in WorkKept is a reset of the base, and nothing else.
THEOREM KeepsWorkOfGrowingBase ==
  Spec /\ [][base \subseteq base']_vars
    => [][\A b \in Branch : Deleted(b) => Integrated(b)]_vars
<1> DEFINE AllBehind == \A g \in GC : Behind(g)
<1>1. Init => AllBehind
  BY DEF Init, Behind
<1>2. Inv /\ AllBehind /\ [Next]_vars /\ [base \subseteq base']_vars => AllBehind'
  <2>1. CASE base \subseteq base'
    BY <2>1, BehindStep
  <2>2. CASE UNCHANGED vars
    BY <2>2 DEF vars, world, Behind
  <2> QED  BY <2>1, <2>2
<1>3. Inv /\ AllBehind /\ [Next]_vars =>
        [\A b \in Branch : Deleted(b) => Integrated(b)]_vars
  <2> SUFFICES ASSUME Inv, AllBehind, [Next]_vars, NEW b \in Branch, Deleted(b)
               PROVE  Integrated(b)
    OBVIOUS
  <2>1. PICK g \in GC : /\ pc[g] \in {"delete", "orphan"} /\ IsNext(g, b)
                        /\ refs[b] = seen[g].refs[b]
    BY Deletion
  <2>2. Proven(g, b) /\ seen[g].prs \subseteq prs
    BY <2>1 DEF Inv, Knows, Proof, Asked, Checking
  <2>3. seen[g].base \subseteq base
    BY <2>1 DEF Behind
  <2> QED  BY <2>1, <2>2, <2>3 DEF Proven, Integrated, Ancestor
<1> HIDE DEF AllBehind
<1> QED  BY <1>1, <1>2, <1>3, Invariance, PTL DEF Spec

----------------------------------------------------------------------------
(* The lock.                                                                *)

\* Whoever is in a pass has the lock; only an update-ref may outlive its pass.
LockHeld ==
    /\ \A g \in GC : g \in lock <=> pc[g] \notin {"idle", "orphan"}
    /\ \A g, h \in lock : g = h

LEMMA LockStep ==
  ASSUME TypeOK, LockHeld, [Next]_vars
  PROVE  LockHeld'
<1>1. ASSUME NEW g \in GC, Helper(g) \/ Abort(g) \/ KillHelper(g) PROVE LockHeld'
  <2>o. \A h \in GC \ {g} : pc'[h] = pc[h]
    BY <1>1, OthersStay
  <2> USE DEF LockHeld, TypeOK, Go
  <2>q. Quit(g) => LockHeld'
    BY DEF Quit
  <2>s. pc[g] \notin {"idle", "orphan"} /\ lock' = lock /\ pc'[g] \notin {"idle", "orphan"} => LockHeld'
    BY <2>o
  <2>1. CASE Start(g)
    BY <2>1 DEF Start
  <2>2. CASE ReadRegistry(g) \/ ReadBase(g) \/ ReadRefs(g) \/ Ask(g)
    BY <2>2, <2>s DEF ReadRegistry, ReadBase, ReadRefs, Ask
  <2>3. CASE Look(g)
    BY <2>3, <2>q, <2>s DEF Look, Skip
  <2>4. CASE Prove(g)
    BY <2>4, <2>q, <2>s DEF Prove, Skip
  <2>5. CASE RecheckRegistry(g) \/ RecheckBase(g)
    BY <2>5, <2>q, <2>s DEF RecheckRegistry, RecheckBase
  <2>6. CASE RecheckWorktree(g)
    BY <2>6, <2>s DEF RecheckWorktree, Skip
  <2>7. CASE Delete(g)
    BY <2>7, <2>q, <2>s DEF Delete
  <2>8. CASE Abort(g)
    BY <2>8, <2>q DEF Abort
  <2>9. CASE KillHelper(g)
    BY <2>9 DEF KillHelper
  <2> QED  BY <1>1, <2>1, <2>2, <2>3, <2>4, <2>5, <2>6, <2>7, <2>8, <2>9 DEF Helper
<1>2. CASE Environment
  <2>1. UNCHANGED <<pc, lock>>
    BY <1>2 DEF Environment, CommitTo, AddWorktree, RemoveWorktree, ChangeRegistry, Squash,
           Fetch, MoveBase, Others
  <2> QED  BY <2>1 DEF LockHeld
<1>3. CASE UNCHANGED vars
  BY <1>3 DEF vars, LockHeld
<1> QED  BY <1>1, <1>2, <1>3 DEF Next

OnePass ==
    \A g, h \in GC : pc[g] \notin {"idle", "orphan"} /\ pc[h] \notin {"idle", "orphan"} => g = h

\* LOCK_NB on paseo-branch-gc.lock: passes exclude each other, and what another
\* helper can do beside one is to finish its last update-ref.
THEOREM PassesExclude == Spec => []OnePass
<1>1. Init => LockHeld
  BY DEF Init, LockHeld
<1>2. Inv /\ LockHeld /\ [Next]_vars => LockHeld'
  BY LockStep DEF Inv
<1>3. LockHeld => OnePass
  BY DEF LockHeld, OnePass
<1> QED  BY <1>1, <1>2, <1>3, Invariance, PTL DEF Spec
=============================================================================
