------------------------------ MODULE BranchGC ------------------------------
(***************************************************************************)
(* branch_gc.py --apply: a helper deletes the local branches of archived   *)
(* Paseo workspaces that have been merged.  It reads the registry of Paseo *)
(* and the references of git one after the other, while people and other   *)
(* programs change both, and checks again before each deletion.  The base  *)
(* branch and backup/ are not members of Branch; a preview deletes nothing *)
(* and is left out.                                                        *)
(***************************************************************************)
EXTENDS Integers, FiniteSets

CONSTANTS
    Branches,   \* how many branches, in the order of their names
    GC,         \* helpers: of a broker, or run by hand
    MaxChanges, \* bound: changes made by others
    MaxFaults   \* bound: helpers that are killed, commands that fail

ASSUME BoundsAssumption ==
    Branches \in Nat /\ MaxChanges \in Nat /\ MaxFaults \in Nat

Branch == 1..Branches

\* A commit stands for itself, a tip for the set of commits that it reaches,
\* and the empty set for a reference that is not there.
Commit == 0..(2 * Branches + MaxChanges)
Tip == SUBSET Commit
PR == [head: Branch, tip: Tip, merge: Commit]

VARIABLES
    refs,       \* refs/heads
    base,       \* the local integration branch
    wt,         \* branches with a worktree
    registry,   \* Paseo's records: "active", "archived" or "foreign"
    prs,        \* the merged pull requests on GitHub
    fetched,    \* merge commits that are local objects
    lock,       \* who holds paseo-branch-gc.lock: a set, empty or of one
    pc,         \* where each helper is
    seen,       \* what it has read
    todo,       \* the candidates it has not dealt with
    late,       \* what has changed since it began to check again
    changes, faults

world == <<refs, base, wt, registry, prs, fetched>>
vars == <<world, lock, pc, seen, todo, late, changes, faults>>

Stage == {"idle", "registry", "base", "refs", "look", "prove",
          "registryAgain", "baseAgain", "worktreeAgain", "delete", "orphan"}
Fact == {"registry", "base", "worktree"}
Seen == [registry: [Branch -> {"active", "archived", "foreign"}], base: Tip,
         refs: [Branch -> Tip], asked: BOOLEAN, prs: SUBSET PR]

TypeOK ==
    /\ refs \in [Branch -> Tip] /\ base \in Tip /\ wt \subseteq Branch
    /\ registry \in [Branch -> {"active", "archived", "foreign"}]
    /\ prs \subseteq PR /\ fetched \subseteq Commit
    /\ lock \subseteq GC
    /\ pc \in [GC -> Stage] /\ seen \in [GC -> Seen]
    /\ todo \in [GC -> SUBSET Branch] /\ late \in [GC -> SUBSET Fact]
    /\ changes \in 0..MaxChanges /\ faults \in 0..MaxFaults
    /\ \A g \in GC : pc[g] \notin {"idle", "registry", "base", "refs"} =>
          \A b \in todo[g] : seen[g].refs[b] # {}

Unread == [registry |-> [b \in Branch |-> "foreign"], base |-> {},
           refs |-> [b \in Branch |-> {}], asked |-> FALSE, prs |-> {}]

FirstPR(b) == [head |-> b, tip |-> {0, b}, merge |-> Branches + b]

\* Sessions have ended.  Some of their branches have been merged on GitHub, and
\* the others may have been merged here.
Init ==
    /\ refs = [b \in Branch |-> {0, b}]
    /\ wt = {} /\ registry = [b \in Branch |-> "archived"]
    /\ \E remote \in SUBSET Branch :
          /\ prs = {FirstPR(b) : b \in remote}
          /\ base \in {{0}, {0} \cup (Branch \ remote)}
    /\ fetched = {}
    /\ lock = {} /\ pc = [g \in GC |-> "idle"] /\ seen = [g \in GC |-> Unread]
    /\ todo = [g \in GC |-> {}] /\ late = [g \in GC |-> {}]
    /\ changes = 0 /\ faults = 0

----------------------------------------------------------------------------
(* A pass of clean().                                                      *)

Go(g, stage) == pc' = [pc EXCEPT ![g] = stage]

\* clean() returns or raises, and forgets what it has read; the lock goes with it.
Quit(g) ==
    /\ Go(g, "idle") /\ lock' = lock \ {g}
    /\ seen' = [seen EXCEPT ![g] = Unread] /\ todo' = [todo EXCEPT ![g] = {}]
    /\ late' = [late EXCEPT ![g] = {}]

Bounds == <<changes, faults>>
Notes == <<seen, todo, late>>

Start(g) ==
    /\ pc[g] = "idle" /\ lock = {}
    /\ lock' = {g} /\ Go(g, "registry")
    /\ UNCHANGED <<world, Notes, Bounds>>

\* inventory() and candidates(): owned and not active anywhere.
ReadRegistry(g) ==
    /\ pc[g] = "registry" /\ Go(g, "base")
    /\ seen' = [seen EXCEPT ![g].registry = registry]
    /\ todo' = [todo EXCEPT ![g] = {b \in Branch : registry[b] = "archived"}]
    /\ UNCHANGED <<world, lock, late, Bounds>>

ReadBase(g) ==
    /\ pc[g] = "base" /\ Go(g, "refs")
    /\ seen' = [seen EXCEPT ![g].base = base]
    /\ UNCHANGED <<world, lock, todo, late, Bounds>>

\* Mutant: candidates that have no reference are kept.
ReadRefsOnly(g) ==
    /\ pc[g] = "refs" /\ Go(g, "look")
    /\ seen' = [seen EXCEPT ![g].refs = refs]
    /\ UNCHANGED <<world, lock, todo, late, Bounds>>

\* for-each-ref: names & branches.keys().
ReadRefs(g) ==
    /\ pc[g] = "refs" /\ Go(g, "look")
    /\ seen' = [seen EXCEPT ![g].refs = refs]
    /\ todo' = [todo EXCEPT ![g] = {b \in @ : refs[b] # {}}]
    /\ UNCHANGED <<world, lock, late, Bounds>>

\* sorted(): the first of the names that are left.
IsNext(g, b) == b \in todo[g] /\ \A c \in todo[g] : b <= c

Skip(g, b) ==
    /\ Go(g, "look") /\ todo' = [todo EXCEPT ![g] = @ \ {b}]
    /\ UNCHANGED <<world, lock, seen, late, Bounds>>

\* The loop ends, or takes the next branch and asks git for its worktrees.
Look(g) ==
    /\ pc[g] = "look"
    /\ \/ todo[g] = {} /\ Quit(g) /\ UNCHANGED <<world, Bounds>>
       \/ \E b \in wt : IsNext(g, b) /\ Skip(g, b)
       \/ /\ \E b \in Branch \ wt : IsNext(g, b)
          /\ Go(g, "prove")
          /\ UNCHANGED <<world, lock, Notes, Bounds>>

Ancestor(tip, of) == tip \subseteq of

Fault == faults < MaxFaults /\ faults' = faults + 1 /\ UNCHANGED changes

\* merged_prs() is called once in a pass, for the first branch that needs it;
\* an error of the API means no proof.
Ask(g) ==
    /\ pc[g] = "prove" /\ ~seen[g].asked
    /\ \E b \in Branch : IsNext(g, b) /\ ~Ancestor(seen[g].refs[b], seen[g].base)
    /\ \/ /\ seen' = [seen EXCEPT ![g] = [@ EXCEPT !.asked = TRUE, !.prs = prs]]
          /\ UNCHANGED Bounds
       \/ /\ seen' = [seen EXCEPT ![g] = [@ EXCEPT !.asked = TRUE]]
          /\ Fault
    /\ UNCHANGED <<world, lock, pc, todo, late>>

Matching(g, b) == {p \in seen[g].prs : p.head = b /\ p.tip = seen[g].refs[b]}

\* Mutant: a branch without a proof raises.
ProveOrRaise(g) ==
    /\ pc[g] = "prove"
    /\ \E b \in Branch :
          /\ IsNext(g, b)
          /\ IF Ancestor(seen[g].refs[b], seen[g].base)
             THEN Go(g, "registryAgain") /\ UNCHANGED <<lock, Notes>>
             ELSE seen[g].asked /\ Quit(g)
    /\ UNCHANGED <<world, Bounds>>

\* The tip is merged itself, or the merge of exactly this tip is.  ancestor()
\* raises for a merge commit that is not a local object.
Prove(g) ==
    /\ pc[g] = "prove"
    /\ \E b \in Branch :
          /\ IsNext(g, b)
          /\ \/ /\ \/ Ancestor(seen[g].refs[b], seen[g].base)
                   \/ /\ seen[g].asked
                      /\ \E p \in Matching(g, b) : p.merge \in seen[g].base
                /\ Go(g, "registryAgain")
                /\ UNCHANGED <<world, lock, Notes, Bounds>>
             \/ /\ ~Ancestor(seen[g].refs[b], seen[g].base)
                /\ \E p \in Matching(g, b) : p.merge \notin fetched
                /\ Quit(g) /\ UNCHANGED <<world, Bounds>>
             \/ /\ ~Ancestor(seen[g].refs[b], seen[g].base) /\ seen[g].asked
                /\ \A p \in Matching(g, b) : p.merge \in fetched \ seen[g].base
                /\ Skip(g, b)

\* Mutant: the registry is not read again.
TrustRegistry(g) ==
    /\ pc[g] = "registryAgain"
    /\ Go(g, "baseAgain") /\ late' = [late EXCEPT ![g] = {}]
    /\ UNCHANGED <<lock, seen, todo, world, Bounds>>

\* The bytes of the registry are compared.  (A workspace that was restored and
\* archived again has other bytes, and the code raises where this goes on.)
RecheckRegistry(g) ==
    /\ pc[g] = "registryAgain"
    /\ IF registry = seen[g].registry
       THEN /\ Go(g, "baseAgain") /\ late' = [late EXCEPT ![g] = {}]
            /\ UNCHANGED <<lock, seen, todo>>
       ELSE Quit(g)
    /\ UNCHANGED <<world, Bounds>>

RecheckBase(g) ==
    /\ pc[g] = "baseAgain"
    /\ IF base = seen[g].base
       THEN Go(g, "worktreeAgain") /\ UNCHANGED <<lock, Notes>>
       ELSE Quit(g)
    /\ UNCHANGED <<world, Bounds>>

\* Mutant: worktrees are looked at once.
TrustWorktree(g) ==
    /\ pc[g] = "worktreeAgain" /\ Go(g, "delete")
    /\ UNCHANGED <<world, lock, Notes, Bounds>>

RecheckWorktree(g) ==
    /\ pc[g] = "worktreeAgain"
    /\ \E b \in Branch :
          /\ IsNext(g, b)
          /\ IF b \in wt
             THEN Skip(g, b)
             ELSE Go(g, "delete") /\ UNCHANGED <<world, lock, Notes, Bounds>>

\* Mutant: the tip is not compared.
DeleteAny(g) ==
    /\ pc[g] \in {"delete", "orphan"}
    /\ \E b \in Branch :
          /\ IsNext(g, b)
          /\ refs' = [refs EXCEPT ![b] = {}]
          /\ IF pc[g] = "delete"
             THEN Go(g, "look") /\ todo' = [todo EXCEPT ![g] = @ \ {b}]
                  /\ UNCHANGED <<lock, seen, late>>
             ELSE Quit(g)
    /\ UNCHANGED <<base, wt, registry, prs, fetched, Bounds>>

\* update-ref -d compares the tip with the one that was proved, or fails.  It may
\* outlive the helper that runs it.
Delete(g) ==
    /\ pc[g] \in {"delete", "orphan"}
    /\ \E b \in Branch :
          /\ IsNext(g, b)
          /\ refs' = IF refs[b] = seen[g].refs[b] THEN [refs EXCEPT ![b] = {}] ELSE refs
          /\ IF pc[g] = "delete" /\ refs[b] = seen[g].refs[b]
             THEN Go(g, "look") /\ todo' = [todo EXCEPT ![g] = @ \ {b}]
                  /\ UNCHANGED <<lock, seen, late>>
             ELSE Quit(g)
    /\ UNCHANGED <<base, wt, registry, prs, fetched, Bounds>>

\* A command fails or takes longer than its ten seconds, or the broker kills the
\* group of the helper.
Abort(g) ==
    /\ pc[g] \notin {"idle", "orphan"}
    /\ Fault /\ Quit(g)
    /\ UNCHANGED world

\* Only the helper is killed.
KillHelper(g) ==
    /\ pc[g] = "delete"
    /\ Fault /\ Go(g, "orphan") /\ lock' = lock \ {g}
    /\ UNCHANGED <<world, Notes>>

----------------------------------------------------------------------------
(* Others: Paseo, agents, people, GitHub.                                  *)

Others ==
    /\ changes < MaxChanges /\ changes' = changes + 1
    /\ UNCHANGED <<lock, pc, seen, todo, faults>>

Unnoticed(fact) == late' = [g \in GC |-> late[g] \cup {fact}]

New == 2 * Branches + changes + 1

CommitTo(b) ==
    /\ refs[b] # {} /\ Others
    /\ refs' = [refs EXCEPT ![b] = @ \cup {New}]
    /\ UNCHANGED <<base, wt, registry, prs, fetched, late>>

\* A worktree is added, with a new branch if there is none.
AddWorktree(b) ==
    /\ b \notin wt /\ Others
    /\ wt' = wt \cup {b} /\ Unnoticed("worktree")
    /\ refs' = [refs EXCEPT ![b] = IF @ = {} THEN base ELSE @]
    /\ UNCHANGED <<base, registry, prs, fetched>>

RemoveWorktree(b) ==
    /\ b \in wt /\ Others
    /\ wt' = wt \ {b} /\ Unnoticed("worktree")
    /\ UNCHANGED <<refs, base, registry, prs, fetched>>

\* Paseo restores or archives a workspace, or forgets one.
ChangeRegistry(b) ==
    /\ Others
    /\ \E status \in {"active", "archived", "foreign"} \ {registry[b]} :
          registry' = [registry EXCEPT ![b] = status]
    /\ Unnoticed("registry")
    /\ UNCHANGED <<refs, base, wt, prs, fetched>>

\* A pull request is merged on GitHub, as one new commit.
Squash(b) ==
    /\ refs[b] # {} /\ Others
    /\ \A p \in prs : p.head = b => p.tip # refs[b]
    /\ prs' = prs \cup {[head |-> b, tip |-> refs[b], merge |-> New]}
    /\ UNCHANGED <<refs, base, wt, registry, fetched, late>>

Fetch ==
    /\ fetched # {p.merge : p \in prs} /\ Others
    /\ fetched' = {p.merge : p \in prs}
    /\ UNCHANGED <<refs, base, wt, registry, prs, late>>

\* The integration branch takes in what was fetched, or a branch, or is reset.
MoveBase ==
    /\ Others
    /\ base' \in {base \cup fetched, {0}} \cup {base \cup refs[b] : b \in Branch}
    /\ base' # base
    /\ Unnoticed("base")
    /\ UNCHANGED <<refs, wt, registry, prs, fetched>>

----------------------------------------------------------------------------
Helper(g) ==
    \/ Start(g) \/ ReadRegistry(g) \/ ReadBase(g) \/ ReadRefs(g) \/ Look(g)
    \/ Ask(g) \/ Prove(g) \/ RecheckRegistry(g) \/ RecheckBase(g)
    \/ RecheckWorktree(g) \/ Delete(g)

Environment ==
    \/ \E b \in Branch :
          CommitTo(b) \/ AddWorktree(b) \/ RemoveWorktree(b) \/ ChangeRegistry(b) \/ Squash(b)
    \/ Fetch \/ MoveBase

Next ==
    \/ \E g \in GC : Helper(g) \/ Abort(g) \/ KillHelper(g)
    \/ Environment

Spec == Init /\ [][Next]_vars

\* Helpers run on and are started again, the broker starts one after every
\* agent.  Nobody has to change anything.
Fairness == \A g \in GC : WF_vars(Helper(g))

FairSpec == Spec /\ Fairness

----------------------------------------------------------------------------
(* Properties.                                                             *)

Deleted(b) == refs[b] # {} /\ refs'[b] = {}

\* A deletion is the last step of a pass, and "late" says what changed after the
\* pass began to check again.
Excused(b, fact) ==
    \E g \in GC : pc[g] \in {"delete", "orphan"} /\ IsNext(g, b) /\ fact \in late[g]

\* The branch of an active or an unknown workspace stays, unless the workspace
\* changed while the deletion was under way.
ActiveKept ==
    [][\A b \in Branch : Deleted(b) => registry[b] = "archived" \/ Excused(b, "registry")]_vars

\* A branch with a worktree stays, unless it was added as late as that.
TreesKept ==
    [][\A b \in Branch : Deleted(b) => b \notin wt \/ Excused(b, "worktree")]_vars

\* Work is integrated if the base has it, or has the merge of exactly this tip.
Integrated(b) ==
    \/ Ancestor(refs[b], base)
    \/ \E p \in prs : p.head = b /\ p.tip = refs[b] /\ p.merge \in base

\* No work is lost: what is deleted is integrated in the base, whatever was
\* committed in the meantime, unless the base itself was moved.
WorkKept ==
    [][\A b \in Branch : Deleted(b) => Integrated(b) \/ Excused(b, "base")]_vars

Eligible(b) ==
    refs[b] # {} /\ registry[b] = "archived" /\ b \notin wt /\ Integrated(b)

\* A branch before it whose merge was not fetched makes every pass raise.
Blocked(b) ==
    \E c \in 1..(b - 1) :
        /\ refs[c] # {} /\ registry[c] = "archived" /\ c \notin wt
        /\ \E p \in prs : p.head = c /\ p.tip = refs[c] /\ p.merge \notin fetched

\* Every branch that may go does go in the end, whatever its neighbours are.
Collected == \A b \in Branch : Eligible(b) ~> (~Eligible(b) \/ Blocked(b))
=============================================================================
