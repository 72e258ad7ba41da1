------------------------------- MODULE Bundles -------------------------------
(***************************************************************************)
(* Reading an object together with the objects it refers to: objects.get   *)
(* and GET /objects/:id with include_bodies, skills.get_bundle and         *)
(* skills.read_resource, over listRefsForObject and expandOutgoingRefBodies *)
(* (src/storage/refs.ts).                                                  *)
(*                                                                         *)
(* The object, its references, the sizes of their targets and each of the  *)
(* bodies are read in transactions of their own.  A body is embedded while *)
(* the sizes read before leave room for it in the budget.                  *)
(***************************************************************************)
EXTENDS Catalogue

CONSTANTS
  RefsLimits,  \* refs_limit, as callers ask for it
  Budget,      \* DEFAULT_BUDGET_BYTES
  PerRefMax    \* PER_REF_MAX_BYTES and INCLUDE_BODY_MAX_BYTES

ASSUME BundleAssumption == RefsLimits \subseteq Nat /\ Budget \in Nat /\ PerRefMax \in Nat

VARIABLE bundle

NoBundle == [at |-> "idle", of |-> CHOOSE o \in Objects : TRUE, limit |-> 0, all |-> <<>>,
             sizeOf |-> <<>>, used |-> 0, out |-> <<>>, truncated |-> FALSE]
BundleStages == {"idle", "refs", "sizes", "bodies", "attached", "read"}

BundleTypeOK ==
  /\ bundle.at \in BundleStages /\ (bundle.at # "idle" => bundle.of \in Objects)
  /\ ToSet(bundle.all) \subseteq Objects /\ DOMAIN bundle.sizeOf \subseteq Objects
  /\ bundle.used \in Nat /\ Len(bundle.out) <= Len(bundle.all)

BundleInit == bundle = NoBundle

Peek(step) == step /\ UNCHANGED <<state, size, refs, changes>>

\* readObject with the body, which is not read when it is too large.
Readable(o) == Visible(o) /\ size[o] <= PerRefMax

\* The object itself, with or without its body.
BundleBegin(o, limit) ==
  /\ bundle.at = "idle" /\ Visible(o)
  /\ bundle' = [bundle EXCEPT !.of = o, !.limit = limit,
                              !.at = IF limit > 0 THEN "refs" ELSE "read"]
  /\ UNCHANGED touched

\* listRefsForObject: the newest references first, deleted targets left out,
\* one more row than asked for to tell whether there are more.
RefsSelect ==
  /\ bundle.at = "refs"
  /\ LET seen == SeenRefs
         out  == Kept(seen, {n \in DOMAIN seen :
                             seen[n][1] = bundle.of /\ state[seen[n][2]] # "deleted"})
         rows == Reverse([n \in DOMAIN out |-> out[n][2]])
     IN  bundle' = [bundle EXCEPT !.at = IF rows = <<>> THEN "read" ELSE "sizes",
                      !.all = SubSeq(rows, 1, IF Len(rows) < bundle.limit THEN Len(rows) ELSE bundle.limit),
                      !.truncated = Len(rows) > bundle.limit]
  /\ UNCHANGED touched

SizesSelect ==
  /\ bundle.at = "sizes"
  /\ bundle' = [bundle EXCEPT !.at = "bodies",
                  !.sizeOf = [o \in {t \in ToSet(bundle.all) : Visible(t)} |-> size[o]]]
  /\ touched' = {}

Next1 == bundle.all[Len(bundle.out) + 1]
KnownSize(o) == IF o \in DOMAIN bundle.sizeOf THEN bundle.sizeOf[o] ELSE 0
Embed(what, bytes, used) ==
  bundle' = [bundle EXCEPT !.out = Append(@, [id |-> Next1, what |-> what, bytes |-> bytes]),
                           !.used = @ + used,
                           !.at = IF Len(bundle.out) + 1 = Len(bundle.all) THEN "read" ELSE "bodies"]

\* Mutant: the check is made before the size is added.
FitsUnlessFull(o) == bundle.used < Budget

\* The budget as it is used so far leaves room for the size read before.
Fits(o) == bundle.used + KnownSize(o) <= Budget

\* One reference: its body, or why there is none, or nothing at all: whatever
\* the read throws is caught.
NextBody ==
  /\ bundle.at = "bodies"
  /\ LET o == Next1
     IN  \/ KnownSize(o) > PerRefMax /\ Embed("oversized", 0, 0)
         \/ KnownSize(o) <= PerRefMax /\ ~Fits(o) /\ Embed("budget", 0, 0)
         \/ KnownSize(o) <= PerRefMax /\ Fits(o) /\ Readable(o)
            /\ Embed("body", size[o], KnownSize(o))
         \/ KnownSize(o) <= PerRefMax /\ Fits(o) /\ Embed("none", 0, 0)
  /\ UNCHANGED touched

\* skills.read_resource: the reference is looked for, then the object is read.
AttachmentSelect(e) ==
  /\ bundle.at = "idle" /\ e \in ToSet(SeenRefs)
  /\ bundle' = [bundle EXCEPT !.at = "attached", !.of = e[1], !.all = <<e[2]>>]
  /\ UNCHANGED touched

ReadAttached ==
  /\ bundle.at = "attached"
  /\ IF Readable(Next1)
     THEN Embed("body", size[Next1], 0)
     ELSE bundle' = [bundle EXCEPT !.at = "read"]
  /\ UNCHANGED touched

BundleNext ==
  Peek(\/ \E o \in Objects, limit \in RefsLimits : BundleBegin(o, limit)
       \/ RefsSelect \/ SizesSelect \/ NextBody
       \/ \E e \in Wanted : AttachmentSelect(e)
       \/ ReadAttached)

-----------------------------------------------------------------------------

\* The sums of the first numbers of v.
Sums(v) == LET S[n \in 0 .. Len(v)] == IF n = 0 THEN 0 ELSE S[n - 1] + v[n] IN S

Embedded == {n \in DOMAIN bundle.out : bundle.out[n].what = "body"}
Bytes    == [n \in DOMAIN bundle.out |-> IF n \in Embedded THEN bundle.out[n].bytes ELSE 0]
Known    == [n \in DOMAIN bundle.out |->
              IF n \in Embedded THEN KnownSize(bundle.out[n].id) ELSE 0]

\* The bodies embedded in a bundle keep to the budget, unless one of them was
\* rewritten or came into view after the sizes were read; and a body is left
\* out for the budget only when those before it leave no room.
OverBudgetOnlyIfTouched ==
  (bundle.at = "read" /\ DOMAIN bundle.sizeOf # {}) =>
    /\ Sums(Bytes)[Len(bundle.out)] > Budget => touched \cap {bundle.out[n].id : n \in Embedded} # {}
    /\ \A n \in DOMAIN bundle.out : bundle.out[n].what = "budget" =>
         Sums(Known)[n - 1] + bundle.sizeOf[bundle.out[n].id] > Budget
=============================================================================
