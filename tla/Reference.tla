------------------------------ MODULE Reference ------------------------------
(***************************************************************************)
(* ReferenceHandle and the one-shot DereferenceHandle of derefInto(),      *)
(* src/src/reference_handle.cc.                                            *)
(*                                                                         *)
(* A ReferenceHandle object lives in a holder isolate and names a value in *)
(* its owning isolate (ReferenceData::isolate / reference / context).      *)
(* release() clears the three fields; CheckDisposed() tests `reference`.   *)
(* derefInto() makes a DereferenceHandle that carries a copy of the owner  *)
(* and the remote handle; its TransferOut moves both into a capsule, which *)
(* is transferred in at some destination isolate.                          *)
(*                                                                         *)
(* The `release` option of deref()/derefInto() is read with IsOptionSet,   *)
(* a property read that may run a guest getter in the holder isolate. The  *)
(* model lets that getter call release() on the same reference.            *)
(***************************************************************************)
EXTENDS Naturals

CONSTANTS
  Isolates,   \* isolates (IsolateHolder identities)
  Handles,    \* pool of ReferenceHandle objects
  OneShots,   \* pool of DereferenceHandle objects
  ValueKinds, \* kinds of value new Reference() may be given (TypeOf!Kinds)
  None        \* empty shared_ptr / empty RemoteHandle / object not created

ASSUME None \notin Isolates

T == INSTANCE TypeOf

ASSUME ValueKinds \subseteq T!Kinds

VARIABLES
  ref,        \* ref[h]: the ReferenceHandle object h
  once,       \* once[d]: the DereferenceHandle object d
  capsule,    \* capsule[d]: the DereferenceHandleTransferable made from d
  delivered,  \* delivered[d]: times d's value was materialised by TransferIn
  emptyDeref, \* ivm::Deref was applied to an empty RemoteHandle
  reuseErr    \* one-shots whose TransferOut threw "should only be used once"

vars == <<ref, once, capsule, delivered, emptyDeref, reuseErr>>

NoRef     == [holder |-> None, isolate |-> None, live |-> FALSE,
              value |-> None, typeOf |-> None]
NoOneShot == [holder |-> None, isolate |-> None, live |-> FALSE]
NoCapsule == [state |-> "none", isolate |-> None, dest |-> None]

Created(h) == ref[h].holder # None

(* ReferenceHandle::CheckDisposed passes iff `reference` is non-empty. *)
CheckDisposed(h) == ref[h].live

(* Mutant: Release resets `isolate` but forgets `reference = {}`. *)
ClearedKeepsReference(r) == [r EXCEPT !.isolate = None]

(* ReferenceHandle::Release body after CheckDisposed: isolate.reset();    *)
(* reference = {}; context = {};                                          *)
Cleared(r) == [r EXCEPT !.isolate = None, !.live = FALSE]

-----------------------------------------------------------------------------
(* new Reference(value): ReferenceData captures the current isolate, a    *)
(* handle to the value and the type tag InferTypeOf(value). `value` is    *)
(* the kind of the referenced value, which the handle keeps naming.       *)
New(h, i) ==
  /\ ~Created(h)
  /\ \E v \in ValueKinds :
       ref' = [ref EXCEPT ![h] = [holder |-> i, isolate |-> i, live |-> TRUE,
                                  value |-> v, typeOf |-> T!InferTypeOf(v)]]
  /\ UNCHANGED <<once, capsule, delivered, emptyDeref, reuseErr>>

(* ReferenceHandleTransferable::TransferIn: a new ReferenceHandle in     *)
(* `dest` over the moved ReferenceData, whose copy constructor keeps the   *)
(* isolate, reference, context and type_of.                               *)
Received(r, dest) == [r EXCEPT !.holder = dest]

(* A Reference passed into isolate `dest` (argument, receiver, set value, *)
(* result): TransferOut copies ReferenceData without CheckDisposed and    *)
(* TransferIn builds a new ReferenceHandle from it in `dest`.             *)
TransferReference(h, h2, dest) ==
  /\ Created(h)
  /\ ~Created(h2)
  /\ ref' = [ref EXCEPT ![h2] = Received(ref[h], dest)]
  /\ UNCHANGED <<once, capsule, delivered, emptyDeref, reuseErr>>

(* release(): CheckDisposed(), then clear. *)
Release(h) ==
  /\ Created(h)
  /\ CheckDisposed(h)
  /\ ref' = [ref EXCEPT ![h] = Cleared(@)]
  /\ UNCHANGED <<once, capsule, delivered, emptyDeref, reuseErr>>

(* deref(options): CheckDisposed(); owner must be the current isolate;    *)
(* read options.release (whose getter may release h); ivm::Deref(reference);*)
(* then Release() if the option was set, which throws if h is already     *)
(* released. `rel` is the option's value, `reenter` whether its getter    *)
(* calls h.release().                                                      *)
Deref(h, rel, reenter) ==
  /\ Created(h)
  /\ CheckDisposed(h)
  /\ ref[h].isolate = ref[h].holder
  /\ LET afterGetter == IF reenter THEN Cleared(ref[h]) ELSE ref[h]
     IN /\ emptyDeref' = (emptyDeref \/ ~afterGetter.live)
        /\ ref' = [ref EXCEPT ![h] = IF rel THEN Cleared(afterGetter)
                                            ELSE afterGetter]
  /\ UNCHANGED <<once, capsule, delivered, reuseErr>>

(* derefInto(options): CheckDisposed(); read options.release; make a      *)
(* DereferenceHandle from the current `isolate` and `reference`; then     *)
(* Release() if the option was set. If the getter released h, that        *)
(* Release() throws and the new DereferenceHandle never reaches the guest.*)
DerefInto(h, d, rel, reenter) ==
  /\ Created(h)
  /\ CheckDisposed(h)
  /\ once[d].holder = None
  /\ LET afterGetter == IF reenter THEN Cleared(ref[h]) ELSE ref[h]
     IN IF rel /\ reenter
          THEN /\ ref' = [ref EXCEPT ![h] = afterGetter]
               /\ UNCHANGED once
          ELSE /\ once' = [once EXCEPT ![d] = [holder |-> ref[h].holder,
                                              isolate |-> afterGetter.isolate,
                                              live |-> afterGetter.live]]
               /\ ref' = [ref EXCEPT ![h] = IF rel THEN Cleared(afterGetter)
                                                   ELSE afterGetter]
  /\ UNCHANGED <<capsule, delivered, emptyDeref, reuseErr>>

(* Mutant: TransferOut copies the owner and the handle, not moves them. *)
MovedKeeps(o, d) == o

(* The move in DereferenceHandle::TransferOut: std::move(isolate) and     *)
(* std::move(reference) leave the one-shot empty and fill a capsule bound *)
(* for `dest`.                                                            *)
Moved(o, d) == [o EXCEPT ![d].isolate = None, ![d].live = FALSE]
InFlight(c, o, d, dest) ==
  [c EXCEPT ![d] = [state |-> "flight", isolate |-> o[d].isolate, dest |-> dest]]

(* DereferenceHandleTransferable::TransferIn succeeds only in the owner.   *)
CanTransferIn(c, d, at) == c[d].isolate = at

(* Mutant: TransferOut copies isolate and reference instead of moving them. *)
OneShotTransferOutCopy(d, dest) ==
  /\ once[d].holder # None
  /\ once[d].live
  /\ capsule' = [capsule EXCEPT ![d] = [state |-> "flight",
                                        isolate |-> once[d].isolate,
                                        dest |-> dest]]
  /\ UNCHANGED <<ref, once, delivered, emptyDeref, reuseErr>>

(* DereferenceHandle::TransferOut, when the guest passes d toward `dest`: *)
(* throws "should only be used once" if `reference` is empty, else moves  *)
(* isolate and reference into a DereferenceHandleTransferable.            *)
OneShotTransferOut(d, dest) ==
  /\ once[d].holder # None
  /\ IF once[d].live
       THEN /\ capsule' = InFlight(capsule, once, d, dest)
            /\ once' = Moved(once, d)
            /\ UNCHANGED reuseErr
       ELSE /\ reuseErr' = reuseErr \cup {d}
            /\ UNCHANGED <<once, capsule>>
  /\ UNCHANGED <<ref, delivered, emptyDeref>>

(* DereferenceHandleTransferable::TransferIn at the destination: yields   *)
(* the value only in the owning isolate, else a TypeError.                *)
CapsuleTransferIn(d) ==
  /\ capsule[d].state = "flight"
  /\ capsule' = [capsule EXCEPT ![d].state = "done"]
  /\ delivered' = [delivered EXCEPT ![d] =
                     IF CanTransferIn(capsule, d, capsule[d].dest) THEN @ + 1 ELSE @]
  /\ UNCHANGED <<ref, once, emptyDeref, reuseErr>>

-----------------------------------------------------------------------------
Init ==
  /\ ref = [h \in Handles |-> NoRef]
  /\ once = [d \in OneShots |-> NoOneShot]
  /\ capsule = [d \in OneShots |-> NoCapsule]
  /\ delivered = [d \in OneShots |-> 0]
  /\ emptyDeref = FALSE
  /\ reuseErr = {}

Next ==
  \/ \E h \in Handles, i \in Isolates : New(h, i)
  \/ \E h, h2 \in Handles, dest \in Isolates : TransferReference(h, h2, dest)
  \/ \E h \in Handles : Release(h)
  \/ \E h \in Handles, rel, reenter \in BOOLEAN : Deref(h, rel, reenter)
  \/ \E h \in Handles, d \in OneShots, rel, reenter \in BOOLEAN :
       DerefInto(h, d, rel, reenter)
  \/ \E d \in OneShots, dest \in Isolates : OneShotTransferOut(d, dest)
  \/ \E d \in OneShots : CapsuleTransferIn(d)

Spec == Init /\ [][Next]_vars

-----------------------------------------------------------------------------
(* ReferenceData and a DereferenceHandle hold an owner and a value handle *)
(* together, or neither.                                                    *)
Full(holders)  == [holder : holders, isolate : Isolates, live : {TRUE}]
Empty(holders) == [holder : holders, isolate : {None}, live : {FALSE}]

TypeOK ==
  /\ \A h \in Handles :
       /\ [f \in {"holder", "isolate", "live"} |-> ref[h][f]]
            \in Full(Isolates) \cup Empty(Isolates \cup {None})
       /\ ref[h].value \in ValueKinds \cup {None}
       /\ ref[h].typeOf \in T!Tags \cup {None}
  /\ once \in [OneShots -> Full(Isolates) \cup Empty(Isolates \cup {None})]
  /\ capsule \in [OneShots -> [state : {"none", "flight", "done", "dropped"},
                               isolate : Isolates \cup {None},
                               dest : Isolates \cup {None}]]
  /\ delivered \in [OneShots -> Nat]
  /\ emptyDeref \in BOOLEAN
  /\ reuseErr \subseteq OneShots

(* derefInto()'s result can be materialised at most once: the second      *)
(* TransferOut of a DereferenceHandle finds `reference` moved out and     *)
(* throws, whatever the guest does with the reference it came from.       *)
OneShotDeliveredOnce ==
  \A d \in OneShots : delivered[d] <= 1

(* deref() hands back Deref(reference) only for a reference that is still *)
(* live at that point: a reference released while deref() runs must make   *)
(* it fail like any other operation on a released reference (spec 3, 8).  *)
NoEmptyDeref ==
  ~emptyDeref

(* `typeof` on a live reference (TypeOfGetter passes CheckDisposed), in  *)
(* whichever isolate it has been passed to, answers from the tag that      *)
(* new Reference() cached JavaScript's typeof of the value it names, with  *)
(* "null" for null, for every kind of value the spec's tag set covers      *)
(* (spec 3, 6): the predicate chain must catch functions before the Object *)
(* default, and the tag must travel with the ReferenceData it was made in. *)
TypeOfAgrees ==
  \A h \in Handles :
    CheckDisposed(h) /\ ref[h].value \in T!SpecKinds =>
      T!TypeOfGetter(ref[h].typeOf) = T!ReferenceTypeof(ref[h].value)

(* The "should only be used once" error of DereferenceHandle::TransferOut *)
(* is raised only for a one-shot that was used before: its value was      *)
(* moved out, earlier in the same call or into a capsule that is in       *)
(* flight or was transferred in (spec 4.2 and 8: only a second            *)
(* materialisation fails). A capsule dropped by a call that failed, or a  *)
(* one-shot that derefInto() built from a released reference, was never  *)
(* materialised.                                                           *)
ReuseErrorOnlyAfterUse ==
  [][\A d \in OneShots :
       d \in reuseErr' \ reuseErr =>
         capsule[d].state \in {"flight", "done"} \/ capsule'[d] # capsule[d]]_vars

=============================================================================
