---------------------------- MODULE BundlesProofs ----------------------------
(***************************************************************************)
(* Proofs about the bundles, for any providers, files, images and faults.  *)
(***************************************************************************)
EXTENDS BundlesProperties, TLAPS

\* A service that does not run has no child, one that prepares at most one, and
\* only one that is ready has servers: so no server outlives its image, nor what
\* a check found under it.
ChildInv ==
    /\ phase \in {"off", "failed"} => \A p \in Providers : child[p] = "none"
    /\ phase = "preparing" =>
          \A p, q \in Providers : child[p] # "none" /\ child[q] # "none" => p = q
    /\ \A p \in Providers : child[p] \in {"verified", "serving"} => phase = "ready"

\* While start() prepares, a provider with a child is still to be prepared, and
\* the bundles of the others are whole, but for what someone else has changed.
PreparedInv ==
    phase = "preparing" =>
        /\ \A p \in Providers : child[p] # "none" => p \in unprepared
        /\ \A p \in Providers \ (unprepared \cup harmed) : Whole(p)

\* So is the bundle a server is about to load.
VerifiedInv == \A p \in Providers \ harmed : child[p] = "verified" => Whole(p)

\* A download that is under way has nothing to fetch that is good already.
FetchInv ==
    \A p \in Providers : child[p] = "fetch" =>
        \A f \in fetching[p] : disk[p][f] # image

IInv == TypeOK /\ ChildInv /\ PreparedInv /\ VerifiedInv /\ FetchInv /\ ServesWhole

\* The service starts off, with empty disks and no children.
THEOREM InitIInv == Init => IInv
<1> SUFFICES ASSUME Init PROVE IInv
  OBVIOUS
<1>1. TypeOK
  BY BundlesAssumption DEF Init, TypeOK
<1>2. Serving = {}
  BY DEF Init, Serving
<1>3. ChildInv /\ PreparedInv /\ VerifiedInv /\ FetchInv /\ ServesWhole
  BY <1>2 DEF Init, ChildInv, PreparedInv, VerifiedInv, FetchInv, ServesWhole
<1>4. QED
  BY <1>1, <1>3 DEF IInv

\* The types are preserved.
LEMMA TypeStep == ASSUME IInv, [Next]_vars PROVE TypeOK'
<1> USE BundlesAssumption DEF IInv, TypeOK, childVars
<1>1. CASE Boot \/ Ready \/ ContainerEnds
  BY <1>1 DEF Boot, Ready, ContainerEnds, Fault
<1>2. ASSUME NEW p \in Providers, Prepare(p) \/ Spawn(p) \/ Check(p) \/ Fetched(p) \/ Require(p)
                                  \/ FetchFails(p) \/ Load(p) \/ ChildEnds(p)
      PROVE  TypeOK'
  BY <1>2 DEF Prepare, Spawn, Check, Fetched, Require, FetchFails, Load, ChildEnds,
              Goes, Fault, Succeeds, Fails, Outdated
<1>3. ASSUME NEW p \in Providers, NEW f \in Files[p], Arrive(p, f) \/ Harm(p, f)
      PROVE  TypeOK'
  BY <1>3 DEF Arrive, Harm, Fault
<1>4. CASE UNCHANGED vars
  BY <1>4 DEF vars
<1>5. QED
  BY <1>1, <1>2, <1>3, <1>4 DEF Next, Ensuring

\* So is what ChildInv says: a start finds no children, and the end of the
\* container or of a start leaves none.
LEMMA ChildStep == ASSUME IInv, [Next]_vars PROVE ChildInv'
<1> USE DEF IInv, TypeOK, ChildInv, childVars
<1>1. CASE Boot \/ Ready \/ ContainerEnds
  BY <1>1 DEF Boot, Ready, ContainerEnds
<1>2. ASSUME NEW p \in Providers, Prepare(p) \/ Spawn(p) \/ Fetched(p) \/ Load(p) \/ ChildEnds(p)
      PROVE  ChildInv'
  BY <1>2 DEF Prepare, Spawn, Fetched, Load, ChildEnds, Goes
<1>3. ASSUME NEW p \in Providers, Check(p) \/ Require(p) \/ FetchFails(p)
      PROVE  ChildInv'
  BY <1>3 DEF Check, Require, FetchFails, Goes, Succeeds, Fails, PreparedInv
<1>4. ASSUME NEW p \in Providers, NEW f \in Files[p], Arrive(p, f) \/ Harm(p, f)
      PROVE  ChildInv'
  BY <1>4 DEF Arrive, Harm
<1>5. CASE UNCHANGED vars
  BY <1>5 DEF vars
<1>6. QED
  BY <1>1, <1>2, <1>3, <1>4, <1>5 DEF Next, Ensuring

\* PreparedInv is preserved: a command ends well only when its bundle is whole,
\* and what one downloads changes no other bundle.
LEMMA PreparedStep == ASSUME IInv, [Next]_vars PROVE PreparedInv'
<1> USE DEF IInv, TypeOK, PreparedInv, childVars
<1>1. CASE Boot \/ Ready \/ ContainerEnds
  BY <1>1 DEF Boot, Ready, ContainerEnds, ChildInv
<1>2. ASSUME NEW p \in Providers, Prepare(p) \/ Spawn(p) \/ Fetched(p) \/ Load(p) \/ ChildEnds(p)
                                  \/ FetchFails(p)
      PROVE  PreparedInv'
  BY <1>2 DEF Prepare, Spawn, Fetched, Load, ChildEnds, FetchFails, Fails, Goes, Whole, ChildInv
<1>3. ASSUME NEW p \in Providers, Check(p) \/ Require(p)
      PROVE  PreparedInv'
  BY <1>3 DEF Check, Require, Goes, Succeeds, Fails, Whole
<1>4. ASSUME NEW p \in Providers, NEW f \in Files[p], Arrive(p, f)
      PROVE  PreparedInv'
  <2>1. \A q \in Providers \ {p} : disk'[q] = disk[q]
    BY <1>4 DEF Arrive
  <2>2. QED
    BY <1>4, <2>1 DEF Arrive, Whole
<1>5. ASSUME NEW p \in Providers, NEW f \in Files[p], Harm(p, f)
      PROVE  PreparedInv'
  <2>1. \A q \in Providers \ {p} : disk'[q] = disk[q]
    BY <1>5 DEF Harm
  <2>2. phase = "preparing" => harmed' = harmed \cup {p}
    BY <1>5 DEF Harm, ChildInv
  <2>3. QED
    BY <1>5, <2>1, <2>2 DEF Harm, Whole
<1>6. CASE UNCHANGED vars
  BY <1>6 DEF vars, Whole
<1>7. QED
  BY <1>1, <1>2, <1>3, <1>4, <1>5, <1>6 DEF Next, Ensuring

\* VerifiedInv is preserved: a server goes on from its check only when the bundle
\* is whole, and nothing is downloaded for it any more.
LEMMA VerifiedStep == ASSUME IInv, [Next]_vars PROVE VerifiedInv'
<1> USE DEF IInv, TypeOK, VerifiedInv, childVars
<1>1. CASE Boot \/ Ready \/ ContainerEnds
  BY <1>1 DEF Boot, Ready, ContainerEnds, ChildInv, Whole
<1>2. ASSUME NEW p \in Providers, Prepare(p) \/ Spawn(p) \/ Fetched(p) \/ Load(p) \/ ChildEnds(p)
                                  \/ FetchFails(p)
      PROVE  VerifiedInv'
  BY <1>2 DEF Prepare, Spawn, Fetched, Load, ChildEnds, FetchFails, Fails, Goes, Whole
<1>3. ASSUME NEW p \in Providers, Check(p) \/ Require(p)
      PROVE  VerifiedInv'
  BY <1>3 DEF Check, Require, Goes, Succeeds, Fails, Whole
<1>4. ASSUME NEW p \in Providers, NEW f \in Files[p], Arrive(p, f) \/ Harm(p, f)
      PROVE  VerifiedInv'
  <2>1. /\ \A q \in Providers \ {p} : disk'[q] = disk[q]
        /\ child[p] = "verified" => p \in harmed'
        /\ harmed \subseteq harmed' /\ UNCHANGED <<child, image>>
    BY <1>4 DEF Arrive, Harm
  <2>2. QED
    BY <2>1 DEF Whole
<1>5. CASE UNCHANGED vars
  BY <1>5 DEF vars, Whole
<1>6. QED
  BY <1>1, <1>2, <1>3, <1>4, <1>5 DEF Next, Ensuring

\* FetchInv is preserved: what is fetched is damaged, missing or of another
\* revision at first, and no longer to be fetched once it has arrived.
LEMMA FetchStep == ASSUME IInv, [Next]_vars PROVE FetchInv'
<1> USE DEF IInv, TypeOK, FetchInv, childVars
<1>1. CASE Boot \/ Ready \/ ContainerEnds
  BY <1>1 DEF Boot, Ready, ContainerEnds, ChildInv
<1>2. ASSUME NEW p \in Providers, Prepare(p) \/ Spawn(p) \/ Fetched(p) \/ ChildEnds(p)
                                  \/ FetchFails(p) \/ Require(p) \/ Load(p)
      PROVE  FetchInv'
  BY <1>2 DEF Prepare, Spawn, Fetched, ChildEnds, FetchFails, Require, Load, Succeeds, Fails, Goes
<1>3. ASSUME NEW p \in Providers, Check(p)
      PROVE  FetchInv'
  <2>1. CASE child'[p] # "fetch"
    BY <1>3, <2>1 DEF Check, Succeeds, Fails, Goes
  <2>2. CASE child'[p] = "fetch"
    <3>1. /\ ~Whole(p) /\ UNCHANGED <<image, disk>>
          /\ fetching'[p] = IF Forced(p) THEN Files[p] ELSE Outdated(p)
          /\ \A q \in Providers \ {p} : child'[q] = child[q] /\ fetching'[q] = fetching[q]
      BY <1>3, <2>2 DEF Check, Succeeds, Fails, Goes
    <3>2. CASE Forced(p)
      <4>1. PICK f \in Files[p] : Files[p] = {f}
        BY <3>2, BundlesAssumption DEF Forced
      <4>2. disk[p][f] # image
        BY <3>1, <3>2, <4>1, BundlesAssumption DEF Whole, Forced
      <4>3. QED
        BY <3>1, <3>2, <4>1, <4>2
    <3>3. CASE ~Forced(p)
      BY <3>1, <3>3 DEF Outdated
    <3>4. QED
      BY <3>2, <3>3
  <2>3. QED
    BY <2>1, <2>2
<1>4. ASSUME NEW p \in Providers, NEW f \in Files[p], Arrive(p, f)
      PROVE  FetchInv'
  <2>1. /\ \A q \in Providers \ {p} : disk'[q] = disk[q] /\ fetching'[q] = fetching[q]
        /\ fetching'[p] = fetching[p] \ {f}
        /\ \A g \in Files[p] \ {f} : disk'[p][g] = disk[p][g]
        /\ UNCHANGED <<image, child>>
    BY <1>4 DEF Arrive
  <2>2. QED
    BY <1>4, <2>1 DEF Arrive
<1>5. ASSUME NEW p \in Providers, NEW f \in Files[p], Harm(p, f)
      PROVE  FetchInv'
  <2>1. /\ \A q \in Providers \ {p} : disk'[q] = disk[q]
        /\ \A g \in Files[p] : disk'[p][g] = disk[p][g] \/ disk'[p][g] \in {Absent, Damaged}
        /\ UNCHANGED <<image, child, fetching>>
    BY <1>5 DEF Harm
  <2>2. image \notin {Absent, Damaged}
    BY BundlesAssumption
  <2>3. QED
    BY <2>1, <2>2
<1>6. CASE UNCHANGED vars
  BY <1>6 DEF vars
<1>7. QED
  BY <1>1, <1>2, <1>3, <1>4, <1>5, <1>6 DEF Next, Ensuring

\* ServesWhole is preserved: a server loads what is still as it was found, unless
\* someone else has changed it, and the image cannot change while it serves.
LEMMA ServesStep == ASSUME IInv, [Next]_vars PROVE ServesWhole'
<1> USE DEF IInv, TypeOK, ServesWhole, Serving, childVars
<1>1. CASE Boot \/ Ready \/ ContainerEnds
  BY <1>1 DEF Boot, Ready, ContainerEnds, ChildInv
<1>2. ASSUME NEW p \in Providers, Prepare(p) \/ Spawn(p) \/ Fetched(p) \/ ChildEnds(p) \/ FetchFails(p)
      PROVE  ServesWhole'
  BY <1>2 DEF Prepare, Spawn, Fetched, ChildEnds, FetchFails, Fails, Goes
<1>3. ASSUME NEW p \in Providers, Check(p) \/ Require(p)
      PROVE  ServesWhole'
  BY <1>3 DEF Check, Require, Goes, Succeeds, Fails
<1>4. ASSUME NEW p \in Providers, NEW f \in Files[p], Arrive(p, f) \/ Harm(p, f)
      PROVE  ServesWhole'
  BY <1>4 DEF Arrive, Harm
<1>5. ASSUME NEW p \in Providers, Load(p)
      PROVE  ServesWhole'
  <2>1. p \notin harmed => Whole(p)
    BY <1>5 DEF Load, VerifiedInv
  <2>2. QED
    BY <1>5, <2>1 DEF Load, Goes, Whole
<1>6. CASE UNCHANGED vars
  BY <1>6 DEF vars
<1>7. QED
  BY <1>1, <1>2, <1>3, <1>4, <1>5, <1>6 DEF Next, Ensuring

-----------------------------------------------------------------------------
\* IInv is inductive.
THEOREM Inductive == IInv /\ [Next]_vars => IInv'
  BY TypeStep, ChildStep, PreparedStep, VerifiedStep, FetchStep, ServesStep DEF IInv

\* IInv holds of every reachable state.
LEMMA Invariance == Spec => []IInv
  BY InitIInv, Inductive, PTL DEF Spec

\* No server ever loads an incomplete bundle, nor CLM another checkpoint than
\* the pinned one, for any bundles and after any faults, unless someone else
\* changes a file after the check and before the load.
THEOREM ServesWholeHolds == Spec => []ServesWhole
<1>1. IInv => ServesWhole
  BY DEF IInv
<1>2. QED
  BY Invariance, <1>1, PTL

\* The service becomes ready only when the bundle of every provider is whole,
\* whichever was prepared first, or someone else has changed it since.
THEOREM ReadyIsPreparedHolds == Spec => ReadyIsPrepared
<1>1. ASSUME IInv, [Next]_vars, phase # "ready", phase' = "ready"
      PROVE  \A p \in Providers \ harmed : Whole(p)
  <2>1. Ready
    BY <1>1 DEF Next, Ensuring, Boot, ContainerEnds, Prepare, Spawn, Check, Fetched, Require,
                FetchFails, Load, ChildEnds, Arrive, Harm, Succeeds, Fails, vars
  <2>2. QED
    BY <1>1, <2>1 DEF Ready, IInv, PreparedInv
<1>2. IInv /\ [Next]_vars =>
        [phase # "ready" /\ phase' = "ready" => \A p \in Providers \ harmed : Whole(p)]_vars
  BY <1>1
<1>3. QED
  BY Invariance, <1>2, PTL DEF Spec, ReadyIsPrepared

\* A file that is what the image pins survives whatever the service does.
THEOREM GoodFilesStayHolds == Spec => GoodFilesStay
<1>1. ASSUME IInv, [Next]_vars, NEW p \in Providers, NEW f \in Files[p],
             disk[p][f] = image, disk'[p][f] # image
      PROVE  Harm(p, f)
  <2>1. \E q \in Providers : \E g \in Files[q] : Arrive(q, g) \/ Harm(q, g)
    BY <1>1 DEF Next, Ensuring, Boot, Ready, ContainerEnds, Prepare, Spawn, Check, Fetched,
                Require, FetchFails, Load, ChildEnds, vars
  <2>2. PICK q \in Providers : \E g \in Files[q] : Arrive(q, g) \/ Harm(q, g)
    BY <2>1
  <2>3. PICK g \in Files[q] : Arrive(q, g) \/ Harm(q, g)
    BY <2>2
  <2>4. q = p /\ g = f
    <3>1. \E c : disk' = [disk EXCEPT ![q][g] = c]
      BY <2>3 DEF Arrive, Harm
    <3>2. DOMAIN disk = Providers /\ DOMAIN disk[p] = Files[p]
      BY <1>1 DEF IInv, TypeOK
    <3>3. ASSUME ~(q = p /\ g = f) PROVE disk'[p][f] = disk[p][f]
      BY <3>1, <3>2, <3>3
    <3>4. QED
      BY <1>1, <3>3
  <2>5. ~Arrive(p, f)
    BY <1>1 DEF Arrive, IInv, FetchInv
  <2>6. QED
    BY <2>3, <2>4, <2>5
<1>2. IInv /\ [Next]_vars =>
        [\A p \in Providers : \A f \in Files[p] :
            disk[p][f] = image /\ disk'[p][f] # image => Harm(p, f)]_vars
  BY <1>1
<1>3. QED
  BY Invariance, <1>2, PTL DEF Spec, GoodFilesStay
=============================================================================
