----------------------- MODULE PluginSupervisorProofs -----------------------
(***************************************************************************)
(* Proofs about PluginSupervisor, for every manifest, any number of child  *)
(* processes, crashes and hangs, and any times.                            *)
(***************************************************************************)
EXTENDS PluginSupervisor, SequenceTheorems, FiniteSetTheorems, TLAPS

Child == [state : {"none", "starting", "connected", "hung", "deaf"}, of : Manifest \cup {None}]

OfManifest == \A k \in Kids : Alive(k) => kid[k].of \in Manifest

(* Killing children leaves the others as they are. *)
LEMMA KilledFacts ==
  ASSUME kid \in [Kids -> Child], NEW ks
  PROVE  /\ Killed(ks) \in [Kids -> Child]
         /\ \A k \in Kids \ ks : Killed(ks)[k] = kid[k]
         /\ \A k \in Kids \cap ks : Killed(ks)[k].state = "none"
  BY DEF Killed, NoKid, Child

(* A child that changes its own state keeps its plugin, and no child comes *)
(* to life by itself.                                                      *)
KidOnly(k) ==
  /\ kid' \in [Kids -> Child]
  /\ kid[k].state # "none"
  /\ kid'[k].of = kid[k].of
  /\ \A j \in Kids \ {k} : kid'[j] = kid[j]
  /\ UNCHANGED <<phase, inflight, handles, own>>

LEMMA KidStep ==
  ASSUME HandlesTyped, NEW k \in Kids, Kid(k) \/ KidHangs(k) \/ KidDies(k) \/ AcceptPanics(k)
  PROVE  KidOnly(k)
  <1> USE DEF HandlesTyped, KidOnly, Child
  <1>1. CASE KidConnects(k)
    <2>1. PICK s \in {"connected", "none"} : kid' = [kid EXCEPT ![k] = [@ EXCEPT !.state = s]]
      BY <1>1 DEF KidConnects
    <2> QED
      BY <1>1, <2>1 DEF KidConnects
  <1>2. CASE KidHangs(k)
    BY <1>2 DEF KidHangs
  <1>3. CASE ReadTimeout(k)
    BY <1>3 DEF ReadTimeout
  <1>4. CASE KidDies(k)
    BY <1>4 DEF KidDies, Alive
  <1>5. CASE AcceptPanics(k)
    BY <1>5 DEF AcceptPanics
  <1> QED
    BY <1>1, <1>2, <1>3, <1>4, <1>5 DEF Kid

LEMMA KidKeeps ==
  ASSUME IInv, NEW k \in Kids, KidOnly(k)
  PROVE  IInv'
  <1> USE DEF IInv, HandlesTyped, KidOnly, Child
  <1>1. HandlesTyped'
    OBVIOUS
  <1>2. \A j \in Kids : kid'[j].of = kid[j].of /\ (Alive(j)' => Alive(j))
    BY DEF Alive
  <1>3. InflightFresh'
    BY <1>2 DEF InflightFresh, Stored
  <1>4. KidsHeld'
    BY <1>2 DEF KidsHeld
  <1>5. \A j \in Kids : Alive(j)' => kid'[j].of \in Manifest
    BY <1>2
  <1> QED
    BY <1>1, <1>3, <1>4, <1>5 DEF Alive

(* A spawned child is the one in flight; it was no process before. *)
LEMMA SpawnKeeps ==
  ASSUME IInv, inflight = None, NEW p \in Manifest, Spawn(p),
         phase \in {"respawn", "autostart"}, phase = "respawn" => handles[p] = None,
         UNCHANGED <<phase, handles>>
  PROVE  IInv'
  <1> USE DEF IInv, HandlesTyped
  <1>1. PICK k \in Kids \ Stored :
          /\ ~Alive(k)
          /\ kid' = [kid EXCEPT ![k] = [state |-> "starting", of |-> p]]
          /\ own' = own \cup {k}
          /\ inflight' = k
    BY DEF Spawn
  <1>2. /\ kid'[k].of = p
        /\ \A j \in Kids \ {k} : kid'[j] = kid[j]
        /\ k # None
    BY <1>1, ManifestAssumption
  <1>3. HandlesTyped'
    BY <1>1
  <1>4. InflightFresh'
    BY <1>1, <1>2 DEF InflightFresh, Stored
  <1>5. KidsHeld'
    BY <1>1, <1>2, ManifestAssumption DEF KidsHeld, Alive
  <1>6. OfManifest'
    BY <1>2 DEF OfManifest, Alive
  <1> QED
    BY <1>3, <1>4, <1>5, <1>6 DEF OfManifest

(* Every child a daemon that ends in good order spawned is killed. *)
LEMMA GoneKeeps ==
  ASSUME IInv, Gone, kid' \in [Kids -> Child], own' \subseteq own,
         \A k \in own' : kid'[k].state = "none",
         \A k \in Kids : kid'[k].state # "none" => Alive(k) /\ kid'[k].of = kid[k].of
  PROVE  IInv'
  <1> USE DEF IInv
  <1>1. HandlesTyped'
    BY DEF HandlesTyped, Gone, NoHandles, Child
  <1>2. InflightFresh' /\ KidsHeld' /\ handles' = NoHandles
    BY DEF InflightFresh, KidsHeld, Gone, Alive
  <1>3. OfManifest'
    BY DEF OfManifest, Alive
  <1> QED
    BY <1>1, <1>2, <1>3 DEF OfManifest, NoHandles

(* Those that a daemon leaves behind keep their plugins. *)
LEMMA SeveredFacts ==
  ASSUME kid \in [Kids -> Child], NEW ks
  PROVE  /\ Severed(ks) \in [Kids -> Child]
         /\ \A k \in Kids \cap ks : Severed(ks)[k].state = "none"
         /\ \A k \in Kids : Severed(ks)[k].state # "none" =>
              Alive(k) /\ Severed(ks)[k].of = kid[k].of
         /\ \A k \in Kids : ~Alive(k) => Severed(ks)[k].state = "none"
  <1>1. \A k \in Kids : [kid[k] EXCEPT !.state = "deaf"] = [state |-> "deaf", of |-> kid[k].of]
    BY DEF Child
  <1>2. Severed(ks) = [k \in Kids |-> IF k \in ks THEN NoKid
                          ELSE IF kid[k].state \in {"connected", "hung"}
                               THEN [state |-> "deaf", of |-> kid[k].of] ELSE kid[k]]
    BY <1>1 DEF Severed
  <1>3. Severed(ks) \in [Kids -> Child]
    BY <1>2 DEF Child, NoKid
  <1> QED
    BY <1>2, <1>3 DEF Alive, NoKid

LEMMA BootFailsKeeps == ASSUME IInv, BootFails PROVE IInv'
  <1> DEFINE ks == Stored \cup {inflight}
  <1>1. kid \in [Kids -> Child] /\ own \subseteq Kids /\ kid' = Severed(ks)
    BY DEF IInv, HandlesTyped, Child, BootFails
  <1>2. /\ kid' \in [Kids -> Child]
        /\ \A k \in Kids : kid'[k].state # "none" => Alive(k) /\ kid'[k].of = kid[k].of
        /\ \A k \in Kids \cap ks : kid'[k].state = "none"
        /\ \A k \in Kids : ~Alive(k) => kid'[k].state = "none"
    BY <1>1, SeveredFacts
  <1>3. \A k \in own : Alive(k) => k \in ks
    BY <1>1 DEF IInv, KidsHeld, Stored
  <1>4. \A k \in own : kid'[k].state = "none"
    BY <1>1, <1>2, <1>3 DEF Alive
  <1>5. own' \subseteq own
    BY DEF BootFails
  <1> QED
    BY <1>2, <1>4, <1>5, GoneKeeps DEF BootFails, Alive

LEMMA InitIInv == Init => IInv
  BY ManifestAssumption DEF Init, IInv, HandlesTyped, InflightFresh, KidsHeld, NoHandles, NoKid,
     Alive

-----------------------------------------------------------------------------
LEMMA IInvStep == IInv /\ [Next]_vars => IInv'
  <1> SUFFICES ASSUME IInv, [Next]_vars PROVE IInv'
    OBVIOUS
  <1> USE DEF watch
  <1>1. kid \in [Kids -> Child] /\ own \subseteq Kids
    BY DEF IInv, HandlesTyped, Child
  <1>2. ASSUME UNCHANGED <<inflight, handles, kid, own>>,
               phase' \in {"off", "respawn", "autostart", "idle", "stopping"},
               phase' = "off" => phase = "off",
               inflight # None => phase' = phase
        PROVE  IInv'
    BY <1>2 DEF IInv, HandlesTyped, InflightFresh, KidsHeld, Alive, Stored, NoHandles
  <1>3. CASE Boot
    <2>1. inflight = None
      BY <1>3 DEF Boot, IInv, InflightFresh
    <2> QED
      BY <1>2, <1>3, <2>1 DEF Boot
  <1>4. ASSUME NEW p \in Owners, Ensure(p) PROVE IInv'
    <2>1. CASE p \in Manifest /\ handles[p] = None
      BY <1>4, <2>1, SpawnKeeps DEF Ensure
    <2>2. CASE ~(p \in Manifest /\ handles[p] = None)
      BY <1>2, <1>4, <2>2 DEF Ensure
    <2> QED
      BY <2>1, <2>2
  <1>5. CASE EnsureFails
    BY <1>5, BootFailsKeeps DEF EnsureFails
  <1>21. ASSUME NEW p \in Autostart, AutostartPanics(p) PROVE IInv'
    BY <1>21, BootFailsKeeps DEF AutostartPanics
  <1>6. CASE EnsureInsert
    <2> DEFINE q == kid[inflight].of
    <2>1. /\ q \in Manifest /\ handles[q] = None /\ inflight \in Kids /\ inflight # None
          /\ handles \in [Manifest -> Kids \cup {None}]
      BY <1>6 DEF EnsureInsert, IInv, InflightFresh, HandlesTyped
    <2>2. handles'[q] = inflight /\ \A r \in Manifest \ {q} : handles'[r] = handles[r]
      BY <1>6, <2>1 DEF EnsureInsert
    <2>3. UNCHANGED <<phase, kid, own>> /\ inflight' = None /\ phase # "off"
      BY <1>6 DEF EnsureInsert
    <2>4. HandlesTyped' /\ InflightFresh'
      BY <1>6, <2>1, <2>3 DEF EnsureInsert, IInv, HandlesTyped, InflightFresh
    <2>5. KidsHeld'
      BY <1>1, <2>1, <2>2, <2>3, ManifestAssumption DEF IInv, KidsHeld, Alive
    <2> QED
      BY <2>3, <2>4, <2>5 DEF IInv, Alive
  <1>7. CASE Respawned
    BY <1>2, <1>7, BootFailsKeeps DEF Respawned
  <1>8. ASSUME NEW p \in Autostart, AutostartBind(p) PROVE IInv'
    BY <1>2, <1>8 DEF AutostartBind, IInv, HandlesTyped
  <1>9. ASSUME NEW p \in Autostart, AutostartSpawn(p) PROVE IInv'
    <2>1. CASE Spawn(p)
      <3>1. p \in Manifest
        BY ManifestAssumption
      <3> QED
        BY <1>9, <2>1, <3>1, SpawnKeeps DEF AutostartSpawn
    <2>2. CASE UNCHANGED <<inflight, kid, own>>
      BY <1>2, <1>9, <2>2 DEF AutostartSpawn
    <2> QED
      BY <1>9, <2>1, <2>2 DEF AutostartSpawn
  <1>10. CASE AutostartInsert
    <2> DEFINE q == kid[inflight].of
    <2>1. /\ q \in Manifest /\ inflight \notin Stored /\ inflight \in Kids /\ inflight # None
          /\ handles \in [Manifest -> Kids \cup {None}]
      BY <1>10 DEF AutostartInsert, IInv, InflightFresh, HandlesTyped
    <2>2. handles'[q] = inflight /\ \A r \in Manifest \ {q} : handles'[r] = handles[r]
      BY <1>10, <2>1 DEF AutostartInsert
    <2>3. UNCHANGED <<phase, own>> /\ inflight' = None /\ phase # "off"
      BY <1>10 DEF AutostartInsert
    <2>4. /\ kid' \in [Kids -> Child]
          /\ \A k \in Kids \ {handles[q]} : kid'[k] = kid[k]
          /\ \A k \in Kids \cap {handles[q]} : kid'[k].state = "none"
      BY <1>1, <1>10, KilledFacts DEF AutostartInsert
    <2>5. HandlesTyped' /\ InflightFresh'
      BY <1>10, <2>1, <2>3, <2>4 DEF AutostartInsert, IInv, HandlesTyped, InflightFresh, Child
    <2>6. handles[q] # inflight
      BY <2>1 DEF Stored
    <2>7. ASSUME NEW k \in own, kid'[k].state # "none" PROVE handles'[kid'[k].of] = k
      <3>1. k \in Kids /\ k # handles[q] /\ kid'[k] = kid[k]
        BY <1>1, <2>4, <2>7
      <3>2. kid[k].of \in Manifest
        BY <2>7, <3>1 DEF IInv, Alive
      <3>3. CASE k = inflight
        BY <2>2, <3>1, <3>3
      <3>4. CASE k # inflight
        <4>1. handles[kid[k].of] = k
          BY <2>7, <3>1, <3>4 DEF IInv, KidsHeld, Alive
        <4> QED
          BY <2>2, <3>1, <3>2, <4>1
      <3> QED
        BY <3>3, <3>4
    <2>8. KidsHeld'
      BY <2>3, <2>7 DEF KidsHeld, Alive
    <2>9. OfManifest'
      BY <2>4 DEF IInv, OfManifest, Alive
    <2> QED
      BY <2>3, <2>5, <2>8, <2>9 DEF IInv, OfManifest
  <1>11. CASE Autostarted
    BY <1>2, <1>11 DEF Autostarted
  <1>12. ASSUME NEW p \in Manifest, AcceptLoopEnds(p) PROVE IInv'
    BY <1>2, <1>12 DEF AcceptLoopEnds, IInv, HandlesTyped
  <1>13. ASSUME NEW p \in Manifest, ShutdownKill(p) PROVE IInv'
    <2>1. /\ handles \in [Manifest -> Kids \cup {None}] /\ inflight = None
          /\ phase = "stopping"
      BY <1>13 DEF ShutdownKill, IInv, HandlesTyped, InflightFresh
    <2>2. handles'[p] = None /\ \A r \in Manifest \ {p} : handles'[r] = handles[r]
      BY <1>13, <2>1 DEF ShutdownKill
    <2>3. UNCHANGED <<phase, own, inflight>>
      BY <1>13 DEF ShutdownKill
    <2>4. /\ kid' \in [Kids -> Child]
          /\ \A k \in Kids \ {handles[p]} : kid'[k] = kid[k]
          /\ \A k \in Kids \cap {handles[p]} : kid'[k].state = "none"
      BY <1>1, <1>13, KilledFacts DEF ShutdownKill
    <2>5. HandlesTyped' /\ InflightFresh'
      BY <1>13, <2>1, <2>3, <2>4 DEF ShutdownKill, IInv, HandlesTyped, InflightFresh, Child
    <2>6. ASSUME NEW k \in own, kid'[k].state # "none" PROVE handles'[kid'[k].of] = k
      <3>1. k \in Kids /\ k # handles[p] /\ kid'[k] = kid[k]
        BY <1>1, <2>4, <2>6
      <3>2. kid[k].of \in Manifest
        BY <2>6, <3>1 DEF IInv, Alive
      <3>3. handles[kid[k].of] = k
        BY <1>1, <2>1, <2>6, <3>1, ManifestAssumption DEF IInv, KidsHeld, Alive
      <3> QED
        BY <2>2, <3>1, <3>2, <3>3
    <2>7. KidsHeld'
      BY <2>3, <2>6 DEF KidsHeld, Alive
    <2>8. OfManifest'
      BY <2>4 DEF IInv, OfManifest, Alive
    <2> QED
      BY <2>1, <2>3, <2>5, <2>7, <2>8 DEF IInv, OfManifest
  <1>14. CASE Exit
    <2>1. inflight = None /\ handles = NoHandles /\ kid' = Severed({}) /\ own' \subseteq own
      BY <1>14 DEF Exit, IInv, InflightFresh
    <2>2. \A k \in own : ~Alive(k)
      BY <1>1, <2>1, ManifestAssumption DEF IInv, KidsHeld, NoHandles
    <2> QED
      BY <1>1, <1>14, <2>1, <2>2, SeveredFacts, GoneKeeps DEF Exit
  <1>15. CASE Shutdown
    <2>1. inflight = None
      BY <1>15 DEF Shutdown, IInv, InflightFresh
    <2> QED
      BY <1>2, <1>15, <2>1 DEF Shutdown
  <1>16. CASE Crash
    BY <1>1, <1>16, SeveredFacts, GoneKeeps DEF Crash
  <1>17. CASE Tick
    BY <1>2, <1>17 DEF Tick, IInv, HandlesTyped
  <1>18. ASSUME NEW p \in Manifest, Monitor(p) PROVE IInv'
    <2>1. UNCHANGED <<phase, inflight, handles, kid, own>>
      BY <1>18 DEF Monitor
    <2> QED
      BY <1>2, <2>1 DEF IInv, HandlesTyped
  <1>19. ASSUME NEW k \in Kids, Kid(k) \/ KidHangs(k) \/ KidDies(k) \/ AcceptPanics(k)
         PROVE  IInv'
    BY <1>19, KidStep, KidKeeps DEF IInv
  <1>20. CASE UNCHANGED vars
    BY <1>2, <1>20 DEF vars, IInv, HandlesTyped
  <1> QED
    BY <1>3, <1>4, <1>5, <1>6, <1>7, <1>8, <1>9, <1>10, <1>11, <1>12, <1>13, <1>14, <1>15,
       <1>16, <1>17, <1>18, <1>19, <1>20, <1>21 DEF Next, Daemon

-----------------------------------------------------------------------------
(* The monitor's window. *)

InWindow(w) ==
  /\ w \in Seq(0..Window) /\ Len(w) <= MaxRestarts
  /\ \A i, j \in DOMAIN w : i <= j => w[i] >= w[j]

(* Recent is what retain leaves: a tail of the window, all of it recent.    *)
LEMMA RecentRetained ==
  ASSUME NEW p \in Manifest, InWindow(restarts[p])
  PROVE  /\ Recent(p) \in Seq(0..Window) /\ Len(Recent(p)) <= Len(restarts[p])
         /\ \A i \in DOMAIN Recent(p) : Recent(p)[i] < Window
         /\ \A i, j \in DOMAIN Recent(p) : i <= j => Recent(p)[i] >= Recent(p)[j]
         /\ \A i \in DOMAIN restarts[p] : restarts[p][i] < Window =>
              i - (Len(restarts[p]) - Len(Recent(p))) \in DOMAIN Recent(p)
  <1> DEFINE w == restarts[p]
             n == Len(w)
             Old == {i \in DOMAIN w : w[i] = Window}
             old == Cardinality(Old)
             r == Recent(p)
  <1>1. /\ n \in Nat /\ DOMAIN w = 1..n /\ \A i \in 1..n : w[i] \in 0..Window
        /\ \A i, j \in 1..n : i <= j => w[i] >= w[j]
    BY LenProperties, ElementOfSeq DEF InWindow
  <1> HIDE DEF w, n
  <1>2. IsFiniteSet(1..n) /\ Cardinality(1..n) = n /\ Old \in SUBSET (1..n)
    BY <1>1, FS_Interval
  <1>3. old \in Nat /\ old <= n /\ IsFiniteSet(Old)
    <2> HIDE DEF Old
    <2> QED
      BY <1>2, FS_Subset, FS_CardinalityType
  <1>4. \A i \in 1..n : i \in Old <=> i <= old
    <2>1. ASSUME NEW i \in Old PROVE i <= old
      <3>1. 1..i \in SUBSET Old
        <4> SUFFICES ASSUME NEW j \in 1..i PROVE j \in Old
          OBVIOUS
        <4>1. i \in 1..n /\ j \in 1..n /\ j <= i /\ w[i] = Window
          BY <1>1, <2>1
        <4>2. w[j] >= Window /\ w[j] \in 0..Window
          BY <1>1, <4>1
        <4>3. w[j] = Window
          BY <4>2, TimesAssumption
        <4> QED
          BY <1>1, <4>1, <4>3
      <3>2. i \in Nat
        BY <1>1
      <3>3. Cardinality(1..i) = i
        BY <3>2, FS_Interval
      <3>4. Cardinality(1..i) <= Cardinality(Old)
        <4> HIDE DEF Old
        <4> QED
          BY <1>3, <3>1, FS_Subset
      <3> QED
        BY <3>3, <3>4
    <2>2. ASSUME NEW i \in 1..n, i \notin Old PROVE ~(i <= old)
      <3>1. Old \in SUBSET (1..(i - 1))
        <4> SUFFICES ASSUME NEW j \in Old PROVE j \in 1..(i - 1)
          OBVIOUS
        <4>1. j \in 1..n /\ w[j] = Window
          BY <1>1
        <4>2. ~(i <= j)
          <5> SUFFICES ASSUME i <= j PROVE FALSE
            OBVIOUS
          <5>1. w[i] >= Window /\ w[i] \in 0..Window
            BY <1>1, <4>1
          <5>2. w[i] = Window
            BY <5>1, TimesAssumption
          <5> QED
            BY <1>1, <2>2, <5>2
        <4> QED
          BY <4>1, <4>2
      <3>2. IsFiniteSet(1..(i - 1)) /\ Cardinality(1..(i - 1)) = i - 1
        BY FS_Interval
      <3> HIDE DEF Old
      <3>3. old <= i - 1
        BY <3>1, <3>2, FS_Subset
      <3> QED
        BY <1>3, <3>3
    <2> QED
      BY <2>1, <2>2
  <1>5. r = [i \in 1..(n - old) |-> w[i + old]]
    BY DEF Recent, w, n
  <1> HIDE DEF r, Old, old
  <1>6. \A i \in 1..(n - old) : i + old \in 1..n /\ ~(i + old <= old)
    BY <1>1, <1>3
  <1>7. \A i \in 1..(n - old) : r[i] \in 0..Window /\ r[i] # Window
    BY <1>1, <1>4, <1>5, <1>6 DEF Old
  <1>8. n - old \in Nat
    BY <1>1, <1>3
  <1>9. r \in Seq(0..Window) /\ Len(r) = n - old /\ DOMAIN r = 1..(n - old)
    <2>1. r \in [1..(n - old) -> 0..Window]
      BY <1>5, <1>7
    <2>2. PICK m \in Nat : m = n - old
      BY <1>8
    <2>3. r \in [1..m -> 0..Window]
      BY <2>1, <2>2
    <2>4. r \in Seq(0..Window)
      BY <2>3, SeqDef
    <2>5. Len(r) = m /\ DOMAIN r = 1..m
      BY <2>3, <2>4, LenProperties
    <2> QED
      BY <2>2, <2>4, <2>5
  <1>10. \A i, j \in 1..(n - old) : i <= j => r[i] >= r[j]
    <2> SUFFICES ASSUME NEW i \in 1..(n - old), NEW j \in 1..(n - old), i <= j PROVE r[i] >= r[j]
      OBVIOUS
    <2>1. i + old \in 1..n /\ j + old \in 1..n /\ i + old <= j + old
      BY <1>3, <1>6, <1>8
    <2> QED
      BY <1>1, <1>5, <2>1
  <1>11. \A i \in 1..n : w[i] < Window => i - old \in 1..(n - old)
    <2> SUFFICES ASSUME NEW i \in 1..n, w[i] < Window PROVE i - old \in 1..(n - old)
      OBVIOUS
    <2>1. w[i] # Window
      BY TimesAssumption
    <2>2. ~(i <= old)
      BY <1>1, <1>4, <2>1 DEF Old
    <2> QED
      BY <1>1, <1>3, <2>2
  <1>12. n - (n - old) = old
    BY <1>1, <1>3
  <1>13. \A i \in DOMAIN r : r[i] < Window
    BY <1>7, <1>9, TimesAssumption
  <1>14. \A i \in DOMAIN w : w[i] < Window => i - (n - Len(r)) \in DOMAIN r
    BY <1>1, <1>9, <1>11, <1>12
  <1>15. r \in Seq(0..Window) /\ Len(r) <= n
    BY <1>1, <1>3, <1>9
  <1>16. \A i, j \in DOMAIN r : i <= j => r[i] >= r[j]
    BY <1>9, <1>10
  <1> QED
    BY <1>13, <1>14, <1>15, <1>16, Zenon DEF r, w, n

(* Five seconds age every entry of a window, up to its length.              *)
LEMMA AgedInWindow ==
  ASSUME NEW w, InWindow(w)
  PROVE  InWindow([i \in DOMAIN w |-> IF w[i] = Window THEN Window ELSE w[i] + 1])
  <1> DEFINE a == [i \in DOMAIN w |-> IF w[i] = Window THEN Window ELSE w[i] + 1]
  <1>1. /\ Len(w) \in Nat /\ DOMAIN w = 1..Len(w) /\ \A i \in 1..Len(w) : w[i] \in 0..Window
        /\ \A i, j \in 1..Len(w) : i <= j => w[i] >= w[j]
    BY LenProperties, ElementOfSeq DEF InWindow
  <1>2. Window \in Nat
    BY TimesAssumption
  <1>3. a \in [1..Len(w) -> 0..Window]
    BY <1>1, <1>2
  <1>4. a \in Seq(0..Window) /\ Len(a) = Len(w)
    BY <1>1, <1>3, LenProperties
  <1>5. \A i, j \in 1..Len(w) : i <= j => a[i] >= a[j]
    BY <1>1, <1>2
  <1>6. DOMAIN a = 1..Len(w)
    BY <1>1
  <1> HIDE DEF a
  <1>7. InWindow(a)
    BY <1>4, <1>5, <1>6 DEF InWindow
  <1> QED
    BY <1>7 DEF a

(* The window gets a new entry only if it has room.                         *)
LEMMA EntryInWindow ==
  ASSUME NEW w \in Seq(0..Window), Len(w) < MaxRestarts,
         \A i, j \in DOMAIN w : i <= j => w[i] >= w[j]
  PROVE  InWindow(Append(w, 0))
  <1>1. /\ Len(w) \in Nat /\ DOMAIN w = 1..Len(w) /\ \A i \in 1..Len(w) : w[i] \in 0..Window
        /\ Window \in Nat /\ MaxRestarts \in Nat
    BY LenProperties, ElementOfSeq, TimesAssumption
  <1> DEFINE a == Append(w, 0)
  <1>2. /\ a \in Seq(0..Window) /\ Len(a) = Len(w) + 1 /\ a[Len(w) + 1] = 0
        /\ \A i \in 1..Len(w) : a[i] = w[i]
    BY <1>1, AppendProperties
  <1>3. DOMAIN a = 1..(Len(w) + 1)
    BY <1>2, LenProperties
  <1> HIDE DEF a
  <1>4. ASSUME NEW i \in 1..(Len(w) + 1), NEW j \in 1..(Len(w) + 1), i <= j PROVE a[i] >= a[j]
    <2>1. CASE j = Len(w) + 1
      <3>1. i = Len(w) + 1 \/ i \in 1..Len(w)
        BY <1>1
      <3> QED
        BY <1>1, <1>2, <2>1, <3>1
    <2>2. CASE j # Len(w) + 1
      <3>1. i \in 1..Len(w) /\ j \in 1..Len(w)
        <4>1. PICK n \in Nat : n = Len(w)
          BY <1>1
        <4>2. i \in 1..(n + 1) /\ j \in 1..(n + 1) /\ j # n + 1 /\ i <= j
          BY <1>4, <2>2, <4>1
        <4>3. i \in 1..n /\ j \in 1..n
          BY <4>2
        <4> QED
          BY <4>1, <4>3
      <3> QED
        BY <1>1, <1>2, <1>4, <3>1
    <2> QED
      BY <2>1, <2>2
  <1> QED
    BY <1>1, <1>2, <1>3, <1>4 DEF InWindow, a

Kept ==
  /\ todo \subseteq Owners \cup Autostart
  /\ sock \in [Manifest -> {"none", "live", "stale"}]
  /\ beat \in [Manifest -> (0..StaleAfter) \cup {None}]
  /\ monitor \in [Manifest -> {"none", "asleep", "due", "done"}]
  /\ restarts \in [Manifest -> Seq(0..Window)]
  /\ \A p \in Manifest : InWindow(restarts[p])
  /\ faults \in 0..MaxFaults

LEMMA TypeInvIs == TypeInv <=> HandlesTyped /\ Kept
  BY DEF TypeInv, TypeOK, WindowOrdered, Kept, InWindow

LEMMA NoEntries == InWindow(<< >>)
  <1>1. << >> \in Seq(0..Window) /\ Len(<< >>) = 0 /\ DOMAIN << >> = {}
    OBVIOUS
  <1> QED
    BY <1>1, TimesAssumption DEF InWindow

LEMMA KeptStep == IInv /\ Kept /\ [Next]_vars => Kept'
  <1> SUFFICES ASSUME IInv, Kept, [Next]_vars PROVE Kept'
    OBVIOUS
  <1>1. ASSUME Gone, faults' \in 0..MaxFaults PROVE Kept'
    <2>1. /\ todo' = {} /\ sock' \in [Manifest -> {"none", "live", "stale"}]
          /\ beat' \in [Manifest -> (0..StaleAfter) \cup {None}]
          /\ monitor' \in [Manifest -> {"none", "asleep", "due", "done"}]
      BY <1>1 DEF Gone, Kept
    <2>2. restarts' = [p \in Manifest |-> << >>]
      BY <1>1 DEF Gone
    <2>3. << >> \in Seq(0..Window)
      OBVIOUS
    <2> QED
      BY <1>1, <2>1, <2>2, <2>3, NoEntries DEF Kept
  <1>2. CASE UNCHANGED <<todo, sock, watch, faults>>
    BY <1>2 DEF Kept, watch
  <1>3. CASE Boot
    BY <1>3 DEF Boot, Kept, watch
  <1>4. ASSUME NEW p \in Owners, Ensure(p) PROVE Kept'
    BY <1>4 DEF Ensure, Kept, watch
  <1>5. CASE EnsureFails
    BY <1>1, <1>5 DEF EnsureFails, BootFails, Kept
  <1>6. CASE EnsureInsert
    BY <1>2, <1>6 DEF EnsureInsert
  <1>7. CASE Respawned
    <2>1. CASE BootFails
      BY <1>1, <2>1 DEF BootFails, Kept
    <2>2. CASE todo' = Autostart /\ UNCHANGED <<sock, watch, faults>>
      BY <2>2 DEF Kept, watch
    <2> QED
      BY <1>7, <2>1, <2>2 DEF Respawned
  <1>8. ASSUME NEW p \in Autostart, AutostartBind(p) \/ AutostartSpawn(p) PROVE Kept'
    BY <1>8 DEF AutostartBind, AutostartSpawn, Kept, watch
  <1>21. ASSUME NEW p \in Autostart, AutostartPanics(p) PROVE Kept'
    BY <1>1, <1>21 DEF AutostartPanics, BootFails, Kept
  <1>9. CASE AutostartInsert
    <2> DEFINE p == kid[inflight].of
    <2>1. /\ todo' \subseteq todo
          /\ beat' = [beat EXCEPT ![p] = 0] /\ monitor' = [monitor EXCEPT ![p] = "asleep"]
          /\ UNCHANGED <<sock, restarts, faults>>
      BY <1>9 DEF AutostartInsert
    <2>2. 0 \in 0..StaleAfter
      BY TimesAssumption
    <2> HIDE DEF p
    <2> QED
      BY <2>1, <2>2 DEF Kept
  <1>10. CASE Autostarted
    BY <1>2, <1>10 DEF Autostarted
  <1>11. ASSUME NEW p \in Manifest, AcceptLoopEnds(p) \/ ShutdownKill(p) PROVE Kept'
    BY <1>11 DEF AcceptLoopEnds, ShutdownKill, Kept, watch
  <1>12. CASE Exit
    BY <1>1, <1>12 DEF Exit, Kept
  <1>13. CASE Shutdown
    BY <1>2, <1>13 DEF Shutdown
  <1>14. CASE Crash
    <2>1. faults' \in 0..MaxFaults
      BY <1>14, TimesAssumption DEF Crash, Kept
    <2> QED
      BY <1>1, <1>14, <2>1 DEF Crash
  <1>15. CASE Tick
    <2>1. monitor' \in [Manifest -> {"none", "asleep", "due", "done"}]
      BY <1>15 DEF Tick, Kept
    <2>2. beat' \in [Manifest -> (0..StaleAfter) \cup {None}]
      <3>1. beat' = [p \in Manifest |-> IF beat[p] = None \/ beat[p] = StaleAfter THEN beat[p]
                                 ELSE beat[p] + 1]
        BY <1>15 DEF Tick
      <3>2. \A p \in Manifest : beat'[p] \in (0..StaleAfter) \cup {None}
        BY <3>1, TimesAssumption DEF Kept
      <3> QED
        BY <3>1, <3>2
    <2>3. \A p \in Manifest : InWindow(restarts'[p])
      BY <1>15, AgedInWindow DEF Tick, Kept
    <2>4. restarts' \in [Manifest -> Seq(0..Window)]
      BY <1>15, <2>3 DEF Tick, InWindow
    <2> QED
      BY <1>15, <2>1, <2>2, <2>3, <2>4 DEF Tick, Kept
  <1>16. ASSUME NEW p \in Manifest, Monitor(p) PROVE Kept'
    <2>1. UNCHANGED <<todo, sock, beat, faults>>
      BY <1>16 DEF Monitor
    <2>2. monitor' \in [Manifest -> {"none", "asleep", "due", "done"}]
      BY <1>16 DEF Monitor, Kept
    <2>3. /\ Recent(p) \in Seq(0..Window) /\ Len(Recent(p)) <= Len(restarts[p])
          /\ Len(restarts[p]) <= MaxRestarts
          /\ \A i, j \in DOMAIN Recent(p) : i <= j => Recent(p)[i] >= Recent(p)[j]
      BY RecentRetained DEF Kept, InWindow
    <2>4. Len(Recent(p)) \in Nat /\ Len(restarts[p]) \in Nat /\ MaxRestarts \in Nat
      BY <2>3, LenProperties, TimesAssumption DEF Kept
    <2>5. InWindow(Recent(p))
      BY <2>3, <2>4 DEF InWindow
    <2>6. Len(Recent(p)) < MaxRestarts => InWindow(Append(Recent(p), 0))
      BY <2>3, EntryInWindow
    <2>7. PICK w : InWindow(w) /\ restarts' = [restarts EXCEPT ![p] = w]
      <3>1. restarts = [restarts EXCEPT ![p] = restarts[p]] /\ InWindow(restarts[p])
        BY DEF Kept
      <3>2. \/ restarts' = restarts
            \/ restarts' = [restarts EXCEPT ![p] = Recent(p)]
            \/ /\ Len(Recent(p)) < MaxRestarts
               /\ restarts' = [restarts EXCEPT ![p] = Append(Recent(p), 0)]
        BY <1>16 DEF Monitor
      <3> QED
        BY <2>5, <2>6, <3>1, <3>2
    <2>8. /\ restarts' \in [Manifest -> Seq(0..Window)]
          /\ \A r \in Manifest : InWindow(restarts'[r])
      BY <2>7 DEF Kept, InWindow
    <2> QED
      BY <2>1, <2>2, <2>8 DEF Kept
  <1>17. ASSUME NEW k \in Kids, Kid(k) PROVE Kept'
    BY <1>2, <1>17 DEF Kid, KidConnects, ReadTimeout
  <1>18. ASSUME NEW k \in Kids, KidHangs(k) \/ KidDies(k) PROVE Kept'
    <2>1. faults' \in 0..MaxFaults /\ UNCHANGED <<todo, sock, watch>>
      BY <1>18, TimesAssumption DEF KidHangs, KidDies, Kept
    <2> QED
      BY <2>1 DEF Kept, watch
  <1>20. ASSUME NEW k \in Kids, AcceptPanics(k) PROVE Kept'
    <2>1. faults' \in 0..MaxFaults /\ UNCHANGED <<todo, watch>>
      BY <1>20, TimesAssumption DEF AcceptPanics, Kept
    <2> QED
      BY <1>20, <2>1 DEF AcceptPanics, Kept, watch
  <1>19. CASE UNCHANGED vars
    BY <1>2, <1>19 DEF vars, watch
  <1> QED
    BY <1>3, <1>4, <1>5, <1>6, <1>7, <1>8, <1>9, <1>10, <1>11, <1>12, <1>13, <1>14, <1>15,
       <1>16, <1>17, <1>18, <1>19, <1>20, <1>21 DEF Next, Daemon

(* The inductive invariant holds throughout, whichever children crash,     *)
(* hang or outlive their daemon.                                           *)
THEOREM IInvHolds == Spec => []IInv
  BY InitIInv, IInvStep, PTL DEF Spec

(* A running daemon holds the handle of every child it spawned, or is      *)
(* about to store it: no second spawn and no failing step of the boot      *)
(* drops one without killing it (plugin_supervisor.rs, plugin_spawner.rs). *)
THEOREM ChildrenHeld == Spec => []KidsHeld
  <1>1. IInv => KidsHeld
    BY DEF IInv
  <1> QED
    BY <1>1, IInvHolds, PTL

(* Once the daemon has ended otherwise than by a crash, no child it        *)
(* spawned runs: the safety half of PluginSupervisor::shutdown's promise.  *)
THEOREM NoChildLeft == Spec => []NoneLeft
  <1>1. IInv => NoneLeft
    BY ManifestAssumption DEF IInv, NoneLeft, KidsHeld, InflightFresh, NoHandles, HandlesTyped
  <1> QED
    BY <1>1, IInvHolds, PTL

(* The supervisor's maps stay what they are, and a monitor's window never  *)
(* has more entries than the limit: what retain drops is its oldest part,  *)
(* and an entry is added only if fewer than the limit are left             *)
(* (plugin_supervisor.rs, spawn_monitor).                                  *)
THEOREM TypeCorrect == Spec => []TypeOK
  <1>1. Init => Kept
    <2>1. << >> \in Seq(0..Window)
      OBVIOUS
    <2> QED
      BY <2>1, NoEntries, TimesAssumption DEF Init, Kept
  <1>2. Spec => []Kept
    BY <1>1, IInvHolds, KeptStep, PTL DEF Spec
  <1>3. IInv /\ Kept => TypeOK
    BY TypeInvIs DEF IInv, TypeInv
  <1> QED
    BY <1>2, <1>3, IInvHolds, PTL
=============================================================================
