------------------------ MODULE RouteRegistryProofs -------------------------
(***************************************************************************)
(* Proofs about the registry of local names, for every number of sessions, *)
(* sources and suffixes.                                                   *)
(***************************************************************************)
EXTENDS RouteRegistry, TLAPS, WellFoundedInduction

\* With the lock.
Inside == {"load", "check", "unlock"}

\* A session is in withLock only while it runs or ends, and asks for a name
\* once.
PlaceInv(s) ==
    /\ at[s] # "out" => life[s] \in {"up", "stopping"}
    /\ at[s] \notin {"out", "unlock"} /\ life[s] = "up" => got[s] = NotAsked
    /\ life[s] \in {"new", "claimed"} => got[s] = NotAsked

\* Whoever is in the registry, or in a copy of it, has been started.
KnownInv ==
    \A h \in Hosts :
        /\ routes[h] # NoSession => life[routes[h]] # "new"
        /\ \A s \in Sessions : mem[s][h] # NoSession => life[mem[s][h]] # "new"

\* One session per source, and its descriptor names it until it ends.
SourceInv ==
    /\ \A s \in Sessions : life[s] \in {"up", "stopping", "removing"} => desc[SourceOf[s]] = s
    /\ \A s, t \in Sessions : Alive(s) /\ Alive(t) /\ SourceOf[s] = SourceOf[t] => s = t

\* The lock file excludes.
LockInv == \A s \in Sessions : at[s] \in Inside => lock = s

\* What a session was told is in the file, and in every copy of it from which
\* somebody else may write the file.
KeptInv ==
    \A s \in Sessions : Serving(s) =>
        /\ routes[got[s]] = s
        /\ \A t \in Sessions : t # s /\ at[t] = "check" => mem[t][got[s]] = s

\* Since it took the lock, nobody has come to be in the file of the one inside.
OldOrGone(s, t) == t # NoSession => life[t] = "gone" \/ t \in company[s]
CompanyInv ==
    \A s \in Sessions, h \in Hosts :
        /\ at[s] = "load" => OldOrGone(s, routes[h])
        /\ at[s] = "check" =>
              /\ OldOrGone(s, mem[s][h])
              /\ life[s] = "up" /\ h \notin todo[s] /\ mem[s][h] # NoSession =>
                    mem[s][h] \in company[s] /\ SourceOf[mem[s][h]] # SourceOf[s]

Sound == SourceInv /\ LockInv /\ KeptInv /\ CompanyInv

RegistryInv ==
    /\ TypeOK
    /\ \A s \in Sessions : PlaceInv(s)
    /\ KnownInv
    /\ ~mishap => Sound

-----------------------------------------------------------------------------
\* A set of natural numbers that is not empty has a smallest one.
LEMMA MinOfNat ==
    ASSUME NEW T \in SUBSET Nat, T # {} PROVE Min(T) \in T /\ \A y \in T : Min(T) <= y
  <1>1. PICK x \in T : \A y \in T : ~ (<<y, x>> \in OpToRel(<, Nat))
    BY NatLessThanWellFounded, WFMin
  <1>2. \A y \in T : ~(y < x)
    BY <1>1 DEF OpToRel
  <1>3. \A y \in T : x <= y
    BY <1>2
  <1>. QED BY <1>3 DEF Min

\* The names are numbers.
LEMMA HostsNat == Hosts \subseteq Nat /\ 0 \in Hosts
  BY RegistryAssumption DEF RegistryAssumption, Hosts

\* NotAsked, Refused and Released are not names.
LEMMA NotNames == NotAsked \notin Hosts /\ Refused \notin Hosts /\ Released \notin Hosts
  BY RegistryAssumption DEF RegistryAssumption, Hosts, NotAsked, Refused, Released

\* An empty registry.
LEMMA RegistryInit == ASSUME Init PROVE RegistryInv
  <1>1. TypeOK
    BY RegistryAssumption DEF RegistryAssumption, Init, TypeOK, Lives, Places, SomeOf, Empty
  <1>2. ASSUME NEW s \in Sessions PROVE PlaceInv(s)
    BY DEF Init, PlaceInv
  <1>3. KnownInv
    BY DEF Init, KnownInv, Empty
  <1>4. Sound
    BY NotNames DEF Init, Sound, SourceInv, LockInv, KeptInv, CompanyInv, Alive, Serving, Inside
  <1>. QED BY <1>1, <1>2, <1>3, <1>4 DEF RegistryInv

\* A step that writes neither the registry nor the copy of anyone inside, and
\* by which nobody starts to serve, leaves the tables in order.
LEMMA TableFrame ==
    ASSUME RegistryInv, TypeOK', UNCHANGED routes,
           \A t \in Sessions :
              /\ life[t] # "new" => life'[t] # "new"
              /\ life[t] = "gone" => life'[t] = "gone"
              /\ Serving(t)' => Serving(t) /\ got'[t] = got[t]
              /\ mem'[t] = mem[t] \/ mem'[t] = Empty
              /\ at'[t] \in {"load", "check"} =>
                    /\ at[t] = at'[t] /\ mem'[t] = mem[t] /\ todo'[t] = todo[t]
                    /\ company'[t] = company[t] /\ (life'[t] = "up" => life[t] = "up")
    PROVE  KnownInv' /\ (KeptInv => KeptInv') /\ (CompanyInv => CompanyInv')
  <1>0. TypeOK /\ KnownInv
    BY DEF RegistryInv
  <1>1. KnownInv'
    <2>1. ASSUME NEW h \in Hosts, routes[h] # NoSession PROVE life'[routes[h]] # "new"
      <3>1. routes[h] \in Sessions
        BY <1>0, <2>1 DEF TypeOK, SomeOf
      <3>. QED BY <1>0, <2>1, <3>1 DEF KnownInv
    <2>2. ASSUME NEW h \in Hosts, NEW s \in Sessions, mem'[s][h] # NoSession
          PROVE  life'[mem'[s][h]] # "new"
      <3>1. mem'[s][h] = mem[s][h]
        BY <2>2 DEF Empty
      <3>2. mem[s][h] \in Sessions
        BY <1>0, <2>2, <3>1 DEF TypeOK, SomeOf
      <3>. QED BY <1>0, <2>2, <3>1, <3>2 DEF KnownInv
    <2>. QED BY <2>1, <2>2 DEF KnownInv
  <1>2. ASSUME KeptInv PROVE KeptInv'
    <2>. SUFFICES ASSUME NEW s \in Sessions, Serving(s)'
                  PROVE  /\ routes[got'[s]] = s
                         /\ \A t \in Sessions : t # s /\ at'[t] = "check" => mem'[t][got'[s]] = s
      BY DEF KeptInv
    <2>1. Serving(s) /\ got'[s] = got[s]
      OBVIOUS
    <2>. QED BY <1>2, <2>1 DEF KeptInv
  <1>3. ASSUME CompanyInv PROVE CompanyInv'
    <2>. SUFFICES ASSUME NEW s \in Sessions, NEW h \in Hosts, at'[s] \in {"load", "check"}
                  PROVE  /\ at'[s] = "load" => OldOrGone(s, routes[h])'
                         /\ at'[s] = "check" =>
                              /\ OldOrGone(s, mem[s][h])'
                              /\ life'[s] = "up" /\ h \notin todo'[s] /\ mem'[s][h] # NoSession =>
                                   mem'[s][h] \in company'[s] /\ SourceOf[mem'[s][h]] # SourceOf[s]
      BY DEF CompanyInv
    <2>1. /\ at[s] = at'[s] /\ mem'[s] = mem[s] /\ todo'[s] = todo[s]
          /\ company'[s] = company[s] /\ (life'[s] = "up" => life[s] = "up")
      OBVIOUS
    <2>2. routes[h] \in SomeOf /\ mem[s][h] \in SomeOf
      BY <1>0 DEF TypeOK
    <2>3. OldOrGone(s, routes[h]) => OldOrGone(s, routes[h])'
      BY <2>1, <2>2 DEF OldOrGone, SomeOf
    <2>4. OldOrGone(s, mem[s][h]) => OldOrGone(s, mem[s][h])'
      BY <2>1, <2>2 DEF OldOrGone, SomeOf
    <2>. QED BY <1>3, <2>1, <2>3, <2>4 DEF CompanyInv
  <1>. QED BY <1>1, <1>2, <1>3

\* Everything of a session but its life.
SameRest(t) == /\ at'[t] = at[t] /\ got'[t] = got[t] /\ mem'[t] = mem[t]
               /\ todo'[t] = todo[t] /\ company'[t] = company[t]

\* A step of one session that leaves the lock and the registry alone.
LEMMA SessionFrame ==
    ASSUME RegistryInv, NEW s \in Sessions, TypeOK', UNCHANGED <<routes, lock>>,
           \A t \in Sessions : t # s => life'[t] = life[t] /\ SameRest(t),
           life[s] # "new" => life'[s] # "new", life[s] = "gone" => life'[s] = "gone",
           \/ SameRest(s) /\ (life'[s] = "up" => life[s] = "up" \/ at[s] \notin {"load", "check"})
           \/ /\ at'[s] \notin Inside /\ (mem'[s] = mem[s] \/ mem'[s] = Empty),
           Serving(s)' => Serving(s) /\ got'[s] = got[s],
           PlaceInv(s)', ~mishap' => ~mishap /\ SourceInv'
    PROVE  RegistryInv'
  <1>1. KnownInv' /\ (KeptInv => KeptInv') /\ (CompanyInv => CompanyInv')
    BY TableFrame DEF SameRest, Serving, Inside
  <1>2. ASSUME NEW t \in Sessions PROVE PlaceInv(t)'
    BY DEF RegistryInv, PlaceInv, SameRest
  <1>3. LockInv => LockInv'
    BY DEF LockInv, SameRest
  <1>. QED BY <1>1, <1>2, <1>3 DEF RegistryInv, Sound

\* While nobody starts or ends and no descriptor changes.
LEMMA SourceFrame == ASSUME SourceInv, UNCHANGED <<life, desc>> PROVE SourceInv'
  BY DEF SourceInv, Alive

\* claimDevFile: a source that a live session holds is refused.
LEMMA ClaimStep == ASSUME RegistryInv, NEW s \in Sessions, Claim(s) PROVE RegistryInv'
  <1>0. TypeOK /\ PlaceInv(s) /\ SourceOf \in [Sessions -> Sources] /\ NoSession \notin Sessions
    BY RegistryAssumption DEF RegistryInv, RegistryAssumption
  <1>1. /\ life[s] = "new" /\ UNCHANGED <<desc, lock, lockOld, at, routes, mem, todo, company, got>>
        /\ life' = [life EXCEPT ![s] = IF Taken(SourceOf[s]) THEN "gone" ELSE "claimed"]
        /\ mishap' = (mishap \/ \E t \in Others(s) : life[t] = "claimed")
    BY DEF Claim, tableVars, Mishap
  <1>2. TypeOK'
    <2>1. life' \in [Sessions -> Lives] /\ mishap' \in BOOLEAN
      BY <1>0, <1>1 DEF TypeOK, Lives
    <2>. QED BY <1>0, <1>1, <2>1 DEF TypeOK
  <1>3. /\ life'[s] \in {"gone", "claimed"} /\ (life'[s] = "claimed" => ~Taken(SourceOf[s]))
        /\ \A t \in Sessions : t # s => life'[t] = life[t]
    BY <1>0, <1>1 DEF TypeOK
  <1>4. PlaceInv(s)' /\ ~Serving(s)'
    BY <1>0, <1>1, <1>3 DEF PlaceInv, Serving
  <1>5. \A t \in Sessions : SameRest(t)
    BY <1>1 DEF SameRest
  <1>6. ASSUME ~mishap' PROVE ~mishap /\ SourceInv'
    <2>1. ~mishap /\ \A t \in Others(s) : life[t] # "claimed"
      BY <1>1, <1>6
    <2>2. SourceInv
      BY <2>1 DEF RegistryInv, Sound
    <2>3. ASSUME life'[s] = "claimed", NEW t \in Sessions, t # s, SourceOf[t] = SourceOf[s]
          PROVE  ~Alive(t)
      <3>1. life[t] # "claimed"
        BY <2>1, <2>3 DEF Others
      <3>2. life[t] \in {"up", "stopping", "removing"} => Taken(SourceOf[s])
        BY <1>0, <2>2, <2>3 DEF SourceInv, Taken, Alive
      <3>. QED BY <1>3, <2>3, <3>1, <3>2 DEF Alive
    <2>4. ASSUME NEW t \in Sessions, life'[t] \in {"up", "stopping", "removing"}
          PROVE  desc'[SourceOf[t]] = t
      BY <1>1, <1>3, <2>2, <2>4 DEF SourceInv
    <2>5. ASSUME NEW t \in Sessions, NEW u \in Sessions, Alive(t)', Alive(u)',
                 SourceOf[t] = SourceOf[u]
          PROVE  t = u
      <3>1. CASE t # s /\ u # s
        BY <1>3, <2>2, <2>5, <3>1 DEF SourceInv, Alive
      <3>2. CASE t = s /\ u # s
        <4>1. life'[s] = "claimed" /\ Alive(u)
          BY <1>3, <2>5, <3>2 DEF Alive
        <4>. QED BY <2>3, <2>5, <3>2, <4>1
      <3>3. CASE t # s /\ u = s
        <4>1. life'[s] = "claimed" /\ Alive(t)
          BY <1>3, <2>5, <3>3 DEF Alive
        <4>. QED BY <2>3, <2>5, <3>3, <4>1
      <3>. QED BY <3>1, <3>2, <3>3
    <2>. QED BY <2>1, <2>4, <2>5 DEF SourceInv
  <1>. QED BY <1>1, <1>2, <1>3, <1>4, <1>5, <1>6, SessionFrame

\* The descriptor is published; no other session of the source is there.
LEMMA PublishStep ==
    ASSUME RegistryInv, NEW s \in Sessions, publishDescriptor(s) PROVE RegistryInv'
  <1>0. TypeOK /\ PlaceInv(s) /\ SourceOf \in [Sessions -> Sources] /\ NoSession \notin Sessions
    BY RegistryAssumption DEF RegistryInv, RegistryAssumption
  <1>1. /\ life[s] = "claimed" /\ life' = [life EXCEPT ![s] = "up"]
        /\ desc' = [desc EXCEPT ![SourceOf[s]] = s]
        /\ UNCHANGED <<lock, lockOld, mishap, at, routes, mem, todo, company, got>>
    BY DEF publishDescriptor, tableVars, lockVars
  <1>2. TypeOK'
    <2>1. life' \in [Sessions -> Lives] /\ desc' \in [Sources -> SomeOf]
      BY <1>0, <1>1 DEF TypeOK, Lives, SomeOf
    <2>. QED BY <1>0, <1>1, <2>1 DEF TypeOK
  <1>3. /\ life'[s] = "up" /\ \A t \in Sessions : t # s => life'[t] = life[t]
        /\ desc'[SourceOf[s]] = s
        /\ \A t \in Sessions : SourceOf[t] # SourceOf[s] => desc'[SourceOf[t]] = desc[SourceOf[t]]
    BY <1>0, <1>1 DEF TypeOK
  <1>4. PlaceInv(s)' /\ at[s] = "out"
    BY <1>0, <1>1, <1>3 DEF PlaceInv
  <1>5. \A t \in Sessions : SameRest(t)
    BY <1>1 DEF SameRest
  <1>6. ~mishap' => ~mishap /\ SourceInv'
    <2>. SUFFICES ASSUME ~mishap PROVE SourceInv'
      BY <1>1
    <2>1. SourceInv
      BY DEF RegistryInv, Sound
    <2>2. \A t \in Sessions : Alive(t)' => Alive(t)
      BY <1>1, <1>3 DEF Alive
    <2>3. ASSUME NEW t \in Sessions, life'[t] \in {"up", "stopping", "removing"}
          PROVE  desc'[SourceOf[t]] = t
      <3>1. SourceOf[t] = SourceOf[s] => t = s
        BY <1>1, <1>3, <2>1, <2>2, <2>3 DEF SourceInv, Alive
      <3>. QED BY <1>3, <2>1, <2>3, <3>1 DEF SourceInv
    <2>. QED BY <2>1, <2>2, <2>3 DEF SourceInv
  <1>7. Serving(s)' => Serving(s) /\ got'[s] = got[s]
    BY <1>0, <1>1, NotNames DEF Serving, PlaceInv
  <1>. QED BY <1>1, <1>2, <1>3, <1>4, <1>5, <1>6, <1>7, SessionFrame

\* The first Web child asks for a name; a shutdown gives it back.
LEMMA AskStep ==
    ASSUME RegistryInv, NEW s \in Sessions, establishLocalRoute(s) \/ BeginStop(s)
    PROVE  RegistryInv'
  <1>0. TypeOK /\ PlaceInv(s)
    BY DEF RegistryInv
  <1>1. /\ life[s] = "up" /\ at[s] = "out"
        /\ UNCHANGED <<desc, lock, lockOld, mishap, routes, mem, todo, company, got>>
    BY DEF establishLocalRoute, BeginStop, tableVars, lockVars
  <1>2. PICK l \in {"up", "stopping"}, a \in {"try", "out"} :
           /\ life' = [life EXCEPT ![s] = l] /\ at' = [at EXCEPT ![s] = a]
           /\ l = "up" => got[s] = NotAsked
    <2>1. CASE establishLocalRoute(s)
      <3>1. life' = [life EXCEPT ![s] = "up"]
        BY <1>0, <1>1, <2>1 DEF establishLocalRoute, TypeOK
      <3>. QED BY <2>1, <3>1 DEF establishLocalRoute
    <2>2. CASE BeginStop(s)
      BY <2>2 DEF BeginStop
    <2>. QED BY <2>1, <2>2
  <1>3. TypeOK'
    <2>1. life' \in [Sessions -> Lives] /\ at' \in [Sessions -> Places]
      BY <1>0, <1>2 DEF TypeOK, Lives, Places
    <2>. QED BY <1>0, <1>1, <2>1 DEF TypeOK
  <1>4. /\ life'[s] = l /\ at'[s] = a
        /\ \A t \in Sessions : t # s => life'[t] = life[t] /\ SameRest(t)
    BY <1>0, <1>1, <1>2 DEF TypeOK, SameRest
  <1>5. PlaceInv(s)'
    BY <1>0, <1>1, <1>2, <1>4 DEF PlaceInv
  <1>6. ~mishap' => ~mishap /\ SourceInv'
    <2>. SUFFICES ASSUME SourceInv PROVE SourceInv'
      BY <1>1 DEF RegistryInv, Sound
    <2>1. \A t \in Sessions : Alive(t)' => Alive(t)
      BY <1>1, <1>4 DEF Alive
    <2>2. \A t \in Sessions : life'[t] \in {"up", "stopping", "removing"} =>
              life[t] \in {"up", "stopping", "removing"}
      BY <1>1, <1>4
    <2>. QED BY <1>1, <2>1, <2>2 DEF SourceInv
  <1>7. Serving(s)' => Serving(s) /\ got'[s] = got[s]
    BY <1>1 DEF Serving
  <1>8. at'[s] \notin Inside /\ mem'[s] = mem[s]
    BY <1>1, <1>2, <1>4 DEF Inside
  <1>. QED BY <1>1, <1>2, <1>3, <1>4, <1>5, <1>6, <1>7, <1>8, SessionFrame

\* removeOwnDevDescriptor in its two halves, and a process that dies.
LEMMA EndStep ==
    ASSUME RegistryInv, NEW s \in Sessions,
           readOwnDevDescriptor(s) \/ removeOwnDevDescriptor(s) \/ Crash(s)
    PROVE  RegistryInv'
  <1>0. TypeOK /\ PlaceInv(s) /\ SourceOf \in [Sessions -> Sources] /\ NoSession \notin Sessions
    BY RegistryAssumption DEF RegistryInv, RegistryAssumption
  <1>1. /\ UNCHANGED <<lock, lockOld, mishap, routes>> /\ Alive(s)
        /\ (at[s] = "out" \/ at' = [at EXCEPT ![s] = "out"])
    BY <1>0 DEF readOwnDevDescriptor, removeOwnDevDescriptor, Crash, tableVars, lockVars, Alive,
                PlaceInv
  <1>2. PICK l \in {"removing", "gone"} :
           /\ life' = [life EXCEPT ![s] = l]
           /\ l = "removing" => life[s] = "stopping" /\ desc[SourceOf[s]] = s /\ desc' = desc
    BY DEF readOwnDevDescriptor, removeOwnDevDescriptor, Crash
  <1>3. desc' = desc \/ (life[s] = "removing" /\ desc' = [desc EXCEPT ![SourceOf[s]] = NoSession])
    BY DEF readOwnDevDescriptor, removeOwnDevDescriptor, Crash
  <1>4. TypeOK'
    <2>1. life' \in [Sessions -> Lives] /\ desc' \in [Sources -> SomeOf]
      BY <1>0, <1>2, <1>3 DEF TypeOK, Lives, SomeOf
    <2>2. /\ at' \in [Sessions -> Places]
          /\ got' \in [Sessions -> Hosts \cup {NotAsked, Refused, Released}]
      BY <1>0 DEF TypeOK, Places, readOwnDevDescriptor, removeOwnDevDescriptor, Crash
    <2>3. /\ mem' \in [Sessions -> [Hosts -> SomeOf]] /\ todo' \in [Sessions -> SUBSET Hosts]
          /\ company' \in [Sessions -> SUBSET Sessions]
      <3>1. Empty \in [Hosts -> SomeOf]
        BY DEF Empty, SomeOf
      <3>2. CASE Crash(s)
        <4>1. /\ mem' = [mem EXCEPT ![s] = Empty] /\ todo' = [todo EXCEPT ![s] = {}]
              /\ company' = [company EXCEPT ![s] = {}]
          BY <3>2 DEF Crash, ForgetLocals
        <4>. QED BY <1>0, <3>1, <4>1 DEF TypeOK
      <3>3. CASE readOwnDevDescriptor(s) \/ removeOwnDevDescriptor(s)
        BY <1>0, <3>3 DEF TypeOK, readOwnDevDescriptor, removeOwnDevDescriptor, tableVars
      <3>. QED BY <3>2, <3>3
    <2>. QED BY <1>0, <1>1, <2>1, <2>2, <2>3 DEF TypeOK
  <1>5. life'[s] = l /\ \A t \in Sessions : t # s => life'[t] = life[t]
    BY <1>0, <1>2 DEF TypeOK
  <1>6. \A t \in Sessions : t # s => SameRest(t)
    BY <1>0 DEF TypeOK, SameRest, readOwnDevDescriptor, removeOwnDevDescriptor, Crash,
                ForgetLocals, tableVars
  <1>7. at'[s] = "out" /\ (mem'[s] = mem[s] \/ mem'[s] = Empty)
    BY <1>0 DEF TypeOK, readOwnDevDescriptor, removeOwnDevDescriptor, Crash, ForgetLocals,
                tableVars, PlaceInv
  <1>8. PlaceInv(s)' /\ ~Serving(s)'
    BY <1>5, <1>7, <1>2 DEF PlaceInv, Serving
  <1>9. ~mishap' => ~mishap /\ SourceInv'
    <2>. SUFFICES ASSUME SourceInv PROVE SourceInv'
      BY <1>1 DEF RegistryInv, Sound
    <2>1. \A t \in Sessions : Alive(t)' => Alive(t)
      BY <1>1, <1>5 DEF Alive
    <2>2. ASSUME NEW t \in Sessions, life'[t] \in {"up", "stopping", "removing"}
          PROVE  desc'[SourceOf[t]] = t
      <3>1. CASE t = s
        BY <1>2, <1>5, <2>2, <3>1
      <3>2. CASE t # s
        <4>1. life[t] \in {"up", "stopping", "removing"} /\ Alive(t)
          BY <1>5, <2>2, <3>2 DEF Alive
        <4>2. SourceOf[t] # SourceOf[s] /\ desc[SourceOf[t]] = t
          BY <1>1, <3>2, <4>1 DEF SourceInv
        <4>3. desc'[SourceOf[t]] = desc[SourceOf[t]]
          BY <1>0, <1>3, <4>2 DEF TypeOK
        <4>. QED BY <4>2, <4>3
      <3>. QED BY <3>1, <3>2
    <2>. QED BY <2>1, <2>2 DEF SourceInv
  <1>10. life[s] # "gone" /\ life'[s] # "new" /\ at'[s] \notin Inside
    BY <1>1, <1>2, <1>5, <1>7 DEF Alive, Inside
  <1>. QED BY <1>1, <1>4, <1>5, <1>6, <1>7, <1>8, <1>9, <1>10, SessionFrame

\* `ahdcode stop` gives up on a session that is still ending: a mishap.
LEMMA GiveUpStep ==
    ASSUME RegistryInv, NEW s \in Sessions, StopClientGivesUp(s) PROVE RegistryInv'
  <1>0. TypeOK /\ PlaceInv(s) /\ SourceOf \in [Sessions -> Sources]
    BY RegistryAssumption DEF RegistryInv, RegistryAssumption
  <1>1. /\ UNCHANGED <<life, lock, lockOld, at, routes, mem, todo, company, got>>
        /\ desc' = [desc EXCEPT ![SourceOf[s]] = NoSession] /\ mishap' = TRUE
    BY DEF StopClientGivesUp, tableVars, Mishap
  <1>2. TypeOK'
    BY <1>0, <1>1 DEF TypeOK, SomeOf
  <1>3. PlaceInv(s)'
    BY <1>0, <1>1 DEF PlaceInv
  <1>4. \A t \in Sessions : SameRest(t)
    BY <1>1 DEF SameRest
  <1>5. Serving(s)' => Serving(s) /\ got'[s] = got[s]
    BY <1>1 DEF Serving
  <1>. QED BY <1>1, <1>2, <1>3, <1>4, <1>5, SessionFrame

\* Waiting for the lock.
LEMMA WaitStep ==
    ASSUME RegistryInv, NEW s \in Sessions,
           \/ SeesStaleLock(s) \/ SleepsAndRetries(s) \/ GivesUp(s) \/ (OpenLock(s) /\ LockExists)
    PROVE  RegistryInv'
  <1>0. TypeOK /\ PlaceInv(s)
    BY DEF RegistryInv
  <1>1. /\ UNCHANGED <<life, desc, lock, lockOld, mishap, routes, mem, todo, company>>
        /\ at[s] \in {"try", "stat"}
    BY DEF SeesStaleLock, SleepsAndRetries, GivesUp, OpenLock, tableVars, lockVars
  <1>2. PICK a \in {"break", "try", "out", "stat"} :
           at' = [at EXCEPT ![s] = a] /\ (a # "out" => got' = got)
    BY DEF SeesStaleLock, SleepsAndRetries, GivesUp, OpenLock
  <1>3. /\ got' \in [Sessions -> Hosts \cup {NotAsked, Refused, Released}]
        /\ got'[s] \in {got[s], Refused, Released} /\ \A t \in Sessions : t # s => got'[t] = got[t]
    BY <1>0 DEF TypeOK, SeesStaleLock, SleepsAndRetries, GivesUp, OpenLock
  <1>4. TypeOK'
    <2>1. at' \in [Sessions -> Places]
      BY <1>0, <1>2 DEF TypeOK, Places
    <2>. QED BY <1>0, <1>1, <1>3, <2>1 DEF TypeOK
  <1>5. at'[s] = a /\ \A t \in Sessions : t # s => SameRest(t)
    BY <1>0, <1>1, <1>2, <1>3 DEF TypeOK, SameRest
  <1>6. life[s] \in {"up", "stopping"} /\ (life[s] = "up" => got[s] = NotAsked)
    BY <1>0, <1>1 DEF PlaceInv
  <1>7. PlaceInv(s)'
    BY <1>1, <1>2, <1>5, <1>6 DEF PlaceInv
  <1>8. ~mishap' => ~mishap /\ SourceInv'
    BY <1>1, SourceFrame DEF RegistryInv, Sound
  <1>9. ~Serving(s)'
    BY <1>1, <1>3, <1>6, NotNames DEF Serving
  <1>10. at'[s] \notin Inside /\ mem'[s] = mem[s]
    BY <1>1, <1>2, <1>5 DEF Inside
  <1>. QED BY <1>1, <1>4, <1>5, <1>7, <1>8, <1>9, <1>10, SessionFrame

\* The lock file is created: nobody is inside, and whoever is in the registry
\* is running or dead.
LEMMA LockStepTaken ==
    ASSUME RegistryInv, NEW s \in Sessions, OpenLock(s), ~LockExists PROVE RegistryInv'
  <1>0. TypeOK /\ PlaceInv(s) /\ KnownInv /\ NoSession \notin Sessions
    BY RegistryAssumption DEF RegistryInv, RegistryAssumption
  <1>1. /\ UNCHANGED <<life, desc, mishap, routes, mem, todo, got>>
        /\ at[s] = "try" /\ lock = NoSession /\ lock' = s /\ lockOld' = FALSE
        /\ at' = [at EXCEPT ![s] = "load"]
        /\ company' = [company EXCEPT ![s] = {t \in Sessions : Alive(t)}]
    BY DEF OpenLock, LockExists
  <1>2. TypeOK'
    <2>1. /\ at' \in [Sessions -> Places] /\ company' \in [Sessions -> SUBSET Sessions]
          /\ lock' \in SomeOf
      BY <1>0, <1>1 DEF TypeOK, Places, SomeOf
    <2>. QED BY <1>0, <1>1, <2>1 DEF TypeOK
  <1>3. /\ at'[s] = "load" /\ company'[s] = {t \in Sessions : Alive(t)}
        /\ \A t \in Sessions : t # s => at'[t] = at[t] /\ company'[t] = company[t]
    BY <1>0, <1>1 DEF TypeOK
  <1>4. ASSUME NEW t \in Sessions PROVE PlaceInv(t)'
    BY <1>0, <1>1, <1>3 DEF RegistryInv, PlaceInv
  <1>5. KnownInv'
    BY <1>0, <1>1 DEF KnownInv
  <1>6. ASSUME ~mishap' PROVE Sound'
    <2>1. Sound
      BY <1>1, <1>6 DEF RegistryInv
    <2>2. SourceInv'
      BY <1>1, <2>1, SourceFrame DEF Sound
    <2>3. LockInv'
      BY <1>0, <1>1, <1>3, <2>1 DEF Sound, LockInv
    <2>4. KeptInv'
      BY <1>1, <1>3, <2>1 DEF Sound, KeptInv, Serving
    <2>5. ASSUME NEW h \in Hosts PROVE OldOrGone(s, routes[h])'
      <3>1. ASSUME routes[h] # NoSession PROVE life[routes[h]] = "gone" \/ Alive(routes[h])
        <4>1. routes[h] \in Sessions /\ life[routes[h]] # "new"
          BY <1>0, <3>1 DEF TypeOK, SomeOf, KnownInv
        <4>2. life[routes[h]] \in Lives
          BY <1>0, <4>1 DEF TypeOK
        <4>. QED BY <4>1, <4>2 DEF Lives, Alive
      <3>2. routes[h] \in SomeOf
        BY <1>0 DEF TypeOK
      <3>. QED BY <1>1, <1>3, <3>1, <3>2 DEF OldOrGone, SomeOf
    <2>6. CompanyInv'
      <3>. SUFFICES ASSUME NEW t \in Sessions, NEW h \in Hosts
                    PROVE  /\ at'[t] = "load" => OldOrGone(t, routes[h])'
                           /\ at'[t] = "check" =>
                                /\ OldOrGone(t, mem[t][h])'
                                /\ life'[t] = "up" /\ h \notin todo'[t] /\ mem'[t][h] # NoSession =>
                                     mem'[t][h] \in company'[t] /\ SourceOf[mem'[t][h]] # SourceOf[t]
        BY DEF CompanyInv
      <3>1. CASE t = s
        BY <1>3, <2>5, <3>1
      <3>2. CASE t # s
        BY <1>1, <1>3, <2>1, <3>2 DEF Sound, CompanyInv, OldOrGone
      <3>. QED BY <3>1, <3>2
    <2>. QED BY <2>2, <2>3, <2>4, <2>6 DEF Sound
  <1>. QED BY <1>2, <1>4, <1>5, <1>6 DEF RegistryInv

\* The lock file is removed, by the one inside or by a waiter that saw it
\* stale: unless that is a mishap, no other is inside.
LEMMA LockStepFreed ==
    ASSUME RegistryInv, NEW s \in Sessions, BreakLock(s) \/ Unlock(s) PROVE RegistryInv'
  <1>0. TypeOK /\ PlaceInv(s) /\ NoSession \notin Sessions
    BY RegistryAssumption DEF RegistryInv, RegistryAssumption
  <1>1. /\ UNCHANGED <<life, desc, routes, mem, todo, company, got>>
        /\ lock' = NoSession /\ lockOld' = FALSE
    BY DEF BreakLock, Unlock, RemoveLock, tableVars
  <1>2. PICK a \in {"try", "out"} :
           /\ at' = [at EXCEPT ![s] = a]
           /\ \/ a = "try" /\ at[s] = "break"
              \/ a = "out" /\ at[s] = "unlock"
           /\ mishap' \in BOOLEAN
           /\ ~mishap' => ~mishap /\ (a = "out" \/ lock = NoSession \/ ~Alive(lock))
    <2>1. CASE BreakLock(s)
      <3>1. mishap' = (mishap \/ (lock # NoSession /\ Alive(lock)))
        BY <2>1 DEF BreakLock, Mishap
      <3>2. mishap' \in BOOLEAN /\ (~mishap' => ~mishap /\ (lock = NoSession \/ ~Alive(lock)))
        BY <3>1
      <3>. QED BY <2>1, <3>2 DEF BreakLock
    <2>2. CASE Unlock(s)
      BY <1>0, <2>2 DEF Unlock, TypeOK
    <2>. QED BY <2>1, <2>2
  <1>3. TypeOK'
    <2>1. /\ at' \in [Sessions -> Places] /\ lock' \in SomeOf /\ lockOld' \in BOOLEAN
          /\ mishap' \in BOOLEAN
      BY <1>0, <1>1, <1>2 DEF TypeOK, Places, SomeOf
    <2>. QED BY <1>0, <1>1, <2>1 DEF TypeOK
  <1>4. at'[s] = a /\ \A t \in Sessions : t # s => at'[t] = at[t]
    BY <1>0, <1>2 DEF TypeOK
  <1>5. ASSUME NEW t \in Sessions PROVE PlaceInv(t)'
    <2>1. PlaceInv(t) /\ UNCHANGED <<life, got>>
      BY <1>1 DEF RegistryInv
    <2>2. CASE t = s
      BY <1>2, <1>4, <2>1, <2>2 DEF PlaceInv
    <2>3. CASE t # s
      BY <1>4, <2>1, <2>3 DEF PlaceInv
    <2>. QED BY <2>2, <2>3
  <1>6. KnownInv' /\ (KeptInv => KeptInv') /\ (CompanyInv => CompanyInv')
    <2>1. ASSUME NEW t \in Sessions PROVE at'[t] \in {"load", "check"} => at[t] = at'[t]
      BY <1>2, <1>4
    <2>2. \A t \in Sessions : Serving(t)' => Serving(t)
      BY <1>1 DEF Serving
    <2>. QED BY <1>1, <1>3, <2>1, <2>2, TableFrame
  <1>7. ASSUME ~mishap' PROVE Sound'
    <2>1. ~mishap /\ Sound
      BY <1>2, <1>7 DEF RegistryInv
    <2>2. SourceInv'
      BY <1>1, <2>1, SourceFrame DEF Sound
    <2>3. ASSUME NEW t \in Sessions, at'[t] \in Inside PROVE FALSE
      <3>1. t # s /\ at[t] \in Inside
        BY <1>2, <1>4, <2>3 DEF Inside
      <3>2. lock = t
        BY <2>1, <3>1 DEF Sound, LockInv
      <3>3. life[t] \in {"up", "stopping"}
        BY <3>1 DEF RegistryInv, PlaceInv, Inside
      <3>4. lock # NoSession /\ Alive(lock)
        BY <1>0, <3>2, <3>3 DEF Alive
      <3>5. at[s] # "unlock"
        BY <2>1, <3>1, <3>2 DEF Sound, LockInv, Inside
      <3>. QED BY <1>2, <1>7, <3>4, <3>5
    <2>4. LockInv'
      BY <2>3 DEF LockInv
    <2>. QED BY <1>6, <2>1, <2>2, <2>4 DEF Sound
  <1>. QED BY <1>3, <1>5, <1>6, <1>7 DEF RegistryInv

\* Time passes for the lock file of a dead process.
LEMMA AgeStep == ASSUME RegistryInv, LockAges PROVE RegistryInv'
  <1>1. UNCHANGED <<life, desc, lock, mishap, at, routes, mem, todo, company, got>> /\ lockOld' = TRUE
    BY DEF LockAges, tableVars
  <1>2. TypeOK' /\ (\A s \in Sessions : PlaceInv(s)') /\ KnownInv'
    BY <1>1 DEF RegistryInv, TypeOK, PlaceInv, KnownInv
  <1>3. Sound => Sound'
    BY <1>1 DEF Sound, SourceInv, LockInv, KeptInv, CompanyInv, Alive, Serving, OldOrGone
  <1>. QED BY <1>1, <1>2, <1>3 DEF RegistryInv

\* The one inside reads the registry.
LEMMA LoadStep == ASSUME RegistryInv, NEW s \in Sessions, loadRoutes(s) PROVE RegistryInv'
  <1>0. TypeOK /\ PlaceInv(s) /\ KnownInv
    BY DEF RegistryInv
  <1>1. /\ UNCHANGED <<life, desc, lock, lockOld, mishap, routes, got, company>>
        /\ at[s] = "load" /\ at' = [at EXCEPT ![s] = "check"] /\ mem' = [mem EXCEPT ![s] = routes]
        /\ todo' = [todo EXCEPT ![s] = IF life[s] = "up"
                        THEN {h \in Hosts : routes[h] # NoSession} ELSE {}]
    BY DEF loadRoutes, lockVars
  <1>2. TypeOK'
    <2>1. at' \in [Sessions -> Places] /\ mem' \in [Sessions -> [Hosts -> SomeOf]]
      BY <1>0, <1>1 DEF TypeOK, Places
    <2>2. todo' \in [Sessions -> SUBSET Hosts]
      <3>1. {h \in Hosts : routes[h] # NoSession} \in SUBSET Hosts /\ {} \in SUBSET Hosts
        OBVIOUS
      <3>. QED BY <1>0, <1>1, <3>1 DEF TypeOK
    <2>. QED BY <1>0, <1>1, <2>1, <2>2 DEF TypeOK
  <1>3. /\ at'[s] = "check" /\ mem'[s] = routes
        /\ \A h \in Hosts : life[s] = "up" /\ h \notin todo'[s] => routes[h] = NoSession
        /\ \A t \in Sessions : t # s => at'[t] = at[t] /\ mem'[t] = mem[t] /\ todo'[t] = todo[t]
    BY <1>0, <1>1 DEF TypeOK
  <1>4. ASSUME NEW t \in Sessions PROVE PlaceInv(t)'
    BY <1>0, <1>1, <1>3 DEF RegistryInv, PlaceInv
  <1>5. KnownInv'
    BY <1>0, <1>1, <1>3 DEF KnownInv
  <1>6. ASSUME Sound PROVE Sound'
    <2>1. SourceInv'
      BY <1>1, <1>6, SourceFrame DEF Sound
    <2>2. LockInv'
      BY <1>1, <1>3, <1>6 DEF Sound, LockInv, Inside
    <2>3. KeptInv'
      <3>. SUFFICES ASSUME NEW t \in Sessions, Serving(t)
                    PROVE  /\ routes[got[t]] = t
                           /\ \A u \in Sessions : u # t /\ at'[u] = "check" => mem'[u][got[t]] = t
        BY <1>1 DEF KeptInv, Serving
      <3>. QED BY <1>3, <1>6 DEF Sound, KeptInv
    <2>4. CompanyInv'
      <3>. SUFFICES ASSUME NEW t \in Sessions, NEW h \in Hosts
                    PROVE  /\ at'[t] = "load" => OldOrGone(t, routes[h])'
                           /\ at'[t] = "check" =>
                                /\ OldOrGone(t, mem[t][h])'
                                /\ life'[t] = "up" /\ h \notin todo'[t] /\ mem'[t][h] # NoSession =>
                                     mem'[t][h] \in company'[t] /\ SourceOf[mem'[t][h]] # SourceOf[t]
        BY DEF CompanyInv
      <3>1. CASE t = s
        <4>1. OldOrGone(s, routes[h])
          BY <1>1, <1>6 DEF Sound, CompanyInv
        <4>. QED BY <1>1, <1>3, <3>1, <4>1 DEF OldOrGone
      <3>2. CASE t # s
        BY <1>1, <1>3, <1>6, <3>2 DEF Sound, CompanyInv, OldOrGone
      <3>. QED BY <3>1, <3>2
    <2>. QED BY <2>1, <2>2, <2>3, <2>4 DEF Sound
  <1>. QED BY <1>1, <1>2, <1>4, <1>5, <1>6 DEF RegistryInv

\* One entry is looked at: a live one of another source stays.
LEMMA CheckStep == ASSUME RegistryInv, NEW s \in Sessions, CheckRoute(s) PROVE RegistryInv'
  <1>. DEFINE h == Min(todo[s])
  <1>0. TypeOK /\ PlaceInv(s) /\ KnownInv /\ SourceOf \in [Sessions -> Sources]
        /\ NoSession \notin Sessions
    BY RegistryAssumption DEF RegistryInv, RegistryAssumption
  <1>1. /\ UNCHANGED <<life, desc, lock, lockOld, mishap, at, routes, got, company>>
        /\ at[s] = "check" /\ todo' = [todo EXCEPT ![s] = todo[s] \ {h}]
        /\ mem' = [mem EXCEPT ![s] =
                      [mem[s] EXCEPT ![h] = IF Dropped(s, mem[s][h]) THEN NoSession ELSE mem[s][h]]]
    BY <1>0 DEF CheckRoute, lockVars, TypeOK
  <1>2. h \in Hosts
    <2>1. todo[s] \in SUBSET Nat /\ todo[s] # {} /\ todo[s] \subseteq Hosts
      BY <1>0, HostsNat DEF TypeOK, CheckRoute
    <2>. QED BY <2>1, MinOfNat
  <1>. HIDE DEF h
  <1>3. /\ todo'[s] = todo[s] \ {h} /\ mem[s] \in [Hosts -> SomeOf]
        /\ mem'[s][h] = IF Dropped(s, mem[s][h]) THEN NoSession ELSE mem[s][h]
        /\ \A x \in Hosts : x # h => mem'[s][x] = mem[s][x]
        /\ \A t \in Sessions : t # s => mem'[t] = mem[t] /\ todo'[t] = todo[t]
    BY <1>0, <1>1, <1>2 DEF TypeOK
  <1>4. TypeOK'
    <2>1. todo' \in [Sessions -> SUBSET Hosts]
      BY <1>0, <1>1 DEF TypeOK
    <2>2. mem' \in [Sessions -> [Hosts -> SomeOf]]
      <3>. DEFINE kept == [mem[s] EXCEPT ![h] = IF Dropped(s, mem[s][h]) THEN NoSession ELSE mem[s][h]]
      <3>1. mem[s][h] \in SomeOf /\ NoSession \in SomeOf
        BY <1>2, <1>3 DEF SomeOf
      <3>2. kept \in [Hosts -> SomeOf]
        BY <1>2, <1>3, <3>1
      <3>3. mem' = [mem EXCEPT ![s] = kept]
        BY <1>1
      <3>. HIDE DEF kept
      <3>. QED BY <1>0, <3>2, <3>3 DEF TypeOK
    <2>. QED BY <1>0, <1>1, <2>1, <2>2 DEF TypeOK
  <1>5. ASSUME NEW t \in Sessions PROVE PlaceInv(t)'
    BY <1>1 DEF RegistryInv, PlaceInv
  <1>6. \A x \in Hosts : mem'[s][x] = mem[s][x] \/ mem'[s][x] = NoSession
    BY <1>3
  <1>7. KnownInv'
    <2>1. ASSUME NEW x \in Hosts, NEW t \in Sessions, mem'[t][x] # NoSession
          PROVE  life[mem'[t][x]] # "new"
      BY <1>0, <1>3, <1>6, <2>1 DEF KnownInv
    <2>. QED BY <1>0, <1>1, <2>1 DEF KnownInv
  <1>8. ASSUME Sound PROVE Sound'
    <2>1. SourceInv'
      BY <1>1, <1>8, SourceFrame DEF Sound
    <2>2. LockInv'
      BY <1>1, <1>8 DEF Sound, LockInv
    <2>3. KeptInv'
      <3>. SUFFICES ASSUME NEW t \in Sessions, Serving(t)
                    PROVE  /\ routes[got[t]] = t
                           /\ \A u \in Sessions : u # t /\ at[u] = "check" => mem'[u][got[t]] = t
        BY <1>1 DEF KeptInv, Serving
      <3>1. /\ routes[got[t]] = t /\ got[t] \in Hosts
            /\ \A u \in Sessions : u # t /\ at[u] = "check" => mem[u][got[t]] = t
        BY <1>8 DEF Sound, KeptInv, Serving
      <3>2. ASSUME t # s PROVE mem'[s][got[t]] = t
        <4>1. mem[s][got[t]] = t
          BY <1>1, <3>1, <3>2
        <4>2. Alive(t) /\ Alive(s) /\ desc[SourceOf[t]] = t
          BY <1>0, <1>1, <1>8 DEF Serving, Alive, PlaceInv, Sound, SourceInv
        <4>3. SourceOf[t] # SourceOf[s]
          BY <1>8, <3>2, <4>2 DEF Sound, SourceInv
        <4>4. ~Dropped(s, t)
          BY <4>2, <4>3 DEF Dropped, Live
        <4>. QED BY <1>3, <3>1, <4>1, <4>4
      <3>. QED BY <1>3, <3>1, <3>2
    <2>4. CompanyInv'
      <3>. SUFFICES ASSUME NEW t \in Sessions, NEW x \in Hosts
                    PROVE  /\ at'[t] = "load" => OldOrGone(t, routes[x])'
                           /\ at'[t] = "check" =>
                                /\ OldOrGone(t, mem[t][x])'
                                /\ life'[t] = "up" /\ x \notin todo'[t] /\ mem'[t][x] # NoSession =>
                                     mem'[t][x] \in company'[t] /\ SourceOf[mem'[t][x]] # SourceOf[t]
        BY DEF CompanyInv
      <3>1. CASE t = s
        <4>1. OldOrGone(s, mem[s][x])
          BY <1>1, <1>8 DEF Sound, CompanyInv
        <4>2. OldOrGone(s, mem[s][x])'
          BY <1>1, <1>6, <4>1 DEF OldOrGone
        <4>3. ASSUME life[s] = "up", x \notin todo'[s], mem'[s][x] # NoSession
              PROVE  mem'[s][x] \in company[s] /\ SourceOf[mem'[s][x]] # SourceOf[s]
          <5>1. CASE x # h
            <6>1. x \notin todo[s] /\ mem'[s][x] = mem[s][x]
              BY <1>3, <4>3, <5>1
            <6>. QED BY <1>1, <1>8, <4>3, <6>1 DEF Sound, CompanyInv
          <5>2. CASE x = h
            <6>1. ~Dropped(s, mem[s][x]) /\ mem'[s][x] = mem[s][x]
              BY <1>3, <4>3, <5>2
            <6>2. SourceOf[mem[s][x]] # SourceOf[s] /\ Alive(mem[s][x])
              BY <6>1 DEF Dropped, Live
            <6>3. life[mem[s][x]] # "gone"
              BY <6>2 DEF Alive
            <6>. QED BY <4>1, <4>3, <6>1, <6>2, <6>3 DEF OldOrGone
          <5>. QED BY <5>1, <5>2
        <4>. QED BY <1>1, <3>1, <4>2, <4>3
      <3>2. CASE t # s
        BY <1>1, <1>3, <1>8, <3>2 DEF Sound, CompanyInv, OldOrGone
      <3>. QED BY <3>1, <3>2
    <2>. QED BY <2>1, <2>2, <2>3, <2>4 DEF Sound
  <1>. QED BY <1>1, <1>4, <1>5, <1>7, <1>8 DEF RegistryInv

\* The one inside writes the registry back: nobody else is inside, so what
\* counts is that those who serve are in what it writes.
LEMMA WriteStep ==
    ASSUME RegistryInv, NEW s \in Sessions,
           at[s] = "check", at' = [at EXCEPT ![s] = "unlock"], ForgetLocals(s),
           UNCHANGED <<life, desc, lock, lockOld, mishap>>,
           routes' \in [Hosts -> SomeOf],
           \A x \in Hosts : routes'[x] \in {NoSession, s, mem[s][x], routes[x]},
           got' \in [Sessions -> Hosts \cup {NotAsked, Refused, Released}],
           \A t \in Sessions : t # s => got'[t] = got[t],
           Sound => \A t \in Sessions : Serving(t)' => routes'[got'[t]] = t
    PROVE  RegistryInv'
  <1>0. TypeOK /\ PlaceInv(s) /\ KnownInv
    BY DEF RegistryInv
  <1>1. /\ at'[s] = "unlock" /\ mem'[s] = Empty
        /\ \A t \in Sessions : t # s => at'[t] = at[t] /\ mem'[t] = mem[t]
    BY <1>0 DEF TypeOK, ForgetLocals
  <1>2. TypeOK'
    <2>1. at' \in [Sessions -> Places]
      BY <1>0 DEF TypeOK, Places
    <2>2. Empty \in [Hosts -> SomeOf]
      BY DEF Empty, SomeOf
    <2>3. mem' \in [Sessions -> [Hosts -> SomeOf]]
      BY <1>0, <2>2 DEF TypeOK, ForgetLocals
    <2>4. todo' \in [Sessions -> SUBSET Hosts] /\ company' \in [Sessions -> SUBSET Sessions]
      BY <1>0 DEF TypeOK, ForgetLocals
    <2>. QED BY <1>0, <2>1, <2>3, <2>4 DEF TypeOK
  <1>3. ASSUME NEW t \in Sessions PROVE PlaceInv(t)'
    <2>1. CASE t = s
      BY <1>0, <1>1, <2>1 DEF PlaceInv
    <2>2. CASE t # s
      BY <1>1, <2>2 DEF RegistryInv, PlaceInv
    <2>. QED BY <2>1, <2>2
  <1>4. KnownInv'
    <2>1. life[s] # "new"
      BY <1>0 DEF PlaceInv
    <2>2. ASSUME NEW x \in Hosts, routes'[x] # NoSession PROVE life[routes'[x]] # "new"
      BY <1>0, <2>1, <2>2 DEF KnownInv
    <2>3. ASSUME NEW x \in Hosts, NEW t \in Sessions, mem'[t][x] # NoSession
          PROVE  life[mem'[t][x]] # "new"
      <3>1. t # s
        BY <1>1, <2>3 DEF Empty
      <3>. QED BY <1>0, <1>1, <2>3, <3>1 DEF KnownInv
    <2>. QED BY <2>2, <2>3 DEF KnownInv
  <1>5. ASSUME Sound PROVE Sound'
    <2>1. SourceInv'
      BY <1>5, SourceFrame DEF Sound
    <2>2. \A t \in Sessions : t # s => at[t] \notin Inside
      BY <1>5 DEF Sound, LockInv, Inside
    <2>3. LockInv'
      BY <1>1, <1>5, <2>2 DEF Sound, LockInv, Inside
    <2>4. \A t \in Sessions : at'[t] \notin {"load", "check"}
      BY <1>1, <2>2 DEF Inside
    <2>5. KeptInv'
      BY <1>5, <2>4 DEF KeptInv
    <2>6. CompanyInv'
      BY <2>4 DEF CompanyInv
    <2>. QED BY <2>1, <2>3, <2>5, <2>6 DEF Sound
  <1>. QED BY <1>2, <1>3, <1>4, <1>5 DEF RegistryInv

\* Allocate takes a name that is free in its copy: no one serves under it.
LEMMA AllocateStep == ASSUME RegistryInv, NEW s \in Sessions, Allocate(s) PROVE RegistryInv'
  <1>. DEFINE h == Candidate(s)
  <1>0. TypeOK /\ PlaceInv(s) /\ KnownInv /\ NoSession \notin Sessions
    BY RegistryAssumption DEF RegistryInv, RegistryAssumption
  <1>1. /\ UNCHANGED <<life, desc, lock, lockOld, mishap>>
        /\ at[s] = "check" /\ at' = [at EXCEPT ![s] = "unlock"] /\ ForgetLocals(s)
    BY DEF Allocate, lockVars
  <1>2. mem[s] \in [Hosts -> SomeOf] /\ s \in SomeOf
    BY <1>0 DEF TypeOK, SomeOf
  <1>3. CASE FreeHosts(s) = {}
    <2>1. got' = [got EXCEPT ![s] = Refused] /\ routes' = routes
      BY <1>3 DEF Allocate
    <2>2. got' \in [Sessions -> Hosts \cup {NotAsked, Refused, Released}]
      BY <1>0, <2>1 DEF TypeOK
    <2>3. got'[s] = Refused /\ \A t \in Sessions : t # s => got'[t] = got[t]
      BY <1>0, <2>1 DEF TypeOK
    <2>4. routes' \in [Hosts -> SomeOf] /\ \A x \in Hosts : routes'[x] = routes[x]
      BY <1>0, <2>1 DEF TypeOK
    <2>5. ASSUME Sound, NEW t \in Sessions, Serving(t)' PROVE routes'[got'[t]] = t
      <3>1. t # s
        BY <2>3, <2>5, NotNames DEF Serving
      <3>2. Serving(t)
        BY <1>1, <2>3, <2>5, <3>1 DEF Serving
      <3>. QED BY <2>1, <2>3, <2>5, <3>1, <3>2 DEF Sound, KeptInv
    <2>. QED BY <1>1, <2>2, <2>3, <2>4, <2>5, WriteStep
  <1>4. CASE FreeHosts(s) # {}
    <2>1. got' = [got EXCEPT ![s] = h] /\ routes' = [mem[s] EXCEPT ![h] = s]
      BY <1>4 DEF Allocate
    <2>2. h \in FreeHosts(s)
      <3>1. FreeHosts(s) \in SUBSET Nat
        BY HostsNat DEF FreeHosts
      <3>. QED BY <1>4, <3>1, MinOfNat DEF Candidate
    <2>. HIDE DEF h
    <2>3. h \in Hosts /\ mem[s][h] = NoSession
      BY <2>2 DEF FreeHosts
    <2>4. got' \in [Sessions -> Hosts \cup {NotAsked, Refused, Released}]
      BY <1>0, <2>1, <2>3 DEF TypeOK
    <2>5. got'[s] = h /\ \A t \in Sessions : t # s => got'[t] = got[t]
      BY <1>0, <2>1 DEF TypeOK
    <2>6. routes' \in [Hosts -> SomeOf]
      BY <1>2, <2>1, <2>3
    <2>7. routes'[h] = s /\ \A x \in Hosts : x # h => routes'[x] = mem[s][x]
      BY <1>2, <2>1, <2>3
    <2>8. \A x \in Hosts : routes'[x] \in {NoSession, s, mem[s][x], routes[x]}
      BY <2>7
    <2>9. ASSUME Sound, NEW t \in Sessions, Serving(t)' PROVE routes'[got'[t]] = t
      <3>1. CASE t = s
        BY <2>5, <2>7, <3>1
      <3>2. CASE t # s
        <4>1. Serving(t) /\ got[t] \in Hosts
          BY <1>1, <2>5, <2>9, <3>2 DEF Serving
        <4>2. mem[s][got[t]] = t
          BY <1>1, <2>9, <3>2, <4>1 DEF Sound, KeptInv
        <4>3. got[t] # h
          BY <1>0, <2>3, <4>2
        <4>. QED BY <2>5, <2>7, <3>2, <4>1, <4>2, <4>3
      <3>. QED BY <3>1, <3>2
    <2>. QED BY <1>1, <2>4, <2>5, <2>6, <2>8, <2>9, WriteStep
  <1>. QED BY <1>3, <1>4

\* Release takes out an entry of its own descriptor only.
LEMMA ReleaseStep == ASSUME RegistryInv, NEW s \in Sessions, Release(s) PROVE RegistryInv'
  <1>. DEFINE owner == mem[s][got[s]]
  <1>0. TypeOK /\ PlaceInv(s) /\ KnownInv /\ NoSession \notin Sessions
    BY RegistryAssumption DEF RegistryInv, RegistryAssumption
  <1>1. /\ UNCHANGED <<life, desc, lock, lockOld, mishap>>
        /\ at[s] = "check" /\ at' = [at EXCEPT ![s] = "unlock"] /\ ForgetLocals(s)
        /\ life[s] = "stopping" /\ got' = [got EXCEPT ![s] = Released]
    BY DEF Release, lockVars
  <1>2. mem[s] \in [Hosts -> SomeOf] /\ NoSession \in SomeOf
    BY <1>0 DEF TypeOK, SomeOf
  <1>3. got' \in [Sessions -> Hosts \cup {NotAsked, Refused, Released}]
    BY <1>0, <1>1 DEF TypeOK
  <1>4. got'[s] = Released /\ \A t \in Sessions : t # s => got'[t] = got[t]
    BY <1>0, <1>1 DEF TypeOK
  <1>5. ASSUME NEW t \in Sessions, Serving(t)' PROVE t # s /\ Serving(t) /\ got'[t] = got[t] /\ got[t] \in Hosts
    <2>1. t # s
      BY <1>4, <1>5, NotNames DEF Serving
    <2>. QED BY <1>1, <1>4, <1>5, <2>1 DEF Serving
  <1>6. CASE owner # NoSession /\ SourceOf[owner] = SourceOf[s]
    <2>1. routes' = [mem[s] EXCEPT ![got[s]] = NoSession]
      BY <1>6 DEF Release
    <2>2. routes' \in [Hosts -> SomeOf]
      BY <1>2, <2>1
    <2>3. \A x \in Hosts : routes'[x] = IF x = got[s] THEN NoSession ELSE mem[s][x]
      BY <1>2, <2>1
    <2>4. \A x \in Hosts : routes'[x] \in {NoSession, s, mem[s][x], routes[x]}
      BY <2>3
    <2>5. ASSUME Sound, NEW t \in Sessions, Serving(t)' PROVE routes'[got'[t]] = t
      <3>1. t # s /\ Serving(t) /\ got'[t] = got[t] /\ got[t] \in Hosts
        BY <1>5, <2>5
      <3>2. mem[s][got[t]] = t
        BY <1>1, <2>5, <3>1 DEF Sound, KeptInv
      <3>3. Alive(t) /\ Alive(s)
        BY <1>1, <3>1 DEF Serving, Alive
      <3>4. SourceOf[t] # SourceOf[s]
        BY <2>5, <3>1, <3>3 DEF Sound, SourceInv
      <3>5. got[t] # got[s]
        BY <1>6, <3>2, <3>4
      <3>. QED BY <2>3, <3>1, <3>2, <3>5
    <2>. QED BY <1>1, <1>3, <1>4, <2>2, <2>4, <2>5, WriteStep
  <1>7. CASE ~(owner # NoSession /\ SourceOf[owner] = SourceOf[s])
    <2>1. routes' = routes
      BY <1>7 DEF Release
    <2>2. routes' \in [Hosts -> SomeOf]
      BY <1>0, <2>1 DEF TypeOK
    <2>3. \A x \in Hosts : routes'[x] \in {NoSession, s, mem[s][x], routes[x]}
      BY <2>1
    <2>4. ASSUME Sound, NEW t \in Sessions, Serving(t)' PROVE routes'[got'[t]] = t
      BY <1>5, <2>1, <2>4 DEF Sound, KeptInv
    <2>. QED BY <1>1, <1>3, <1>4, <2>2, <2>3, <2>4, WriteStep
  <1>. QED BY <1>6, <1>7

\* Every step of the registry and of the sessions around it.
LEMMA RegistryNext == ASSUME RegistryInv, [Next]_vars PROVE RegistryInv'
  <1>1. CASE UNCHANGED vars
    BY <1>1 DEF vars, RegistryInv, TypeOK, PlaceInv, KnownInv, Sound, SourceInv, LockInv, KeptInv,
                CompanyInv, Alive, Serving, OldOrGone
  <1>2. CASE LockAges
    BY <1>2, AgeStep
  <1>3. ASSUME NEW s \in Sessions,
               \/ Claim(s) \/ publishDescriptor(s) \/ establishLocalRoute(s)
               \/ BeginStop(s) \/ readOwnDevDescriptor(s) \/ removeOwnDevDescriptor(s)
               \/ StopClientGivesUp(s) \/ Crash(s)
        PROVE  RegistryInv'
    BY <1>3, ClaimStep, PublishStep, AskStep, EndStep, GiveUpStep
  <1>4. ASSUME NEW s \in Sessions, LockStep(s) \/ GivesUp(s) PROVE RegistryInv'
    <2>1. ASSUME OpenLock(s) PROVE RegistryInv'
      BY <2>1, WaitStep, LockStepTaken
    <2>. QED BY <1>4, <2>1, WaitStep, LockStepFreed, LoadStep, CheckStep, AllocateStep, ReleaseStep
             DEF LockStep
  <1>. QED BY <1>1, <1>2, <1>3, <1>4 DEF Next

\* The inductive invariant holds in every behaviour of the registry.
LEMMA RegistryAlways == Spec => []RegistryInv
  BY RegistryInit, RegistryNext, PTL DEF Spec

\* The state keeps the shape of the Go types.
THEOREM TypeAlways == Spec => []TypeOK
  <1>1. RegistryInv => TypeOK
    BY DEF RegistryInv
  <1>. QED BY <1>1, RegistryAlways, PTL

\* As long as no claim raced, no `ahdcode stop` removed the descriptor of a
\* session still ending and no lock of a living process was broken, the name
\* Allocate returned stays its session's in the file until the session ends.
THEOREM RouteKeptAlways == Spec => []RouteKept
  <1>1. RegistryInv => RouteKept
    BY DEF RegistryInv, Sound, KeptInv, RouteKept
  <1>. QED BY <1>1, RegistryAlways, PTL

\* Until a mishap no two running sessions were told the same name: what
\* Allocate's comment promises of racing starts.
THEOREM NamesDifferAlways == Spec => [](~mishap => NamesDiffer)
  <1>1. RegistryInv => (~mishap => NamesDiffer)
    <2>. SUFFICES ASSUME RegistryInv, ~mishap PROVE NamesDiffer
      OBVIOUS
    <2>. QED BY DEF RegistryInv, Sound, KeptInv, NamesDiffer
  <1>. QED BY <1>1, RegistryAlways, PTL

\* A name is granted by Allocate alone: the smallest one free in the copy.
LEMMA GrantedByAllocate ==
    ASSUME RegistryInv, Next, NEW s \in Sessions, got'[s] \in Hosts, got[s] = NotAsked
    PROVE  Allocate(s)
  <1>0. TypeOK
    BY DEF RegistryInv
  <1>1. got'[s] # got[s]
    BY NotNames
  <1>2. ASSUME NEW t \in Sessions,
               \/ Claim(t) \/ publishDescriptor(t) \/ establishLocalRoute(t)
               \/ BeginStop(t) \/ removeOwnDevDescriptor(t) \/ StopClientGivesUp(t)
               \/ OpenLock(t) \/ SeesStaleLock(t) \/ SleepsAndRetries(t)
               \/ BreakLock(t) \/ Unlock(t) \/ loadRoutes(t) \/ CheckRoute(t) \/ LockAges
        PROVE  got' = got
    BY <1>2 DEF Claim, publishDescriptor, establishLocalRoute, BeginStop, removeOwnDevDescriptor,
                StopClientGivesUp, OpenLock, SeesStaleLock, SleepsAndRetries, BreakLock, Unlock,
                loadRoutes, CheckRoute, LockAges
  <1>3. ASSUME NEW t \in Sessions,
               \/ readOwnDevDescriptor(t) \/ Crash(t) \/ GivesUp(t) \/ Release(t)
        PROVE  got' = [got EXCEPT ![t] = Released] \/ got' = [got EXCEPT ![t] = Refused]
    BY <1>3 DEF readOwnDevDescriptor, Crash, GivesUp, Release
  <1>4. ASSUME NEW t \in Sessions,
               got' = [got EXCEPT ![t] = Released] \/ got' = [got EXCEPT ![t] = Refused]
        PROVE  FALSE
    BY <1>0, <1>1, <1>4, NotNames DEF TypeOK
  <1>5. ASSUME NEW t \in Sessions, Allocate(t) PROVE t = s
    <2>1. PICK v : got' = [got EXCEPT ![t] = v]
      BY <1>5 DEF Allocate
    <2>. QED BY <1>0, <1>1, <2>1 DEF TypeOK
  <1>6. ASSUME LockAges PROVE got' = got
    BY <1>6 DEF LockAges
  <1>. QED BY <1>1, <1>2, <1>3, <1>4, <1>5, <1>6 DEF Next, LockStep

\* What Allocate takes is the first name free in its copy, and its copy holds
\* sessions of other sources that were there when it took the lock.
LEMMA SuffixStep ==
    ASSUME RegistryInv, Next, ~mishap, NEW s \in Sessions, got'[s] \in Hosts, got[s] = NotAsked,
           NEW h \in 0..(got'[s] - 1)
    PROVE  mem[s][h] \in company[s] /\ SourceOf[mem[s][h]] # SourceOf[s]
  <1>0. TypeOK /\ Sound
    BY DEF RegistryInv
  <1>1. Allocate(s)
    BY GrantedByAllocate
  <1>2. at[s] = "check" /\ life[s] = "up" /\ todo[s] = {}
    BY <1>1 DEF Allocate
  <1>3. FreeHosts(s) # {} /\ got'[s] = Candidate(s)
    <2>1. CASE FreeHosts(s) = {}
      <3>1. got'[s] = Refused
        BY <1>0, <1>1, <2>1 DEF Allocate, TypeOK
      <3>. QED BY <3>1, NotNames
    <2>2. CASE FreeHosts(s) # {}
      BY <1>0, <1>1, <2>2 DEF Allocate, TypeOK
    <2>. QED BY <2>1, <2>2
  <1>4. h \in Hosts /\ h < got'[s] /\ h \in Nat /\ got'[s] \in Nat
    BY RegistryAssumption DEF Hosts, RegistryAssumption
  <1>5. h \notin FreeHosts(s)
    <2>1. FreeHosts(s) \in SUBSET Nat
      BY HostsNat DEF FreeHosts
    <2>2. \A y \in FreeHosts(s) : got'[s] <= y
      BY <1>3, <2>1, MinOfNat DEF Candidate
    <2>. QED BY <1>4, <2>2
  <1>6. mem[s][h] # NoSession
    BY <1>4, <1>5 DEF FreeHosts
  <1>. QED BY <1>0, <1>2, <1>4, <1>6 DEF Sound, CompanyInv

\* Unless there was a mishap, only sessions of other sources that were running
\* when it took the lock push a session onto a suffix: Allocate's filter has
\* dropped the dead entries and its own.
THEOREM SuffixHasReasonAlways == Spec => SuffixHasReason
  <1>1. RegistryInv /\ [Next]_vars =>
          [~mishap => \A s \in Sessions :
              got'[s] \in Hosts /\ got[s] = NotAsked =>
                 \A h \in 0..(got'[s] - 1) :
                    /\ mem[s][h] \in company[s]
                    /\ SourceOf[mem[s][h]] # SourceOf[s]]_vars
    <2>. SUFFICES ASSUME RegistryInv, Next, ~mishap, NEW s \in Sessions,
                         got'[s] \in Hosts, got[s] = NotAsked, NEW h \in 0..(got'[s] - 1)
                  PROVE  mem[s][h] \in company[s] /\ SourceOf[mem[s][h]] # SourceOf[s]
      OBVIOUS
    <2>. QED BY SuffixStep
  <1>. QED BY <1>1, RegistryAlways, PTL DEF Spec, SuffixHasReason
=============================================================================
