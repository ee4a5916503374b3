----------------------------- MODULE SyncProofs -----------------------------
(***************************************************************************)
(* What the proofs about the Notifier and the Channel share: where the     *)
(* wakeups of the paused fibers are, and what the parts of the methods of  *)
(* the Notifier do to them, for any number of fibers and notifiers.        *)
(***************************************************************************)
EXTENDS Sync, FiniteSetTheorems, SequenceTheorems, WellFoundedInduction, TLAPS

V0 == Values \cup {Null}

SyncTask == [kind : {"start", "resume"}, id : Fibers \cup {Idle}, arg : V0 \cup {Stale}]

NotifierState == [open : BOOLEAN, result : V0, error : V0, pending : Seq(Fibers)]

-----------------------------------------------------------------------------
(* Sequences, index by index                                               *)

\* One more element at the end.
LEMMA AppendAt ==
  ASSUME NEW T, NEW q \in Seq(T), NEW x \in T
  PROVE  /\ Append(q, x) \in Seq(T)
         /\ DOMAIN q = 1 .. Len(q) /\ Len(q) \in Nat
         /\ DOMAIN Append(q, x) = 1 .. Len(q) + 1
         /\ \A i \in 1 .. Len(q) : Append(q, x)[i] = q[i]
         /\ Append(q, x)[Len(q) + 1] = x
OBVIOUS

\* Without the first element.
LEMMA TailAt ==
  ASSUME NEW T, NEW q \in Seq(T), q # <<>>
  PROVE  /\ Tail(q) \in Seq(T)
         /\ DOMAIN q = 1 .. Len(q) /\ Len(q) \in Nat \ {0}
         /\ DOMAIN Tail(q) = 1 .. Len(q) - 1
         /\ \A i \in 1 .. Len(q) - 1 : Tail(q)[i] = q[i + 1]
         /\ Head(q) = q[1] /\ Head(q) \in T
OBVIOUS

\* One after the other.
LEMMA ConcatAt ==
  ASSUME NEW T, NEW q \in Seq(T), NEW s \in Seq(T)
  PROVE  /\ q \o s \in Seq(T)
         /\ DOMAIN q = 1 .. Len(q) /\ Len(q) \in Nat
         /\ DOMAIN s = 1 .. Len(s) /\ Len(s) \in Nat
         /\ DOMAIN (q \o s) = 1 .. Len(q) + Len(s)
         /\ \A i \in 1 .. Len(q) : (q \o s)[i] = q[i]
         /\ \A i \in 1 .. Len(s) : (q \o s)[Len(q) + i] = s[i]
OBVIOUS

-----------------------------------------------------------------------------
(* Tasks                                                                   *)

\* The tasks the scheduler and the methods make.
LEMMA TaskTypes ==
  ASSUME NEW f \in Fibers, NEW v \in V0 \cup {Stale}
  PROVE  /\ StartTask \in SyncTask /\ StartTask.kind = "start" /\ StartTask.arg = Null
         /\ Resume(f, v) \in SyncTask /\ Resume(f, v).kind = "resume"
         /\ Resume(f, v).id = f /\ Resume(f, v).arg = v
BY DEF StartTask, Resume, SyncTask, V0, Idle

\* The tasks that resume a list of fibers.
LEMMA ResumesAt ==
  ASSUME NEW s \in Seq(Fibers), NEW v \in V0 \cup {Stale}
  PROVE  /\ Resumes(s, v) \in Seq(SyncTask)
         /\ Len(Resumes(s, v)) = Len(s) /\ Len(s) \in Nat /\ DOMAIN s = 1 .. Len(s)
         /\ DOMAIN Resumes(s, v) = 1 .. Len(s)
         /\ \A i \in 1 .. Len(s) :
              /\ Resumes(s, v)[i].kind = "resume"
              /\ Resumes(s, v)[i].id = s[i]
              /\ Resumes(s, v)[i].arg = v
<1>1. Len(s) \in Nat /\ DOMAIN s = 1 .. Len(s) /\ \A i \in 1 .. Len(s) : s[i] \in Fibers
  OBVIOUS
<1>2. \A i \in 1 .. Len(s) :
        /\ Resume(s[i], v) \in SyncTask /\ Resume(s[i], v).kind = "resume"
        /\ Resume(s[i], v).id = s[i] /\ Resume(s[i], v).arg = v
  BY <1>1, TaskTypes
<1>3. Resumes(s, v) = [i \in 1 .. Len(s) |-> Resume(s[i], v)]
  BY <1>1 DEF Resumes
<1> QED
  BY <1>1, <1>2, <1>3

-----------------------------------------------------------------------------
(* Where the wakeups are, in a task queue r and lists of waiters p, for    *)
(* the paused fibers ps, each of which is in the wait() that w says.       *)

IsResume(r, i) == r[i].kind = "resume"

\* No fiber is at two places.
OnePlace(r, p) ==
  /\ \A i, j \in DOMAIN r :
       IsResume(r, i) /\ IsResume(r, j) /\ r[i].id = r[j].id => i = j
  /\ \A m, n \in Notifiers : \A i \in DOMAIN p[m], j \in DOMAIN p[n] :
       p[m][i] = p[n][j] => m = n /\ i = j
  /\ \A i \in DOMAIN r : IsResume(r, i) =>
       \A n \in Notifiers : \A j \in DOMAIN p[n] : p[n][j] # r[i].id

\* A fiber f that is to be resumed, or that waits to be notified.
Tasked(r, f)  == \E i \in DOMAIN r : IsResume(r, i) /\ r[i].id = f
Waiting(p, f) == \E n \in Notifiers : \E j \in DOMAIN p[n] : p[n][j] = f

\* The fibers at some place are the paused ones.
Placed(r, p, ps) ==
  /\ \A f \in ps : Tasked(r, f) \/ Waiting(p, f)
  /\ \A i \in DOMAIN r : IsResume(r, i) => r[i].id \in ps
  /\ \A n \in Notifiers : \A j \in DOMAIN p[n] : p[n][j] \in ps

\* A waiting fiber is in the wait() of the notifier whose list it is in.
Located(p, w) == \A n \in Notifiers : \A j \in DOMAIN p[n] : w[p[n][j]] = n

\* No task resumes a fiber with the stale thread exception.
NoStale(r) == \A i \in DOMAIN r : r[i].arg # Stale

Wake(r, p, ps, w) ==
  /\ r \in Seq(SyncTask)
  /\ p \in [Notifiers -> Seq(Fibers)]
  /\ ps \subseteq Fibers
  /\ w \in [Fibers -> Notifiers \cup {Null}]
  /\ OnePlace(r, p) /\ Placed(r, p, ps) /\ Located(p, w) /\ NoStale(r)

\* A callback that starts a fiber is added.
LEMMA WakePush ==
  ASSUME NEW r, NEW p, NEW ps, NEW w, Wake(r, p, ps, w)
  PROVE  Wake(Append(r, StartTask), p, ps, w)
<1> DEFINE q == Append(r, StartTask)
<1>1. StartTask \in SyncTask /\ StartTask.kind = "start" /\ StartTask.arg # Stale
  BY SyncAssumption DEF StartTask, SyncTask, V0, Idle
<1>2. /\ q \in Seq(SyncTask) /\ DOMAIN r = 1 .. Len(r) /\ Len(r) \in Nat
      /\ DOMAIN q = 1 .. Len(r) + 1 /\ \A i \in 1 .. Len(r) : q[i] = r[i]
      /\ q[Len(r) + 1] = StartTask
  BY <1>1, AppendAt DEF Wake
<1> HIDE DEF q
<1>3. \A i \in DOMAIN q : IsResume(q, i) => i \in DOMAIN r /\ q[i] = r[i]
  BY <1>1, <1>2 DEF IsResume
<1>4. \A i \in DOMAIN r : i \in DOMAIN q /\ q[i] = r[i]
  BY <1>2
<1>5. OnePlace(q, p)
  BY <1>3 DEF Wake, OnePlace, IsResume
<1>6. Placed(q, p, ps)
  BY <1>3, <1>4 DEF Wake, Placed, Tasked, IsResume
<1>7. NoStale(q)
  BY <1>1, <1>2 DEF Wake, NoStale
<1>8. Wake(q, p, ps, w)
  BY <1>2, <1>5, <1>6, <1>7 DEF Wake
<1> QED
  BY <1>8 DEF q

\* The callback that starts a fiber is taken.
LEMMA WakeStart ==
  ASSUME NEW r, NEW p, NEW ps, NEW w, Wake(r, p, ps, w), r # <<>>, Head(r).kind = "start"
  PROVE  Wake(Tail(r), p, ps, w)
<1> DEFINE q == Tail(r)
<1>1. /\ q \in Seq(SyncTask) /\ DOMAIN r = 1 .. Len(r) /\ Len(r) \in Nat \ {0}
      /\ DOMAIN q = 1 .. Len(r) - 1 /\ \A i \in 1 .. Len(r) - 1 : q[i] = r[i + 1]
      /\ r[1].kind = "start"
  BY TailAt DEF Wake
<1> HIDE DEF q
<1>2. \A i \in DOMAIN q : i + 1 \in DOMAIN r /\ q[i] = r[i + 1] /\ i \in Nat
  BY <1>1
<1>3. \A i \in DOMAIN r : IsResume(r, i) => i - 1 \in DOMAIN q /\ q[i - 1] = r[i]
  BY <1>1 DEF IsResume
<1>4. OnePlace(q, p)
  <2>1. \A i, j \in DOMAIN q : i + 1 = j + 1 => i = j
    BY <1>2
  <2> QED
    BY <1>2, <2>1 DEF Wake, OnePlace, IsResume
<1>5. Placed(q, p, ps)
  BY <1>2, <1>3 DEF Wake, Placed, Tasked, IsResume
<1>6. NoStale(q)
  BY <1>2 DEF Wake, NoStale
<1>7. Wake(q, p, ps, w)
  BY <1>1, <1>4, <1>5, <1>6 DEF Wake
<1> QED
  BY <1>7 DEF q

\* A paused fiber is resumed.
LEMMA WakeResume ==
  ASSUME NEW r, NEW p, NEW ps, NEW w, Wake(r, p, ps, w), r # <<>>, Head(r).kind = "resume"
  PROVE  /\ Head(r).id \in ps
         /\ ~Waiting(p, Head(r).id)
         /\ Wake(Tail(r), p, ps \ {Head(r).id}, [w EXCEPT ![Head(r).id] = Null])
<1> DEFINE q == Tail(r)  f == Head(r).id  u == [w EXCEPT ![f] = Null]
<1>1. /\ q \in Seq(SyncTask) /\ DOMAIN r = 1 .. Len(r) /\ Len(r) \in Nat \ {0}
      /\ DOMAIN q = 1 .. Len(r) - 1 /\ \A i \in 1 .. Len(r) - 1 : q[i] = r[i + 1]
      /\ r[1].kind = "resume" /\ r[1].id = f
  BY TailAt DEF Wake
<1>2. u \in [Fibers -> Notifiers \cup {Null}] /\ \A g \in Fibers : g # f => u[g] = w[g]
  BY DEF Wake
<1> HIDE DEF q, f, u
<1>3. \A i \in DOMAIN q : i + 1 \in DOMAIN r /\ q[i] = r[i + 1] /\ i + 1 # 1 /\ i \in Nat
  BY <1>1
<1>4. \A i \in DOMAIN r : i # 1 => i - 1 \in DOMAIN q /\ q[i - 1] = r[i]
  BY <1>1
<1>5. 1 \in DOMAIN r /\ IsResume(r, 1)
  BY <1>1 DEF IsResume
<1>6. f \in ps
  BY <1>1, <1>5 DEF Wake, Placed
<1>7. \A i \in DOMAIN q : IsResume(q, i) => q[i].id # f
  BY <1>1, <1>3, <1>5 DEF Wake, OnePlace, IsResume
<1>8. \A n \in Notifiers : \A j \in DOMAIN p[n] : p[n][j] # f
  BY <1>1, <1>5 DEF Wake, OnePlace
<1>9. OnePlace(q, p)
  <2>1. \A i, j \in DOMAIN q : i + 1 = j + 1 => i = j
    BY <1>3
  <2> QED
    BY <1>3, <2>1 DEF Wake, OnePlace, IsResume
<1>10. Placed(q, p, ps \ {f})
  <2>1. \A g \in ps \ {f} : Tasked(q, g) \/ Waiting(p, g)
    BY <1>1, <1>4 DEF Wake, Placed, Tasked, IsResume
  <2> QED
    BY <1>3, <1>7, <1>8, <2>1 DEF Wake, Placed, IsResume
<1>11. Located(p, u)
  <2>1. \A n \in Notifiers : \A j \in DOMAIN p[n] : p[n][j] \in Fibers
    BY DEF Wake
  <2> QED
    BY <1>2, <1>8, <2>1 DEF Wake, Located
<1>12. NoStale(q)
  BY <1>3 DEF Wake, NoStale
<1>13. Wake(q, p, ps \ {f}, u)
  BY <1>1, <1>2, <1>9, <1>10, <1>11, <1>12 DEF Wake
<1> QED
  BY <1>6, <1>8, <1>13 DEF q, f, u, Waiting

\* A fiber that is not paused suspends itself in the wait() of n.
LEMMA WakeSuspend ==
  ASSUME NEW r, NEW p, NEW ps, NEW w, Wake(r, p, ps, w),
         NEW n \in Notifiers, NEW f \in Fibers, f \notin ps
  PROVE  Wake(r, [p EXCEPT ![n] = Append(p[n], f)], ps \cup {f}, [w EXCEPT ![f] = n])
<1> DEFINE s == Append(p[n], f)  o == [p EXCEPT ![n] = s]  u == [w EXCEPT ![f] = n]
           k == Len(p[n]) + 1
<1>1. p[n] \in Seq(Fibers)
  BY DEF Wake
<1>2. /\ s \in Seq(Fibers) /\ DOMAIN p[n] = 1 .. Len(p[n]) /\ Len(p[n]) \in Nat
      /\ DOMAIN s = 1 .. k /\ \A i \in 1 .. Len(p[n]) : s[i] = p[n][i]
      /\ s[k] = f
  BY <1>1, AppendAt
<1>3. /\ k \in DOMAIN s /\ k \notin DOMAIN p[n]
      /\ \A i \in DOMAIN s : i # k => i \in DOMAIN p[n] /\ s[i] = p[n][i]
      /\ \A i \in DOMAIN p[n] : i \in DOMAIN s /\ s[i] = p[n][i]
  BY <1>2
<1>4. /\ u \in [Fibers -> Notifiers \cup {Null}] /\ u[f] = n
      /\ \A g \in Fibers : g # f => u[g] = w[g]
  BY DEF Wake
<1> HIDE DEF s, k
<1>5. /\ o \in [Notifiers -> Seq(Fibers)] /\ o[n] = s
      /\ \A m \in Notifiers : m # n => o[m] = p[m]
  BY <1>2 DEF Wake
<1> HIDE DEF o, u
<1>6. \A m \in Notifiers : \A j \in DOMAIN p[m] : p[m][j] # f /\ p[m][j] \in Fibers
  BY DEF Wake, Placed
<1>7. \A i \in DOMAIN r : IsResume(r, i) => r[i].id # f
  BY DEF Wake, Placed
<1>8. \A m \in Notifiers : \A j \in DOMAIN o[m] :
        \/ m = n /\ j = k /\ o[m][j] = f
        \/ j \in DOMAIN p[m] /\ o[m][j] = p[m][j]
  BY <1>2, <1>3, <1>5
<1>9. \A m \in Notifiers : \A j \in DOMAIN p[m] : j \in DOMAIN o[m] /\ o[m][j] = p[m][j]
  BY <1>3, <1>5
<1>10. OnePlace(r, o)
  <2>1. ASSUME NEW m \in Notifiers, NEW l \in Notifiers,
               NEW i \in DOMAIN o[m], NEW j \in DOMAIN o[l], o[m][i] = o[l][j]
        PROVE  m = l /\ i = j
    BY <1>6, <1>8, <2>1 DEF Wake, OnePlace
  <2>2. \A i \in DOMAIN r : IsResume(r, i) =>
          \A m \in Notifiers : \A j \in DOMAIN o[m] : o[m][j] # r[i].id
    BY <1>7, <1>8 DEF Wake, OnePlace
  <2> QED
    BY <2>1, <2>2 DEF Wake, OnePlace
<1>11. Placed(r, o, ps \cup {f})
  <2>1. Waiting(o, f)
    BY <1>2, <1>3, <1>5 DEF Waiting
  <2>2. \A g \in ps : Tasked(r, g) \/ Waiting(o, g)
    BY <1>9 DEF Wake, Placed, Waiting
  <2> QED
    BY <1>8, <2>1, <2>2 DEF Wake, Placed
<1>12. Located(o, u)
  BY <1>4, <1>6, <1>8 DEF Wake, Located
<1>13. ps \cup {f} \subseteq Fibers
  BY DEF Wake
<1>14. Wake(r, o, ps \cup {f}, u)
  BY <1>4, <1>5, <1>10, <1>11, <1>12, <1>13 DEF Wake
<1> QED
  BY <1>14 DEF o, u, s

\* notify_one() moves the first waiter of n to the end of the task queue.
LEMMA WakeNotify ==
  ASSUME NEW r, NEW p, NEW ps, NEW w, Wake(r, p, ps, w),
         NEW n \in Notifiers, p[n] # <<>>, NEW v \in V0
  PROVE  Wake(Append(r, Resume(Head(p[n]), v)), [p EXCEPT ![n] = Tail(p[n])], ps, w)
<1> DEFINE f == Head(p[n])  t == Resume(f, v)  q == Append(r, t)
           s == Tail(p[n])  o == [p EXCEPT ![n] = s]  k == Len(r) + 1
<1>1. p[n] \in Seq(Fibers)
  BY DEF Wake
<1>2. /\ s \in Seq(Fibers) /\ DOMAIN p[n] = 1 .. Len(p[n]) /\ Len(p[n]) \in Nat \ {0}
      /\ DOMAIN s = 1 .. Len(p[n]) - 1 /\ \A i \in 1 .. Len(p[n]) - 1 : s[i] = p[n][i + 1]
      /\ f = p[n][1] /\ f \in Fibers
  BY <1>1, TailAt
<1> HIDE DEF f
<1>3. t \in SyncTask /\ t.kind = "resume" /\ t.id = f /\ t.arg # Stale
  BY <1>2, TaskTypes, SyncAssumption DEF V0
<1> HIDE DEF t
<1>4. /\ q \in Seq(SyncTask) /\ DOMAIN r = 1 .. Len(r) /\ Len(r) \in Nat
      /\ DOMAIN q = 1 .. k /\ \A i \in 1 .. Len(r) : q[i] = r[i]
      /\ q[k] = t
  BY <1>3, AppendAt DEF Wake
<1> HIDE DEF q, s
<1>5. /\ o \in [Notifiers -> Seq(Fibers)] /\ o[n] = s
      /\ \A m \in Notifiers : m # n => o[m] = p[m]
  BY <1>2 DEF Wake
<1> HIDE DEF o
<1>6. /\ k \in DOMAIN q /\ k \notin DOMAIN r
      /\ \A i \in DOMAIN q : i # k => i \in DOMAIN r /\ q[i] = r[i]
      /\ \A i \in DOMAIN r : i \in DOMAIN q /\ q[i] = r[i]
  BY <1>4
<1> HIDE DEF k
<1>7. 1 \in DOMAIN p[n] /\ \A j \in DOMAIN s : j + 1 \in DOMAIN p[n] /\ s[j] = p[n][j + 1]
                           /\ j + 1 # 1 /\ j \in Nat
  BY <1>2
<1>8. \A j \in DOMAIN p[n] : j # 1 => j - 1 \in DOMAIN s /\ s[j - 1] = p[n][j]
  BY <1>2
<1>9. \A m \in Notifiers : \A j \in DOMAIN o[m] :
        /\ o[m][j] # f
        /\ \/ m = n /\ j + 1 \in DOMAIN p[m] /\ o[m][j] = p[m][j + 1] /\ j \in Nat
           \/ m # n /\ j \in DOMAIN p[m] /\ o[m][j] = p[m][j]
  BY <1>2, <1>5, <1>7 DEF Wake, OnePlace
<1>10. \A i \in DOMAIN r : IsResume(r, i) => r[i].id # f
  BY <1>2, <1>7 DEF Wake, OnePlace
<1>11. OnePlace(q, o)
  <2>1. ASSUME NEW i \in DOMAIN q, NEW j \in DOMAIN q,
               IsResume(q, i), IsResume(q, j), q[i].id = q[j].id
        PROVE  i = j
    BY <1>3, <1>4, <1>6, <1>10, <2>1 DEF Wake, OnePlace, IsResume
  <2>2. ASSUME NEW m \in Notifiers, NEW l \in Notifiers,
               NEW i \in DOMAIN o[m], NEW j \in DOMAIN o[l], o[m][i] = o[l][j]
        PROVE  m = l /\ i = j
    <3>0. OnePlace(r, p)
      BY DEF Wake
    <3>1. PICK a \in DOMAIN p[m] : p[m][a] = o[m][i] /\ a = IF m = n THEN i + 1 ELSE i
      BY <1>9
    <3>2. PICK b \in DOMAIN p[l] : p[l][b] = o[l][j] /\ b = IF l = n THEN j + 1 ELSE j
      BY <1>9
    <3>3. m = l /\ a = b
      BY <2>2, <3>0, <3>1, <3>2 DEF OnePlace
    <3>4. m = n => i \in Nat /\ j \in Nat
      BY <1>9, <3>3
    <3> QED
      BY <3>1, <3>2, <3>3, <3>4
  <2>3. ASSUME NEW i \in DOMAIN q, IsResume(q, i), NEW m \in Notifiers, NEW j \in DOMAIN o[m]
        PROVE  o[m][j] # q[i].id
    BY <1>3, <1>4, <1>6, <1>9, <2>3 DEF Wake, OnePlace, IsResume
  <2> QED
    BY <2>1, <2>2, <2>3 DEF OnePlace
<1>12. Placed(q, o, ps)
  <2>1. f \in ps /\ Tasked(q, f)
    BY <1>2, <1>3, <1>4, <1>6, <1>7 DEF Wake, Placed, Tasked, IsResume
  <2>2. ASSUME NEW g \in ps, g # f PROVE Tasked(q, g) \/ Waiting(o, g)
    <3>1. CASE Tasked(r, g)
      BY <1>6, <3>1 DEF Tasked, IsResume
    <3>2. CASE Waiting(p, g)
      <4>0. PICK m \in Notifiers : \E j \in DOMAIN p[m] : p[m][j] = g
        BY <3>2 DEF Waiting
      <4>1. PICK j \in DOMAIN p[m] : p[m][j] = g
        BY <4>0
      <4>2. CASE m = n
        <5>1. j # 1
          BY <1>2, <2>2, <4>1, <4>2
        <5>2. j - 1 \in DOMAIN o[n] /\ o[n][j - 1] = g
          BY <1>5, <1>8, <4>1, <4>2, <5>1
        <5> QED
          BY <5>2 DEF Waiting
      <4>3. CASE m # n
        <5>1. j \in DOMAIN o[m] /\ o[m][j] = g
          BY <1>5, <4>1, <4>3
        <5> QED
          BY <5>1 DEF Waiting
      <4> QED
        BY <4>2, <4>3
    <3> QED
      BY <3>1, <3>2 DEF Wake, Placed
  <2>3. Placed(r, p, ps)
    BY DEF Wake
  <2>4. \A i \in DOMAIN q : IsResume(q, i) => q[i].id \in ps
    BY <1>3, <1>4, <1>6, <2>1, <2>3 DEF Placed, IsResume
  <2>5. \A m \in Notifiers : \A j \in DOMAIN o[m] : o[m][j] \in ps
    <3> TAKE m \in Notifiers
    <3> TAKE j \in DOMAIN o[m]
    <3>1. PICK a \in DOMAIN p[m] : p[m][a] = o[m][j]
      BY <1>9
    <3> QED
      BY <2>3, <3>1 DEF Placed
  <2> QED
    BY <2>1, <2>2, <2>4, <2>5 DEF Placed
<1>13. Located(o, w)
  <2> SUFFICES ASSUME NEW m \in Notifiers, NEW j \in DOMAIN o[m] PROVE w[o[m][j]] = m
    BY DEF Located
  <2>1. PICK a \in DOMAIN p[m] : p[m][a] = o[m][j]
    BY <1>9
  <2>2. Located(p, w)
    BY DEF Wake
  <2> QED
    BY <2>1, <2>2 DEF Located
<1>14. NoStale(q)
  BY <1>3, <1>4, <1>6 DEF Wake, NoStale
<1>15. Wake(q, o, ps, w)
  BY <1>4, <1>5, <1>11, <1>12, <1>13, <1>14 DEF Wake
<1> QED
  BY <1>15 DEF q, o, s, t, f

\* close() moves every waiter of n to the end of the task queue.
LEMMA WakeRelease ==
  ASSUME NEW r, NEW p, NEW ps, NEW w, Wake(r, p, ps, w), NEW n \in Notifiers, NEW v \in V0
  PROVE  Wake(r \o Resumes(p[n], v), [p EXCEPT ![n] = <<>>], ps, w)
<1> DEFINE t == Resumes(p[n], v)  q == r \o t  o == [p EXCEPT ![n] = <<>>]
           L == Len(r)  M == Len(p[n])
<1>1. /\ t \in Seq(SyncTask) /\ Len(t) = M /\ DOMAIN p[n] = 1 .. M /\ M \in Nat
      /\ \A i \in 1 .. M : t[i].kind = "resume" /\ t[i].id = p[n][i] /\ t[i].arg = v
  <2>1. p[n] \in Seq(Fibers)
    BY DEF Wake
  <2> QED
    BY <2>1, ResumesAt
<1> HIDE DEF t
<1>2. /\ q \in Seq(SyncTask) /\ DOMAIN r = 1 .. L /\ L \in Nat
      /\ DOMAIN q = 1 .. L + M /\ \A i \in 1 .. L : q[i] = r[i]
      /\ \A i \in 1 .. M : q[L + i] = t[i]
  <2>1. r \in Seq(SyncTask) /\ t \in Seq(SyncTask)
    BY <1>1 DEF Wake
  <2>2. /\ q \in Seq(SyncTask) /\ DOMAIN r = 1 .. L /\ L \in Nat
        /\ DOMAIN q = 1 .. L + Len(t) /\ \A i \in 1 .. L : q[i] = r[i]
        /\ \A i \in 1 .. Len(t) : q[L + i] = t[i]
    BY <2>1, ConcatAt
  <2> HIDE DEF q, L, M
  <2> QED
    BY <1>1, <2>2
<1>3. /\ o \in [Notifiers -> Seq(Fibers)] /\ o[n] = <<>>
      /\ \A m \in Notifiers : m # n => o[m] = p[m]
  BY DEF Wake
<1> HIDE DEF q, o, L, M
<1>4. \A i \in DOMAIN q :
        \/ i \in DOMAIN r /\ q[i] = r[i]
        \/ /\ i \notin DOMAIN r /\ i - L \in DOMAIN p[n] /\ q[i].kind = "resume"
           /\ q[i].id = p[n][i - L] /\ q[i].arg = v /\ i \in Int /\ L \in Int
  <2> TAKE i \in DOMAIN q
  <2>1. CASE i <= L
    BY <1>2, <2>1
  <2>2. CASE i > L
    <3>1. i - L \in 1 .. M /\ L + (i - L) = i
      BY <1>1, <1>2, <2>2
    <3> QED
      BY <1>1, <1>2, <2>2, <3>1
  <2> QED
    BY <1>2, <2>1, <2>2
<1>5. \A i \in DOMAIN r : i \in DOMAIN q /\ q[i] = r[i]
  BY <1>1, <1>2
<1>6. \A j \in DOMAIN p[n] : L + j \in DOMAIN q /\ q[L + j].kind = "resume"
                             /\ q[L + j].id = p[n][j]
  BY <1>1, <1>2
<1>7. \A m \in Notifiers : \A j \in DOMAIN o[m] : m # n /\ j \in DOMAIN p[m] /\ o[m][j] = p[m][j]
  BY <1>3
<1>8. OnePlace(q, o)
  <2>1. ASSUME NEW i \in DOMAIN q, NEW j \in DOMAIN q,
               IsResume(q, i), IsResume(q, j), q[i].id = q[j].id
        PROVE  i = j
    <3>1. CASE i \in DOMAIN r /\ j \in DOMAIN r
      BY <1>4, <2>1, <3>1 DEF Wake, OnePlace, IsResume
    <3>2. CASE i \notin DOMAIN r /\ j \notin DOMAIN r
      <4>1. i - L = j - L
        BY <1>4, <2>1, <3>2 DEF Wake, OnePlace
      <4> QED
        BY <1>4, <3>2, <4>1
    <3>3. CASE (i \in DOMAIN r) # (j \in DOMAIN r)
      BY <1>4, <2>1, <3>3 DEF Wake, OnePlace, IsResume
    <3> QED
      BY <3>1, <3>2, <3>3
  <2>2. ASSUME NEW i \in DOMAIN q, IsResume(q, i), NEW m \in Notifiers, NEW j \in DOMAIN o[m]
        PROVE  o[m][j] # q[i].id
    BY <1>4, <1>7, <2>2 DEF Wake, OnePlace, IsResume
  <2> QED
    BY <1>7, <2>1, <2>2 DEF Wake, OnePlace
<1>9. Placed(q, o, ps)
  <2>1. ASSUME NEW g \in ps PROVE Tasked(q, g) \/ Waiting(o, g)
    <3>1. CASE Tasked(r, g)
      BY <1>5, <3>1 DEF Tasked, IsResume
    <3>2. CASE Waiting(p, g)
      BY <1>3, <1>6, <3>2 DEF Waiting, Tasked, IsResume
    <3> QED
      BY <3>1, <3>2 DEF Wake, Placed
  <2> QED
    BY <1>4, <1>7, <2>1 DEF Wake, Placed, IsResume
<1>10. Located(o, w)
  BY <1>7 DEF Wake, Located
<1>11. NoStale(q)
  BY <1>4, SyncAssumption DEF Wake, NoStale, V0
<1>12. Wake(q, o, ps, w)
  BY <1>2, <1>3, <1>8, <1>9, <1>10, <1>11 DEF Wake
<1> QED
  BY <1>12 DEF q, o, t

-----------------------------------------------------------------------------
(* Counting                                                                *)

\* The lists of waiters.
Lists(N) == [n \in Notifiers |-> N[n].pending]

\* What a wakeup of f is.
LEMMA WakeupsAre ==
  ASSUME NEW f, NEW x
  PROVE  x \in Wakeups(f) <=>
           \/ \E i \in DOMAIN ready : IsResume(ready, i) /\ ready[i].id = f /\ x = <<"task", i>>
           \/ \E n \in Notifiers : \E j \in DOMAIN nt[n].pending :
                nt[n].pending[j] = f /\ x = <<n, j>>
BY DEF Wakeups, IsResume

\* Wakeups at one place each are wakeups counted once.
LEMMA WakeCount ==
  ASSUME Wake(ready, Lists(nt), paused, where), NEW f \in Fibers
  PROVE  Cardinality(Wakeups(f)) = IF f \in paused THEN 1 ELSE 0
<1> DEFINE p == Lists(nt)
<1>1. \A n \in Notifiers : nt[n].pending = p[n]
  BY DEF Lists
<1>2. OnePlace(ready, p) /\ Placed(ready, p, paused)
  BY DEF Wake
<1>3. \A x : x \in Wakeups(f) <=>
           \/ \E i \in DOMAIN ready : IsResume(ready, i) /\ ready[i].id = f /\ x = <<"task", i>>
           \/ \E n \in Notifiers : \E j \in DOMAIN p[n] : p[n][j] = f /\ x = <<n, j>>
  BY <1>1, WakeupsAre
<1> HIDE DEF p
<1>4. CASE f \notin paused
  <2>1. \A x : x \notin Wakeups(f)
    BY <1>2, <1>3, <1>4 DEF Placed
  <2>2. Wakeups(f) = {}
    BY <2>1
  <2> QED
    BY <1>4, <2>2, FS_EmptySet
<1>5. CASE f \in paused
  <2>1. \E x : Wakeups(f) = {x}
    <3>1. CASE Tasked(ready, f)
      <4>1. PICK i \in DOMAIN ready : IsResume(ready, i) /\ ready[i].id = f
        BY <3>1 DEF Tasked
      <4>2. <<"task", i>> \in Wakeups(f)
        BY <1>3, <4>1
      <4>3. \A x \in Wakeups(f) : x = <<"task", i>>
        BY <1>2, <1>3, <4>1 DEF OnePlace
      <4> QED
        BY <4>2, <4>3
    <3>2. CASE Waiting(p, f)
      <4>1. PICK n \in Notifiers : \E j \in DOMAIN p[n] : p[n][j] = f
        BY <3>2 DEF Waiting
      <4>2. PICK j \in DOMAIN p[n] : p[n][j] = f
        BY <4>1
      <4>3. <<n, j>> \in Wakeups(f)
        BY <1>3, <4>2
      <4>4. \A x \in Wakeups(f) : x = <<n, j>>
        BY <1>2, <1>3, <4>2 DEF OnePlace
      <4> QED
        BY <4>3, <4>4
    <3> QED
      BY <1>2, <1>5, <3>1, <3>2 DEF Placed
  <2> QED
    BY <1>5, <2>1, FS_Singleton
<1> QED
  BY <1>4, <1>5

-----------------------------------------------------------------------------
(* The order in which the exit check resumes fibers: that there is one.    *)

\* A set of naturals has a least element.
LEMMA LeastNat ==
  ASSUME NEW T, T \subseteq Nat, T # {}
  PROVE  \E x \in T : \A y \in T : x <= y
<1> DEFINE R == {ss \in Nat \X Nat : ss[1] < ss[2]}
<1>1. IsWellFoundedOn(R, Nat)
  BY NatLessThanWellFounded DEF OpToRel
<1>2. \A x, y \in Nat : x < y => <<x, y>> \in R
  OBVIOUS
<1> HIDE DEF R
<1>3. PICK x \in T : \A y \in T : ~(<<y, x>> \in R)
  BY <1>1, WFMin
<1>4. ASSUME NEW y \in T PROVE x <= y
  <2>1. x \in Nat /\ y \in Nat
    OBVIOUS
  <2>2. ~(y < x)
    BY <1>2, <1>3, <2>1
  <2> QED
    BY <2>1, <2>2
<1> QED
  BY <1>4

\* A set of fibers has a last one.
LEMMA LastFiber ==
  ASSUME NEW fs \in SUBSET Fibers, fs # {}
  PROVE  \E m \in fs : \A x \in fs : x <= m
<1> DEFINE T == {MaxFibers - x : x \in fs}
<1>0. MaxFibers \in Nat /\ \A x \in fs : x \in Nat /\ x < MaxFibers
  BY SyncAssumption DEF Fibers
<1>1. T \subseteq Nat /\ T # {}
  BY <1>0
<1>2. PICK y \in T : \A z \in T : y <= z
  <2> HIDE DEF T
  <2> QED
    BY <1>1, LeastNat
<1>3. PICK m \in fs : y = MaxFibers - m
  OBVIOUS
<1>4. \A x \in fs : MaxFibers - m <= MaxFibers - x
  BY <1>2, <1>3
<1> QED
  BY <1>0, <1>4

Ordered(s) == \A i, j \in DOMAIN s : i < j => s[i] < s[j]

\* By induction on its size, every set of fibers can be put in order.
LEMMA OrderExists ==
  ASSUME NEW gs \in SUBSET Fibers
  PROVE  /\ Cardinality(gs) \in Nat
         /\ \E s \in [1 .. Cardinality(gs) -> gs] : Ordered(s)
<1>0. \A fs \in SUBSET Fibers : IsFiniteSet(fs) /\ Cardinality(fs) \in Nat
  <2>1. IsFiniteSet(Fibers)
    BY SyncAssumption, FS_Interval DEF Fibers
  <2> QED
    BY <2>1, FS_Subset, FS_CardinalityType
<1> DEFINE Bad(fs) == ~\E s \in [1 .. Cardinality(fs) -> fs] : Ordered(s)
           T == {k \in Nat : \E fs \in SUBSET Fibers : Cardinality(fs) = k /\ Bad(fs)}
<1>1. SUFFICES ASSUME T # {} PROVE FALSE
  BY <1>0
<1>2. PICK k \in T : \A y \in T : k <= y
  <2>1. T \subseteq Nat
    OBVIOUS
  <2> HIDE DEF T
  <2> QED
    BY <1>1, <2>1, LeastNat
<1>3. PICK fs \in SUBSET Fibers : Cardinality(fs) = k /\ Bad(fs)
  BY <1>2
<1>4. k \in Nat
  BY <1>2
<1>5. CASE k = 0
  <2>1. [i \in 1 .. 0 |-> 0] \in [1 .. 0 -> fs]
    OBVIOUS
  <2>2. Ordered([i \in 1 .. 0 |-> 0])
    BY DEF Ordered
  <2> QED
    BY <1>3, <1>5, <2>1, <2>2
<1>6. CASE k # 0
  <2>1. fs # {}
    BY <1>3, <1>6, FS_EmptySet
  <2>2. PICK m \in fs : \A x \in fs : x <= m
    BY <2>1, LastFiber
  <2> DEFINE hs == fs \ {m}
  <2>3. hs \in SUBSET Fibers /\ Cardinality(hs) = k - 1
    BY <1>0, <1>3, FS_RemoveElement
  <2>4. k - 1 \notin T
    BY <1>2, <1>4
  <2>5. ~Bad(hs)
    <3>1. k - 1 \in Nat
      BY <1>4, <1>6
    <3> HIDE DEF Bad, hs
    <3> QED
      BY <2>3, <2>4, <3>1
  <2>6. PICK s \in [1 .. k - 1 -> hs] : Ordered(s)
    BY <2>3, <2>5
  <2> DEFINE t == [i \in 1 .. k |-> IF i = k THEN m ELSE s[i]]
  <2>7. \A i \in 1 .. k - 1 : s[i] \in fs /\ s[i] \in Int /\ s[i] < m /\ m \in Int
    <3> TAKE i \in 1 .. k - 1
    <3>1. s[i] \in hs
      BY <2>6
    <3>3. \A x \in fs : x \in Int
      BY DEF Fibers
    <3>2. s[i] \in fs /\ s[i] # m /\ s[i] \in Int /\ m \in Int /\ s[i] <= m
      BY <2>2, <3>1, <3>3
    <3> QED
      BY <3>2
  <2>8. t \in [1 .. k -> fs]
    BY <1>4, <1>6, <2>2, <2>7
  <2>9. Ordered(t)
    <3> SUFFICES ASSUME NEW i \in 1 .. k, NEW j \in 1 .. k, i < j PROVE t[i] < t[j]
      BY <2>8 DEF Ordered
    <3>1. i \in 1 .. k - 1 /\ t[i] = s[i]
      BY <1>4
    <3>2. CASE j = k
      BY <2>7, <3>1, <3>2
    <3>3. CASE j # k
      <4>1. j \in 1 .. k - 1 /\ t[j] = s[j] /\ DOMAIN s = 1 .. k - 1
        BY <1>4, <2>6, <3>3
      <4> QED
        BY <2>6, <3>1, <4>1 DEF Ordered
    <3> QED
      BY <3>2, <3>3
  <2> QED
    BY <1>3, <2>8, <2>9
<1> QED
  BY <1>5, <1>6

\* The exit check resumes each of the fibers fs, in the order of their ids.
LEMMA InOrderIs ==
  ASSUME NEW fs \in SUBSET Fibers
  PROVE  InOrder(fs) \in Seq(Fibers) /\ Ordered(InOrder(fs))
<1>1. /\ Cardinality(fs) \in Nat
      /\ \E s \in [1 .. Cardinality(fs) -> fs] : Ordered(s)
  BY OrderExists
<1>2. InOrder(fs) \in [1 .. Cardinality(fs) -> fs] /\ Ordered(InOrder(fs))
  BY <1>1 DEF InOrder, Ordered
<1> QED
  BY <1>1, <1>2

-----------------------------------------------------------------------------
(* The invariant of the scheduler and the notifiers.  WakeupsExact counts; *)
(* inductive is where each wakeup is, and only with the list a fiber waits *)
(* in, the ids of the fibers that may be paused, and where Stale can be.   *)

\* SyncTypeOK with the names used here.
SyncTypes ==
  /\ ready \in Seq(SyncTask)
  /\ spawned \in 0 .. MaxFibers
  /\ started \in 0 .. MaxFibers
  /\ current \in Fibers \cup {Idle}
  /\ paused \subseteq Fibers
  /\ panic \in BOOLEAN /\ halted \in BOOLEAN /\ stalled \in BOOLEAN
  /\ nt \in [Notifiers -> NotifierState]
  /\ where \in [Fibers -> Notifiers \cup {Null}]
  /\ waits \in [Fibers -> 0 .. MaxWaits]

\* The running fiber is not paused, both were started before, and the paused
\* fibers are those inside some wait().
FibersApart ==
  /\ current \notin paused
  /\ current < started
  /\ \A f \in paused : f < started
  /\ \A f \in Fibers : where[f] # Null <=> f \in paused

SyncInv ==
  /\ SyncTypes
  /\ FibersApart
  /\ ~stalled => Wake(ready, Lists(nt), paused, where)

\* The two ways to write the types agree.
LEMMA SameTypes == SyncTypes <=> SyncTypeOK
<1>1. SyncTask = [kind : {"start", "resume"}, id : Fibers \cup {Idle},
                  arg : Values \cup {Null, Stale}]
  <2>1. V0 \cup {Stale} = Values \cup {Null, Stale}
    BY DEF V0
  <2> QED
    BY <2>1 DEF SyncTask
<1>2. NotifierState = [open : BOOLEAN, result : Values \cup {Null},
                       error : Values \cup {Null}, pending : Seq(Fibers)]
  BY DEF NotifierState, V0
<1> QED
  BY <1>1, <1>2, Zenon DEF SyncTypes, SyncTypeOK

\* What the invariant says in the terms of the properties.
LEMMA SyncInvMeans == SyncInv => SyncTypeOK /\ WakeupsExact
<1> SUFFICES ASSUME SyncInv PROVE SyncTypeOK /\ WakeupsExact
  OBVIOUS
<1>1. SyncTypeOK
  BY SameTypes DEF SyncInv
<1>2. WakeupsExact
  BY WakeCount DEF SyncInv, WakeupsExact
<1> QED
  BY <1>1, <1>2

\* Initially only the task of the first fiber is there.
LEMMA InitSync == SyncInit => SyncInv
<1> SUFFICES ASSUME SyncInit PROVE SyncInv
  OBVIOUS
<1>1. MaxFibers \in Nat /\ MaxWaits \in Nat /\ \A f \in Fibers : f \in Nat
  BY SyncAssumption DEF Fibers
<1>2. StartTask \in SyncTask /\ StartTask.kind = "start" /\ StartTask.arg # Stale
  BY SyncAssumption DEF StartTask, SyncTask, V0, Idle
<1>3. NewNotifier \in NotifierState /\ NewNotifier.pending = <<>>
  BY DEF NewNotifier, NotifierState, V0
<1>4. /\ ready \in Seq(SyncTask) /\ \A i \in DOMAIN ready : ready[i] = StartTask
      /\ nt \in [Notifiers -> NotifierState]
      /\ \A n \in Notifiers : nt[n].pending = <<>>
  BY <1>2, <1>3 DEF SyncInit
<1>5. panic \in BOOLEAN /\ halted \in BOOLEAN /\ stalled \in BOOLEAN
  BY Zenon DEF SyncInit
<1>6. where \in [Fibers -> Notifiers \cup {Null}] /\ waits \in [Fibers -> 0 .. MaxWaits]
  BY <1>1 DEF SyncInit
<1>7. SyncTypes
  BY <1>1, <1>4, <1>5, <1>6 DEF SyncInit, SyncTypes
<1>8. FibersApart
  BY DEF SyncInit, FibersApart, Idle
<1>9. /\ Lists(nt) \in [Notifiers -> Seq(Fibers)]
      /\ \A n \in Notifiers : Lists(nt)[n] = <<>>
  <2>1. Lists(nt) = [n \in Notifiers |-> <<>>]
    BY <1>4 DEF Lists
  <2>2. <<>> \in Seq(Fibers)
    OBVIOUS
  <2> QED
    BY <2>1, <2>2
<1>10. Wake(ready, Lists(nt), paused, where)
  <2>1. OnePlace(ready, Lists(nt))
    BY <1>2, <1>4, <1>9 DEF OnePlace, IsResume
  <2>2. Placed(ready, Lists(nt), paused)
    BY <1>2, <1>4, <1>9 DEF SyncInit, Placed, IsResume
  <2>3. Located(Lists(nt), where)
    BY <1>9 DEF Located
  <2>4. NoStale(ready)
    BY <1>2, <1>4 DEF NoStale
  <2> QED
    BY <1>4, <1>6, <1>9, <2>1, <2>2, <2>3, <2>4 DEF Wake, SyncInit
<1> QED
  BY <1>7, <1>8, <1>10 DEF SyncInv

\* The lists of waiters have their type.
LEMMA ListsType ==
  ASSUME NEW N \in [Notifiers -> NotifierState]
  PROVE  /\ Lists(N) \in [Notifiers -> Seq(Fibers)]
         /\ \A n \in Notifiers : Lists(N)[n] = N[n].pending /\ N[n] \in NotifierState
BY DEF Lists, NotifierState

\* Changing one notifier changes one list.
LEMMA ListsUpdate ==
  ASSUME NEW N \in [Notifiers -> NotifierState], NEW n \in Notifiers, NEW M \in NotifierState
  PROVE  /\ [N EXCEPT ![n] = M] \in [Notifiers -> NotifierState]
         /\ Lists([N EXCEPT ![n] = M]) = [Lists(N) EXCEPT ![n] = M.pending]
<1>1. [N EXCEPT ![n] = M] \in [Notifiers -> NotifierState]
  OBVIOUS
<1>2. \A m \in Notifiers : [N EXCEPT ![n] = M][m] = IF m = n THEN M ELSE N[m]
  OBVIOUS
<1>3. Lists([N EXCEPT ![n] = M]) = [m \in Notifiers |-> IF m = n THEN M.pending ELSE N[m].pending]
  BY <1>2 DEF Lists
<1>4. [Lists(N) EXCEPT ![n] = M.pending]
        = [m \in Notifiers |-> IF m = n THEN M.pending ELSE N[m].pending]
  BY DEF Lists
<1> QED
  BY <1>1, <1>3, <1>4

\* Every step of the scheduler keeps the invariant.
LEMMA SchedulerSync ==
  ASSUME SyncInv, Spawn \/ Fire \/ Start \/ Return \/ Exit \/ ExitCheck \/ InvalidThread
  PROVE  SyncInv'
<1>0. MaxFibers \in Nat /\ (\A f \in Fibers : f \in Nat /\ f < MaxFibers) /\ Idle = -1
  BY SyncAssumption DEF Fibers, Idle
<1>a. SyncTypes /\ FibersApart /\ (~stalled => Wake(ready, Lists(nt), paused, where))
  BY DEF SyncInv
<1>b. StartTask \in SyncTask
  BY DEF StartTask, SyncTask, V0, Idle
<1>1. CASE Spawn
  <2>1. StartTasks \in Nat
    <3>1. Len(ready) \in Nat /\ DOMAIN ready = 1 .. Len(ready)
      BY <1>a DEF SyncTypes
    <3>2. IsFiniteSet(DOMAIN ready)
      BY <3>1, FS_Interval
    <3>3. IsFiniteSet({i \in DOMAIN ready : ready[i].kind = "start"})
      BY <3>2, FS_Subset
    <3> QED
      BY <3>3, FS_CardinalityType DEF StartTasks
  <2>2. spawned' \in 0 .. MaxFibers
    BY <1>0, <1>1, <1>a, <2>1 DEF Spawn, SyncTypes
  <2>3. UNCHANGED <<ready, started, current, paused, panic, halted, stalled, nt, where, waits>>
    BY <1>1 DEF Spawn
  <2>4. SyncTypes'
    BY <1>a, <2>2, <2>3 DEF SyncTypes
  <2> QED
    BY <1>a, <2>3, <2>4 DEF SyncInv, FibersApart
<1>2. CASE Fire
  <2>1. /\ spawned' \in 0 .. MaxFibers /\ ready' = Append(ready, StartTask)
        /\ UNCHANGED <<started, current, paused, panic, halted, stalled, nt, where, waits>>
    BY <1>0, <1>2, <1>a DEF Fire, SyncTypes
  <2>2. ready' \in Seq(SyncTask)
    BY <1>a, <1>b, <2>1 DEF SyncTypes
  <2>3. SyncTypes'
    BY <1>a, <2>1, <2>2 DEF SyncTypes
  <2>4. ~stalled' => Wake(ready', Lists(nt'), paused', where')
    BY <1>a, <2>1, WakePush
  <2> QED
    BY <1>a, <2>1, <2>3, <2>4 DEF SyncInv, FibersApart
<1>3. CASE Start
  <2>1. /\ ready # <<>> /\ Head(ready).kind = "start" /\ ready' = Tail(ready)
        /\ started \in Fibers /\ current' = started /\ started' = started + 1
        /\ UNCHANGED <<spawned, paused, panic, halted, stalled, nt, where, waits>>
    BY <1>3 DEF Start
  <2>2. ready' \in Seq(SyncTask)
    BY <1>a, <2>1 DEF SyncTypes
  <2>3. started' \in 0 .. MaxFibers
    BY <1>0, <2>1
  <2>4. SyncTypes'
    BY <1>a, <2>1, <2>2, <2>3 DEF SyncTypes
  <2>5. FibersApart'
    BY <1>0, <1>a, <2>1 DEF FibersApart, SyncTypes
  <2>6. ~stalled' => Wake(ready', Lists(nt'), paused', where')
    BY <1>a, <2>1, WakeStart
  <2> QED
    BY <2>4, <2>5, <2>6 DEF SyncInv
<1>4. CASE Return
  <2>1. /\ current' = Idle
        /\ UNCHANGED <<ready, spawned, started, panic, halted, stalled, paused, nt, where, waits>>
    BY <1>4 DEF Return, schedVars
  <2>2. SyncTypes'
    BY <1>a, <2>1 DEF SyncTypes
  <2>3. FibersApart'
    BY <1>0, <1>a, <2>1 DEF FibersApart, SyncTypes
  <2> QED
    BY <1>a, <2>1, <2>2, <2>3 DEF SyncInv
<1>5. CASE ExitCheck
  <2>1. /\ stalled' = TRUE /\ ready' = Resumes(InOrder(paused), Stale)
        /\ UNCHANGED <<spawned, started, current, paused, panic, halted, nt, where, waits>>
    BY <1>5 DEF ExitCheck
  <2>2. ready' \in Seq(SyncTask)
    <3>1. InOrder(paused) \in Seq(Fibers)
      BY <1>a, InOrderIs DEF SyncTypes
    <3> QED
      BY <2>1, <3>1, ResumesAt
  <2>3. SyncTypes'
    BY <1>a, <2>1, <2>2 DEF SyncTypes
  <2> QED
    BY <1>a, <2>1, <2>3 DEF SyncInv, FibersApart
<1>6. CASE InvalidThread
  <2>1. /\ panic' = TRUE
        /\ UNCHANGED <<ready, spawned, started, current, paused, halted, stalled, nt, where, waits>>
    BY <1>6 DEF InvalidThread
  <2>2. SyncTypes'
    BY <1>a, <2>1 DEF SyncTypes
  <2> QED
    BY <1>a, <2>1, <2>2 DEF SyncInv, FibersApart
<1>7. CASE Exit
  <2>1. /\ current' = Idle /\ ready' = <<>> /\ spawned' = 0 /\ halted' = TRUE /\ stalled' = TRUE
        /\ UNCHANGED <<started, paused, panic, nt, where, waits>>
    BY <1>7 DEF Exit
  <2>2. SyncTypes'
    BY <1>0, <1>a, <2>1 DEF SyncTypes
  <2>3. FibersApart'
    BY <1>0, <1>a, <2>1 DEF FibersApart, SyncTypes
  <2> QED
    BY <2>1, <2>2, <2>3 DEF SyncInv
<1> QED
  BY <1>1, <1>2, <1>3, <1>4, <1>5, <1>6, <1>7

-----------------------------------------------------------------------------
(* Parts of the methods                                                    *)

\* Sequences without their head, and with one more element.
LEMMA SeqTypes ==
  ASSUME NEW T, NEW q \in Seq(T)
  PROVE  /\ q # <<>> => Tail(q) \in Seq(T) /\ Head(q) \in T
         /\ \A v \in T : Append(q, v) \in Seq(T)
         /\ <<>> \in Seq(T)
OBVIOUS

\* The methods keep the state of a notifier well typed.
LEMMA NotifierOps ==
  ASSUME NEW N \in NotifierState
  PROVE  /\ N.pending # <<>> =>
              Notified(N) \in NotifierState /\ Notified(N).pending = Tail(N.pending)
         /\ \A v \in V0 : Closed(N, v) \in NotifierState /\ Closed(N, v).pending = <<>>
                          /\ Closed(N, v).open = FALSE
         /\ \A v \in V0 : /\ [N EXCEPT !.error = v] \in NotifierState
                          /\ [N EXCEPT !.error = v].pending = N.pending
                          /\ [N EXCEPT !.result = v] \in NotifierState
                          /\ [N EXCEPT !.result = v].pending = N.pending
         /\ [N EXCEPT !.pending = <<>>] \in NotifierState
         /\ [N EXCEPT !.pending = <<>>].pending = <<>>
         /\ \A f \in Fibers : /\ [N EXCEPT !.pending = Append(@, f)] \in NotifierState
                              /\ [N EXCEPT !.pending = Append(@, f)].pending
                                   = Append(N.pending, f)
<1>1. N.pending \in Seq(Fibers)
  BY DEF NotifierState
<1>2. /\ N.pending # <<>> => Tail(N.pending) \in Seq(Fibers)
      /\ \A f \in Fibers : Append(N.pending, f) \in Seq(Fibers)
      /\ <<>> \in Seq(Fibers)
  BY <1>1, SeqTypes
<1> QED
  BY <1>2 DEF NotifierState, Notified, Closed

\* Whoever comes out of wait() is in Fibers, and leaves the notifier either
\* as it is or, with the stale exception, without waiters.
LEMMA AfterWaitIs ==
  ASSUME SyncInv, Resuming
  PROVE  /\ ready # <<>> /\ Head(ready).kind = "resume" /\ Woken = Head(ready).id
         /\ Woken \in paused /\ Woken \in Fibers /\ WokenWhere \in Notifiers
         /\ AfterWait \in NotifierState
         /\ AfterWait.pending = <<>> \/ AfterWait = nt[WokenWhere]
         /\ ~stalled => AfterWait = nt[WokenWhere]
<1>1. /\ ready # <<>> /\ Head(ready).kind = "resume" /\ Woken = Head(ready).id
      /\ Woken \in paused /\ Woken \in Fibers
  BY DEF Resuming, Woken, SyncInv, SyncTypes
<1>2. WokenWhere \in Notifiers
  BY <1>1 DEF WokenWhere, SyncInv, SyncTypes, FibersApart
<1>3. nt[WokenWhere] \in NotifierState
  BY <1>2 DEF SyncInv, SyncTypes
<1>4. AfterWait \in NotifierState /\ (AfterWait.pending = <<>> \/ AfterWait = nt[WokenWhere])
  BY <1>3, NotifierOps DEF AfterWait
<1>5. ~stalled => ~WaitStale
  <2> SUFFICES ASSUME ~stalled PROVE Head(ready).arg # Stale
    BY DEF WaitStale
  <2>1. NoStale(ready) /\ ready \in Seq(SyncTask)
    BY DEF SyncInv, Wake
  <2>2. 1 \in DOMAIN ready /\ Head(ready) = ready[1]
    BY <1>1, <2>1, TailAt
  <2> QED
    BY <2>1, <2>2 DEF NoStale
<1> QED
  BY <1>1, <1>2, <1>4, <1>5 DEF AfterWait

\* A method that only changes the notifier n and the task queue.
LEMMA MethodStep ==
  ASSUME SyncInv, NEW n \in Notifiers, NEW M \in NotifierState,
         nt' = [nt EXCEPT ![n] = M], ready' \in Seq(SyncTask),
         UNCHANGED <<schedVars, current, paused, where, waits>>,
         ~stalled => Wake(ready', [Lists(nt) EXCEPT ![n] = M.pending], paused, where)
  PROVE  SyncInv'
<1>1. nt \in [Notifiers -> NotifierState]
  BY DEF SyncInv, SyncTypes
<1>2. /\ nt' \in [Notifiers -> NotifierState]
      /\ Lists(nt') = [Lists(nt) EXCEPT ![n] = M.pending]
  BY <1>1, ListsUpdate
<1>3. SyncTypes'
  BY <1>2 DEF SyncInv, SyncTypes, schedVars
<1>4. FibersApart'
  BY DEF SyncInv, FibersApart, schedVars
<1>5. ~stalled' => Wake(ready', Lists(nt'), paused', where')
  BY <1>2 DEF schedVars
<1> QED
  BY <1>3, <1>4, <1>5 DEF SyncInv

\* The state of n, its list and its waiters.
LEMMA NotifierIs ==
  ASSUME SyncInv, NEW n \in Notifiers
  PROVE  /\ nt[n] \in NotifierState /\ nt[n].pending \in Seq(Fibers)
         /\ Lists(nt)[n] = nt[n].pending /\ ready \in Seq(SyncTask)
         /\ ~stalled => Wake(ready, Lists(nt), paused, where)
BY ListsType DEF SyncInv, SyncTypes, NotifierState

\* A paused fiber comes out of wait().
LEMMA ResumeSync ==
  ASSUME SyncInv, Resuming, ready' = Tail(ready), current' = Woken,
         paused' = paused \ {Woken}, where' = [where EXCEPT ![Woken] = Null],
         nt' = [nt EXCEPT ![WokenWhere] = AfterWait], UNCHANGED <<schedVars, waits>>
  PROVE  SyncInv'
<1>1. UNCHANGED <<spawned, started, panic, halted, stalled, waits>>
  BY DEF schedVars
<1>2. /\ ready # <<>> /\ Head(ready).kind = "resume" /\ Woken = Head(ready).id
      /\ Woken \in paused /\ Woken \in Fibers /\ WokenWhere \in Notifiers
      /\ AfterWait \in NotifierState
      /\ ~stalled => AfterWait = nt[WokenWhere]
  BY AfterWaitIs
<1>3. nt' \in [Notifiers -> NotifierState] /\ (~stalled => nt' = nt)
  BY <1>2 DEF SyncInv, SyncTypes
<1>4. ready' \in Seq(SyncTask)
  BY <1>2 DEF SyncInv, SyncTypes
<1>5. SyncTypes'
  BY <1>1, <1>2, <1>3, <1>4 DEF SyncInv, SyncTypes
<1>6. FibersApart'
  BY <1>1, <1>2 DEF SyncInv, SyncTypes, FibersApart
<1>7. ~stalled' => Wake(ready', Lists(nt'), paused', where')
  BY <1>1, <1>2, <1>3, WakeResume DEF SyncInv
<1> QED
  BY <1>5, <1>6, <1>7 DEF SyncInv

\* The fiber f, running or resumed, goes on or waits in n.
LEMMA MoveSync ==
  ASSUME SyncInv, NEW STATE f, f \in Fibers, f < started, current \in {f, Idle},
         NEW n \in Notifiers,
         \/ /\ current' = f /\ paused' = paused \ {f}
            /\ where' = [where EXCEPT ![f] = Null]
         \/ /\ current' = Idle /\ paused' = paused \cup {f}
            /\ where' = [where EXCEPT ![f] = n],
         nt' \in [Notifiers -> NotifierState], ready' \in Seq(SyncTask),
         waits' \in [Fibers -> 0 .. MaxWaits], UNCHANGED schedVars,
         ~stalled => Wake(ready', Lists(nt'), paused', where')
  PROVE  SyncInv'
<1>1. UNCHANGED <<spawned, started, panic, halted, stalled>>
  BY DEF schedVars
<1>2. n # Null /\ (\A g \in Fibers : g # Idle) /\ Idle < started
  BY SyncAssumption DEF Idle, Fibers, SyncInv, SyncTypes
<1>3. SyncTypes'
  BY <1>1 DEF SyncInv, SyncTypes
<1>4. FibersApart'
  BY <1>1, <1>2 DEF SyncInv, SyncTypes, FibersApart
<1> QED
  BY <1>1, <1>3, <1>4 DEF SyncInv
=============================================================================
