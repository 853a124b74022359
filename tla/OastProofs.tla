----------------------------- MODULE OastProofs -----------------------------
(***************************************************************************)
(* Proofs about the callback provider, the scanner's side of a session and *)
(* the XML review over both, for every number of sessions, connections and *)
(* callbacks, every page size and every limit.                             *)
(*                                                                         *)
(* The provider's part is about one session record at a time: whatever a   *)
(* request does to the provider, it does one of a few things to each       *)
(* record (RecordStep), and each of them keeps the record whole.  The      *)
(* adapter's part follows the one request it waits for, and the ones it    *)
(* gave up on, through the provider.  What the review concludes rests on   *)
(* pages its adapter accepted long before: the adapter's invariant says    *)
(* what those pages were worth, and the review's what it made of them, for *)
(* every number of polls a leg.                                            *)
(***************************************************************************)
EXTENDS XmlReview, FiniteSetTheorems, TLAPS

(***************************************************************************)
(* The provider                                                            *)
(***************************************************************************)

\* CursorsAreDense of one record.
Dense(x) ==
    /\ {x.cursor[c] : c \in Events(x)} = 1 .. x.next_cursor
    /\ \A c, d \in Events(x) : x.cursor[c] = x.cursor[d] => c = d
    /\ Events(x) \subseteq x.callbacks

\* A present record has an event for every callback that was answered, unless it says
\* that it may lack some, and for no other; the retention outlasts the life.
Whole(x, owed) ==
    /\ Dense(x)
    /\ x.phase = "unborn" => owed = {}
    /\ x.phase = "present" =>
          /\ Events(x) \subseteq owed
          /\ ~x.incomplete => owed \subseteq Events(x)
          /\ x.life <= x.keep

\* The inductive invariant of the provider.
PInv == TypeOK /\ \A s \in Sessions : Whole(sessions[s], answered[s])

\* What a step may do to a record x with the answered callbacks A: they become y and B.
\* A request of kind op does at most one thing to a record besides the sweep.
Extended(x, y) ==
    /\ x.phase = "present" /\ Cardinality(x.callbacks) < max_callbacks
    /\ y = [x EXCEPT !.callbacks = @ \cup {Cardinality(x.callbacks) + 1}]

Charged(x, y) ==
    /\ x.phase = "present" /\ x.polls < max_polls
    /\ y = [x EXCEPT !.polls = @ + 1]

Aged(x) == [x EXCEPT !.life = Down(@), !.keep = Down(@)]

Hears(x, A, y, B) ==
    \E c \in x.callbacks :
        /\ x.phase = "present" /\ x.life > 0
        /\ y = Observed(x, c) \/ y = EntropyFailed(x, c)
        /\ B = A \cup {c}

Misses(x, A, y, B) ==
    /\ x.phase = "present" /\ y = Marked(x)
    /\ B = A \/ \E c \in x.callbacks : B = A \cup {c}

\* The sweep.
Kept(x, y) == y = x \/ (x.phase = "present" /\ x.keep = 0 /\ y = Blank("removed"))

RecordStep(op, x, A, y, B) ==
    \/ B = A /\ Kept(x, y)
    \/ B = A /\ op = "register" /\ x.phase = "unborn" /\ y = Fresh
    \/ B = A /\ op = "allocate" /\ Extended(x, y)
    \/ B = A /\ op = "poll" /\ Charged(x, y)
    \/ B = A /\ op = "cleanup" /\ x.phase = "present" /\ y = Blank("removed")
    \/ B = A /\ op = "tick" /\ y = Aged(x)
    \/ op = "callback" /\ (Hears(x, A, y, B) \/ Misses(x, A, y, B))

RecordsStep(op) ==
    /\ sessions' = [s \in Sessions |-> sessions'[s]]
    /\ answered' = [s \in Sessions |-> answered'[s]]
    /\ \A s \in Sessions : RecordStep(op, sessions[s], answered[s], sessions'[s], answered'[s])

\* The steps of the provider whoever sends requests to it.
ProviderStep ==
    \/ \E k \in Conns, r \in Request : Arrive(k, r)
    \/ \E k \in Conns : Forget(k)
    \/ Server
    \/ sessions' = Age /\ UNCHANGED <<stage, req, ans, answered>>

(***************************************************************************)
(* The adapter                                                             *)
(***************************************************************************)

Pending(op) == {k \in Conns : Handles(k, op)}

\* One registration is ever sent, so there is one session at most, and none as long as
\* the registration has not been served.
OneSession ==
    /\ \A s, t \in Sessions :
          sessions[s].phase # "unborn" /\ sessions[t].phase # "unborn" => s = t
    /\ \A j, k \in Pending("register") : j = k
    /\ Pending("register") # {} \/ ~ad.registration_attempted =>
          \A s \in Sessions : sessions[s].phase = "unborn"
    /\ ~ad.registration_attempted \/ ad.lifecycle # "Configured" => Pending("register") = {}

\* Every poll the provider has charged or still may was charged by the adapter before.
PollsAreCharged ==
    /\ IsFiniteSet(Pending("poll"))
    /\ \A s \in Sessions :
          sessions[s].polls + Cardinality(Pending("poll")) <= ad.poll_attempts

\* A session lives as long as the permit, and is gone only for a cleanup or for its age.
SessionLives ==
    /\ \A s \in Sessions : sessions[s].phase = "present" => left <= sessions[s].life
    /\ \A s \in Sessions : sessions[s].phase = "removed" => left = 0 \/ ad.cleanup_attempted
    /\ Pending("cleanup") # {} => ad.cleanup_attempted

RequestsAreCounted ==
    ad.requests <= (IF ad.registration_attempted THEN 1 ELSE 0) + ad.callback_attempts
                   + ad.poll_attempts + (IF ad.cleanup_attempted THEN 1 ELSE 0)

\* Where the adapter stands in the life of its session.
LifecycleInStep ==
    /\ ad.lifecycle = "Configured" =>
          ad.session = NoSession /\ ad.cursor = 0 /\ ad.seen = {} /\ settled = {}
    /\ ad.lifecycle \in {"CallbackAllocated", "Polling"} => ad.callbacks # {}
    /\ ad.cleanup_attempted <=> ad.lifecycle = "Closed"
    /\ ad.session # NoSession => sessions[ad.session].phase # "unborn"
    /\ call = "register" => ad.lifecycle = "Configured"
    /\ call = "allocate" => ad.lifecycle \in {"Registered", "CallbackAllocated"}
    /\ call = "poll" => ad.lifecycle \in {"CallbackAllocated", "Polling"}
    /\ call = "cleanup" => ad.lifecycle = "Closed"
    /\ call = "none" /\ ad.lifecycle = "Closed" => ad.session = NoSession

\* What the page p, asked for at the adapter's cursor, says of the session and of the
\* callbacks that were answered when it was served, however many came since.
PageHolds(p) ==
    /\ p.complete => p.owed \subseteq ad.seen \cup p.events
    /\ p.events \subseteq UNION {answered[s] : s \in Sessions}
    /\ ad.session \in Present =>
          /\ p.next_cursor \in ad.cursor .. sessions[ad.session].next_cursor
          /\ p.events = {c \in Callbacks : /\ ad.cursor < sessions[ad.session].cursor[c]
                                           /\ sessions[ad.session].cursor[c] <= p.next_cursor}

AnswerHolds(op, a) ==
    /\ op = "register" => a.session \in Sessions /\ sessions[a.session].phase # "unborn"
    /\ op = "allocate" => a.callback \in Callbacks
    /\ op = "poll" => PageHolds(a)
    /\ op = "cleanup" => Present = {}

\* The request the adapter waits for is its own, and its answer is still true.
CallInStep ==
    conn # NoConn =>
        /\ call # "none"
        /\ stage[conn] \in {"admitted", "answered"}
        /\ req[conn].op = call /\ req[conn].session = ad.session
        /\ call = "poll" => req[conn].after = ad.cursor
        /\ stage[conn] = "answered" /\ ans[conn].status = "ok" =>
              AnswerHolds(call, ans[conn])

CursorInRange ==
    ad.session \in Present => ad.cursor <= sessions[ad.session].next_cursor

\* The inductive invariant of adapter and provider.
AInv ==
    /\ PInv
    /\ AdTypeOK
    /\ OneSession
    /\ PollsAreCharged
    /\ SessionLives
    /\ RequestsAreCounted
    /\ LifecycleInStep
    /\ CallInStep
    /\ CursorInRange
    /\ ObservationsAreExact
    /\ VerifiedCleanupIsFinal
    /\ ad.cleanup_verified => ad.cleanup_attempted

-----------------------------------------------------------------------------
(***************************************************************************)
(* Records                                                                 *)
(***************************************************************************)

LEMMA RecordTypes ==
    ASSUME NEW x \in SessionState
    PROVE  /\ x.phase \in {"unborn", "present", "removed"}
           /\ x.life \in Nat /\ x.life <= Lifetime
           /\ x.keep \in Nat /\ x.keep <= Lifetime + Retention
           /\ x.polls \in Nat /\ x.polls <= max_polls
           /\ x.next_cursor \in Nat /\ x.next_cursor <= max_events
           /\ x.callbacks \subseteq Callbacks
           /\ x.cursor \in [Callbacks -> 0 .. max_events]
           /\ x.duplicates \in [Callbacks -> 0 .. MAX_DUPLICATE_HITS]
           /\ x.incomplete \in BOOLEAN
           /\ Events(x) \subseteq Callbacks
           /\ \A c \in Callbacks : x.cursor[c] \in Nat
BY LimitsAssumption DEF SessionState, Events

LEMMA CallbacksAreFinite == IsFiniteSet(Callbacks)
<1>1. max_callbacks \in Int
    BY LimitsAssumption
<1>2. IsFiniteSet(1 .. max_callbacks)
    BY <1>1, FS_Interval
<1> QED
    BY <1>2, CallbacksAssumption

\* The cursors of a session number its events, so a stretch of cursors has as many events
\* as numbers.
LEMMA StretchIsCounted ==
    ASSUME NEW x \in SessionState, Dense(x), NEW a \in Nat, NEW b \in Nat,
           a < b, b <= x.next_cursor + 1
    PROVE  LET S == {c \in Callbacks : a < x.cursor[c] /\ x.cursor[c] < b}
           IN  IsFiniteSet(S) /\ Cardinality(S) = (b - a) - 1
<1> DEFINE S == {c \in Callbacks : a < x.cursor[c] /\ x.cursor[c] < b}
           T == (a + 1) .. (b - 1)
           f == [c \in S |-> x.cursor[c]]
<1>1. x.next_cursor \in Nat /\ \A c \in Callbacks : x.cursor[c] \in Nat
    BY RecordTypes
<1>2. S \subseteq Events(x)
    BY <1>1 DEF Events
<1>3. \A c \in S : x.cursor[c] \in T
    BY <1>1
<1>4. \A n \in T : \E c \in S : x.cursor[c] = n
  <2> SUFFICES ASSUME NEW n \in T PROVE \E c \in S : x.cursor[c] = n
    OBVIOUS
  <2>1. n \in 1 .. x.next_cursor
    BY <1>1
  <2>2. PICK c \in Events(x) : x.cursor[c] = n
    BY <2>1 DEF Dense
  <2>3. c \in Callbacks /\ a < n /\ n < b
    BY DEF Events
  <2> QED
    BY <2>2, <2>3
<1>5. \A c, d \in S : x.cursor[c] = x.cursor[d] => c = d
    BY <1>2 DEF Dense
<1> HIDE DEF S, T
<1>6. f \in Bijection(S, T)
    BY <1>3, <1>4, <1>5 DEF Bijection, Injection, Surjection, IsInjective
<1>7. S \subseteq Callbacks
    BY DEF S
<1>8. IsFiniteSet(S)
    BY <1>7, CallbacksAreFinite, FS_Subset
<1>9. Cardinality(T) = Cardinality(S)
    BY <1>6, <1>8, FS_Bijection DEF ExistsBijection
<1>10. Cardinality(T) = (b - a) - 1
    BY FS_Interval DEF T
<1> QED
    BY <1>8, <1>9, <1>10 DEF S

\* So a session has as many events as its last cursor says.
LEMMA EventsAreCounted ==
    ASSUME NEW x \in SessionState, Dense(x)
    PROVE  Cardinality(Events(x)) = x.next_cursor
<1>1. x.next_cursor \in Nat /\ \A c \in Callbacks : x.cursor[c] \in Nat
    BY RecordTypes
<1>2. \A c \in Events(x) : x.cursor[c] < x.next_cursor + 1
    BY <1>1 DEF Dense
<1>3. Events(x) = {c \in Callbacks : 0 < x.cursor[c] /\ x.cursor[c] < x.next_cursor + 1}
    BY <1>1, <1>2 DEF Events
<1>4. Cardinality({c \in Callbacks : 0 < x.cursor[c] /\ x.cursor[c] < x.next_cursor + 1})
          = ((x.next_cursor + 1) - 0) - 1
  <2>1. 0 \in Nat /\ x.next_cursor + 1 \in Nat /\ 0 < x.next_cursor + 1
        /\ x.next_cursor + 1 <= x.next_cursor + 1
    BY <1>1
  <2> QED
    BY <2>1, StretchIsCounted, Zenon
<1> QED
    BY <1>1, <1>3, <1>4

\* A page is the stretch of the next cursors, as many as fit.
LEMMA PageIsStretch ==
    ASSUME NEW x \in SessionState, Dense(x), NEW a \in 0 .. x.next_cursor
    PROVE  PageEvents(x, a) =
               {c \in Matching(x, a) : x.cursor[c] <= a + max_poll_events_per_response}
<1>1. x.next_cursor \in Nat /\ a \in Nat /\ \A c \in Callbacks : x.cursor[c] \in Nat
    BY RecordTypes
<1> SUFFICES ASSUME NEW c \in Matching(x, a)
             PROVE  Cardinality({d \in Matching(x, a) : x.cursor[d] < x.cursor[c]})
                        < max_poll_events_per_response
                    <=> x.cursor[c] <= a + max_poll_events_per_response
    BY DEF PageEvents
<1>2. c \in Callbacks /\ a < x.cursor[c]
    BY DEF Matching
<1>3. x.cursor[c] \in 1 .. x.next_cursor
    BY <1>1, <1>2 DEF Dense, Events
<1>4. {d \in Matching(x, a) : x.cursor[d] < x.cursor[c]} =
          {d \in Callbacks : a < x.cursor[d] /\ x.cursor[d] < x.cursor[c]}
    BY <1>1 DEF Matching
<1>5. Cardinality({d \in Callbacks : a < x.cursor[d] /\ x.cursor[d] < x.cursor[c]})
          = (x.cursor[c] - a) - 1
  <2>1. x.cursor[c] \in Nat /\ a < x.cursor[c] /\ x.cursor[c] <= x.next_cursor + 1
    BY <1>1, <1>2, <1>3
  <2> QED
    BY <1>1, <2>1, StretchIsCounted, Zenon
<1>6. max_poll_events_per_response \in Nat
    BY LimitsAssumption
<1> DEFINE n == x.cursor[c]
<1>7. n \in Nat /\ a \in Nat
    BY <1>1, <1>2
<1> HIDE DEF n
<1>8. (n - a) - 1 < max_poll_events_per_response <=> n <= a + max_poll_events_per_response
    BY <1>6, <1>7
<1> QED
    BY <1>4, <1>5, <1>8 DEF n

LEMMA BlankIsDense ==
    ASSUME NEW phase \in {"unborn", "present", "removed"}
    PROVE  Blank(phase) \in SessionState /\ Events(Blank(phase)) = {} /\ Dense(Blank(phase))
<1>1. Blank(phase) \in SessionState
    BY LimitsAssumption DEF Blank, SessionState
<1>2. Events(Blank(phase)) = {} /\ Blank(phase).next_cursor = 0
    BY DEF Blank, Events
<1>3. 1 .. 0 = {}
    OBVIOUS
<1> QED
    BY <1>1, <1>2, <1>3 DEF Dense

\* What does not touch the cursors keeps the events.
LEMMA SameEvents ==
    ASSUME NEW x, NEW y, Dense(x), y.cursor = x.cursor, y.next_cursor = x.next_cursor,
           x.callbacks \subseteq y.callbacks
    PROVE  Dense(y) /\ Events(y) = Events(x)
BY DEF Dense, Events

LEMMA FreshIsWhole == Fresh \in SessionState /\ Whole(Fresh, {})
<1>1. Blank("present") \in SessionState /\ Events(Blank("present")) = {} /\ Dense(Blank("present"))
    BY BlankIsDense
<1>2. /\ Fresh.cursor = Blank("present").cursor /\ Fresh.callbacks = Blank("present").callbacks
      /\ Fresh.next_cursor = Blank("present").next_cursor
      /\ Fresh.phase = "present" /\ Fresh.life = Lifetime /\ Fresh.keep = Lifetime + Retention
    BY DEF Fresh, Blank
<1>3. Fresh \in SessionState
  <2>1. Lifetime \in 0 .. Lifetime /\ Lifetime + Retention \in 0 .. (Lifetime + Retention)
    BY LimitsAssumption
  <2> QED
    BY <1>1, <2>1 DEF Fresh, SessionState
<1>4. Dense(Fresh) /\ Events(Fresh) = {}
    BY <1>1, <1>2, SameEvents
<1>5. Lifetime <= Lifetime + Retention
    BY LimitsAssumption
<1> QED
    BY <1>2, <1>3, <1>4, <1>5 DEF Whole

LEMMA RemovedIsWhole ==
    ASSUME NEW A
    PROVE  Blank("removed") \in SessionState /\ Whole(Blank("removed"), A)
<1>1. Blank("removed").phase = "removed"
    BY DEF Blank
<1> QED
    BY <1>1, BlankIsDense DEF Whole

LEMMA AgedIsWhole ==
    ASSUME NEW x \in SessionState, NEW A, Whole(x, A)
    PROVE  Aged(x) \in SessionState /\ Whole(Aged(x), A)
<1>1. /\ Aged(x).cursor = x.cursor /\ Aged(x).next_cursor = x.next_cursor
      /\ Aged(x).callbacks = x.callbacks /\ Aged(x).phase = x.phase
      /\ Aged(x).incomplete = x.incomplete
      /\ Aged(x).life = Down(x.life) /\ Aged(x).keep = Down(x.keep)
    BY DEF Aged, SessionState
<1>2. x.life \in Nat /\ x.keep \in Nat /\ x.life <= Lifetime /\ x.keep <= Lifetime + Retention
    BY RecordTypes
<1>3. /\ Down(x.life) \in 0 .. Lifetime /\ Down(x.keep) \in 0 .. (Lifetime + Retention)
      /\ x.life <= x.keep => Down(x.life) <= Down(x.keep)
    BY <1>2, LimitsAssumption DEF Down
<1>4. Aged(x) \in SessionState
    BY <1>3 DEF Aged, SessionState
<1>5. Dense(Aged(x)) /\ Events(Aged(x)) = Events(x)
    BY <1>1, SameEvents DEF Whole
<1> QED
    BY <1>1, <1>3, <1>4, <1>5 DEF Whole

LEMMA ExtendedIsWhole ==
    ASSUME NEW x \in SessionState, NEW A, NEW y, Whole(x, A), Extended(x, y)
    PROVE  y \in SessionState /\ Whole(y, A)
<1> DEFINE n == Cardinality(x.callbacks)
<1>1. n \in Nat /\ n < max_callbacks
    BY RecordTypes, CallbacksAreFinite, FS_Subset, FS_CardinalityType DEF Extended
<1>2. n + 1 \in Callbacks
    BY <1>1, CallbacksAssumption, LimitsAssumption
<1>3. y = [x EXCEPT !.callbacks = @ \cup {n + 1}]
    BY DEF Extended
<1> HIDE DEF n
<1>4. y \in SessionState
    BY <1>2, <1>3 DEF SessionState
<1>5. /\ y.cursor = x.cursor /\ y.next_cursor = x.next_cursor /\ x.callbacks \subseteq y.callbacks
      /\ y.phase = x.phase /\ y.incomplete = x.incomplete /\ y.life = x.life /\ y.keep = x.keep
    BY <1>3 DEF SessionState
<1>6. Dense(y) /\ Events(y) = Events(x)
    BY <1>5, SameEvents DEF Whole
<1> QED
    BY <1>4, <1>5, <1>6 DEF Whole

LEMMA ChargedIsWhole ==
    ASSUME NEW x \in SessionState, NEW A, NEW y, Whole(x, A), Charged(x, y)
    PROVE  y \in SessionState /\ Whole(y, A)
<1>1. x.polls + 1 \in 0 .. max_polls
    BY RecordTypes, LimitsAssumption DEF Charged
<1>2. y = [x EXCEPT !.polls = x.polls + 1]
    BY DEF Charged
<1>3. y \in SessionState
    BY <1>1, <1>2 DEF SessionState
<1>4. /\ y.cursor = x.cursor /\ y.next_cursor = x.next_cursor /\ x.callbacks \subseteq y.callbacks
      /\ y.phase = x.phase /\ y.incomplete = x.incomplete /\ y.life = x.life /\ y.keep = x.keep
    BY <1>2 DEF SessionState
<1>5. Dense(y) /\ Events(y) = Events(x)
    BY <1>4, SameEvents DEF Whole
<1> QED
    BY <1>3, <1>4, <1>5 DEF Whole

\* The sticky mark excuses whatever the record lacks.
LEMMA MarkedIsWhole ==
    ASSUME NEW x \in SessionState, NEW A, NEW B, Whole(x, A), x.phase = "present", A \subseteq B
    PROVE  Marked(x) \in SessionState /\ Whole(Marked(x), B)
<1>1. Marked(x) \in SessionState
    BY DEF Marked, SessionState
<1>2. /\ Marked(x).cursor = x.cursor /\ Marked(x).next_cursor = x.next_cursor
      /\ Marked(x).callbacks = x.callbacks /\ Marked(x).phase = "present"
      /\ Marked(x).incomplete = TRUE /\ Marked(x).life = x.life /\ Marked(x).keep = x.keep
    BY DEF Marked, SessionState
<1>3. Dense(Marked(x)) /\ Events(Marked(x)) = Events(x)
    BY <1>2, SameEvents DEF Whole
<1> QED
    BY <1>1, <1>2, <1>3 DEF Whole

LEMMA DuplicateIsWhole ==
    ASSUME NEW x \in SessionState, NEW A, Whole(x, A), x.phase = "present",
           NEW c \in Callbacks, HasEvent(x, c)
    PROVE  Duplicate(x, c) \in SessionState /\ Whole(Duplicate(x, c), A \cup {c})
<1>1. CASE x.duplicates[c] < MAX_DUPLICATE_HITS
  <2> DEFINE y == [x EXCEPT !.duplicates[c] = x.duplicates[c] + 1]
  <2>1. Duplicate(x, c) = y
    BY <1>1 DEF Duplicate
  <2>2. x.duplicates \in [Callbacks -> 0 .. MAX_DUPLICATE_HITS]
    BY RecordTypes
  <2>3. x.duplicates[c] + 1 \in 0 .. MAX_DUPLICATE_HITS
    BY <1>1, <2>2, LimitsAssumption
  <2>4. y \in SessionState
    BY <2>2, <2>3 DEF SessionState
  <2>5. /\ y.cursor = x.cursor /\ y.next_cursor = x.next_cursor /\ y.callbacks = x.callbacks
        /\ y.phase = x.phase /\ y.incomplete = x.incomplete /\ y.life = x.life /\ y.keep = x.keep
    BY DEF SessionState
  <2> HIDE DEF y
  <2>6. Dense(y) /\ Events(y) = Events(x)
    BY <2>5, SameEvents DEF Whole
  <2>7. c \in Events(x)
    BY DEF HasEvent, Events
  <2> QED
    BY <2>1, <2>4, <2>5, <2>6, <2>7 DEF Whole
<1>2. CASE ~(x.duplicates[c] < MAX_DUPLICATE_HITS)
  <2>1. Duplicate(x, c) = Marked(x)
    BY <1>2 DEF Duplicate, Marked
  <2> QED
    BY <2>1, MarkedIsWhole
<1> QED
    BY <1>1, <1>2

\* A first hit takes the next cursor, as long as there is room for its event.
LEMMA NewEventIsWhole ==
    ASSUME NEW x \in SessionState, NEW A, Whole(x, A), x.phase = "present",
           NEW c \in x.callbacks, ~HasEvent(x, c)
    PROVE  NewEvent(x, c) \in SessionState /\ Whole(NewEvent(x, c), A \cup {c})
<1>0. c \in Callbacks
    BY RecordTypes
<1>1. CASE Cardinality(Events(x)) >= max_events
  <2>1. NewEvent(x, c) = Marked(x)
    BY <1>1 DEF NewEvent, AtEventLimit, Marked
  <2> QED
    BY <2>1, MarkedIsWhole
<1>2. CASE ~(Cardinality(Events(x)) >= max_events)
  <2> DEFINE n == x.next_cursor + 1
             y == [x EXCEPT !.next_cursor = n, !.cursor[c] = n]
  <2>1. NewEvent(x, c) = y
    BY <1>2 DEF NewEvent
  <2>2. x.next_cursor \in Nat /\ Cardinality(Events(x)) = x.next_cursor
    BY EventsAreCounted, RecordTypes DEF Whole
  <2>3. n \in 1 .. max_events /\ n - 1 = x.next_cursor /\ n \in Nat
    BY <1>2, <2>2, LimitsAssumption
  <2>4. x.cursor \in [Callbacks -> 0 .. max_events] /\ \A d \in Callbacks : x.cursor[d] \in Nat
    BY RecordTypes
  <2>5. /\ y.next_cursor = n /\ y.cursor = [x.cursor EXCEPT ![c] = n] /\ y.callbacks = x.callbacks
        /\ y.phase = x.phase /\ y.incomplete = x.incomplete /\ y.life = x.life /\ y.keep = x.keep
    BY DEF SessionState
  <2>6. n \in 0 .. max_events
    BY <2>3
  <2> HIDE DEF n
  <2>7. y \in SessionState
    BY <1>0, <2>4, <2>6 DEF SessionState
  <2> HIDE DEF y
  <2>8. Events(y) = Events(x) \cup {c}
    BY <1>0, <2>3, <2>4, <2>5 DEF Events
  <2>9. c \notin Events(x)
    BY DEF Events, HasEvent
  <2>10. \A d \in Events(x) : y.cursor[d] = x.cursor[d] /\ x.cursor[d] \in 1 .. (n - 1)
    <3> SUFFICES ASSUME NEW d \in Events(x)
                 PROVE  y.cursor[d] = x.cursor[d] /\ x.cursor[d] \in 1 .. (n - 1)
      OBVIOUS
    <3>1. d # c /\ d \in Callbacks
      BY <2>9, RecordTypes
    <3>2. x.cursor[d] \in 1 .. x.next_cursor
      BY DEF Whole, Dense
    <3> QED
      BY <2>3, <2>4, <2>5, <3>1, <3>2
  <2>11. y.cursor[c] = n
    BY <1>0, <2>4, <2>5
  <2>12. {y.cursor[d] : d \in Events(y)} = 1 .. y.next_cursor
    <3>1. {y.cursor[d] : d \in Events(y)} = {x.cursor[d] : d \in Events(x)} \cup {n}
      BY <2>8, <2>10, <2>11
    <3>2. {x.cursor[d] : d \in Events(x)} = 1 .. (n - 1)
      BY <2>3 DEF Whole, Dense
    <3>3. (1 .. (n - 1)) \cup {n} = 1 .. n
      BY <2>3
    <3> QED
      BY <2>5, <3>1, <3>2, <3>3
  <2>13. \A d, e \in Events(y) : y.cursor[d] = y.cursor[e] => d = e
    <3>1. \A d, e \in Events(x) : x.cursor[d] = x.cursor[e] => d = e
      BY DEF Whole, Dense
    <3>2. \A d \in Events(x) : y.cursor[d] = x.cursor[d] /\ y.cursor[d] # n
      BY <2>3, <2>10
    <3> QED
      BY <2>8, <2>11, <3>1, <3>2
  <2>14. Dense(y)
    BY <2>5, <2>8, <2>12, <2>13 DEF Whole, Dense
  <2> QED
    BY <2>1, <2>5, <2>7, <2>8, <2>14 DEF Whole
<1> QED
    BY <1>1, <1>2

LEMMA HeardIsWhole ==
    ASSUME NEW x \in SessionState, NEW A, NEW y, NEW B, Whole(x, A), Hears(x, A, y, B)
    PROVE  y \in SessionState /\ Whole(y, B)
<1>1. PICK c \in x.callbacks : /\ x.phase = "present"
                               /\ y = Observed(x, c) \/ y = EntropyFailed(x, c)
                               /\ B = A \cup {c}
    BY DEF Hears
<1>2. c \in Callbacks
    BY <1>1, RecordTypes
<1>3. CASE HasEvent(x, c)
    BY <1>1, <1>2, <1>3, DuplicateIsWhole DEF Observed, EntropyFailed
<1>4. CASE ~HasEvent(x, c)
    BY <1>1, <1>2, <1>4, NewEventIsWhole, MarkedIsWhole DEF Observed, EntropyFailed
<1> QED
    BY <1>3, <1>4

LEMMA RecordStaysWhole ==
    ASSUME NEW op, NEW x \in SessionState, NEW A, NEW y, NEW B, Whole(x, A),
           RecordStep(op, x, A, y, B)
    PROVE  y \in SessionState /\ Whole(y, B)
<1>1. CASE B = A /\ Kept(x, y)
    BY <1>1, RemovedIsWhole DEF Kept
<1>2. CASE B = A /\ x.phase = "unborn" /\ y = Fresh
  <2>1. A = {}
    BY <1>2 DEF Whole
  <2> QED
    BY <1>2, <2>1, FreshIsWhole
<1>3. CASE B = A /\ x.phase = "present" /\ y = Blank("removed")
    BY <1>3, RemovedIsWhole
<1>4. CASE B = A /\ y = Aged(x)
    BY <1>4, AgedIsWhole
<1>5. CASE B = A /\ Extended(x, y)
    BY <1>5, ExtendedIsWhole
<1>6. CASE B = A /\ Charged(x, y)
    BY <1>6, ChargedIsWhole
<1>7. CASE Hears(x, A, y, B)
    BY <1>7, HeardIsWhole
<1>8. CASE Misses(x, A, y, B)
  <2>1. A \subseteq B /\ x.phase = "present" /\ y = Marked(x)
    BY <1>8 DEF Misses
  <2> QED
    BY <2>1, MarkedIsWhole
<1> QED
    BY <1>1, <1>2, <1>3, <1>4, <1>5, <1>6, <1>7, <1>8 DEF RecordStep

-----------------------------------------------------------------------------
(***************************************************************************)
(* Pages                                                                   *)
(***************************************************************************)

\* The cursor of a page is where its stretch ends: a full page further, or at the last
\* event.
PageEnd(x, a) ==
    IF a + max_poll_events_per_response <= x.next_cursor
    THEN a + max_poll_events_per_response ELSE x.next_cursor

LEMMA PageEndFacts ==
    ASSUME NEW n \in Nat, NEW a \in 0 .. n, NEW p \in Nat \ {0}
    PROVE  LET m == IF a + p <= n THEN a + p ELSE n
           IN  m \in a .. n /\ (a < n => a < m) /\ \A i \in 0 .. n : i <= a + p <=> i <= m
OBVIOUS

LEMMA PageFacts ==
    ASSUME NEW x \in SessionState, Dense(x), NEW a \in 0 .. x.next_cursor
    PROVE  /\ NextCursor(x, a) = PageEnd(x, a)
           /\ NextCursor(x, a) \in a .. x.next_cursor
           /\ PageEvents(x, a) = {c \in Callbacks : /\ a < x.cursor[c]
                                                    /\ x.cursor[c] <= NextCursor(x, a)}
<1> DEFINE n == x.next_cursor
           m == PageEnd(x, a)
<1>1. n \in Nat /\ a \in 0 .. n /\ a \in Nat
    BY RecordTypes
<1>2. m \in a .. n /\ (a < n => a < m)
      /\ \A i \in 0 .. n : i <= a + max_poll_events_per_response <=> i <= m
    BY <1>1, LimitsAssumption, PageEndFacts DEF PageEnd
<1>3. \A c \in Callbacks : x.cursor[c] \in 0 .. n
  <2> SUFFICES ASSUME NEW c \in Callbacks PROVE x.cursor[c] \in 0 .. n
    OBVIOUS
  <2>1. x.cursor[c] \in Nat
    BY RecordTypes
  <2>2. x.cursor[c] > 0 => x.cursor[c] \in 1 .. n
    BY DEF Dense, Events
  <2> QED
    BY <1>1, <2>1, <2>2
<1>4. PageEvents(x, a) = {c \in Callbacks : a < x.cursor[c] /\ x.cursor[c] <= m}
  <2>1. \A c \in Callbacks : x.cursor[c] <= a + max_poll_events_per_response <=> x.cursor[c] <= m
    BY <1>2, <1>3
  <2>2. \A c \in Callbacks : x.cursor[c] > a <=> a < x.cursor[c]
    BY <1>1, <1>3
  <2> QED
    BY <2>1, <2>2, PageIsStretch DEF Matching
<1>5. NextCursor(x, a) = m
  <2>1. CASE a = n
    <3>1. PageEvents(x, a) = {}
      BY <1>1, <1>3, <1>4, <2>1
    <3>2. m = a
      BY <1>1, <1>2, <2>1
    <3> QED
      BY <3>1, <3>2 DEF NextCursor
  <2>2. CASE a # n
    <3>1. m \in 1 .. n /\ a < m
      BY <1>1, <1>2, <2>2
    <3>2. PICK c \in Events(x) : x.cursor[c] = m
      BY <3>1 DEF Dense
    <3>3. c \in PageEvents(x, a) /\ x.cursor[c] = m
      BY <1>1, <1>2, <1>4, <3>1, <3>2 DEF Events
    <3>4. \A d \in PageEvents(x, a) : x.cursor[d] \in Nat /\ x.cursor[d] <= m
      BY <1>3, <1>4
    <3>5. m \in {x.cursor[d] : d \in PageEvents(x, a)} /\ m \in Nat
      BY <3>1, <3>3
    <3> HIDE DEF m
    <3> DEFINE V == {x.cursor[d] : d \in PageEvents(x, a)}
    <3>6. m \in V /\ \A d \in PageEvents(x, a) : x.cursor[d] <= m
      BY <3>4, <3>5
    <3>7. \A v \in V : (\A d \in PageEvents(x, a) : x.cursor[d] <= v) => v = m
      BY <3>3, <3>4, <3>5
    <3>8. LastCursor(x, PageEvents(x, a)) = m
      BY <3>6, <3>7 DEF LastCursor
    <3> QED
      BY <3>3, <3>8 DEF NextCursor
  <2> QED
    BY <2>1, <2>2
<1> QED
    BY <1>2, <1>4, <1>5

LEMMA PagesFollow ==
    ASSUME NEW x \in SessionState, Dense(x), NEW a \in 0 .. x.next_cursor
    PROVE  Matching(x, a) \ PageEvents(x, a) = Matching(x, NextCursor(x, a))
<1> DEFINE m == NextCursor(x, a)
<1>1. x.next_cursor \in Nat /\ \A c \in Callbacks : x.cursor[c] \in Nat
    BY RecordTypes
<1>2. m \in a .. x.next_cursor
      /\ PageEvents(x, a) = {c \in Callbacks : a < x.cursor[c] /\ x.cursor[c] <= m}
    BY PageFacts
<1> HIDE DEF m
<1>3. m \in Nat /\ a \in Nat /\ a <= m
    BY <1>1, <1>2
<1>4. \A c \in Callbacks :
          x.cursor[c] > a /\ ~(a < x.cursor[c] /\ x.cursor[c] <= m) <=> x.cursor[c] > m
    BY <1>1, <1>3
<1>5. Matching(x, a) \ PageEvents(x, a) = Matching(x, m)
    BY <1>2, <1>4 DEF Matching
<1> QED
    BY <1>5 DEF m

\* A page without gap or omission is what PagesAreWhole says.
LEMMA WholePages == PInv => PagesAreWhole
<1> SUFFICES ASSUME PInv PROVE PagesAreWhole
    OBVIOUS
<1>1. \A s \in Sessions : sessions[s] \in SessionState /\ Whole(sessions[s], answered[s])
    BY DEF PInv, TypeOK
<1>2. CursorsAreDense
    BY <1>1 DEF CursorsAreDense, Whole, Dense
<1>3. PagesSkipNothing
    BY <1>1, PagesFollow, PageFacts DEF PagesSkipNothing, Whole, Present
<1>4. CompletePageIsWhole
  <2> SUFFICES ASSUME NEW s \in Present, NEW a \in 0 .. sessions[s].next_cursor,
                      IsComplete(sessions[s], a), NEW c \in answered[s]
               PROVE  /\ HasEvent(sessions[s], c)
                      /\ sessions[s].cursor[c] <= a \/ c \in PageEvents(sessions[s], a)
    BY DEF CompletePageIsWhole
  <2> DEFINE x == sessions[s]
  <2>1. x \in SessionState /\ x.phase = "present" /\ Whole(x, answered[s])
    BY <1>1 DEF Present
  <2> HIDE DEF x
  <2>2. c \in Events(x) /\ PageEvents(x, a) = Matching(x, a)
    BY <2>1 DEF Whole, IsComplete, x
  <2>3. x.cursor[c] \in Nat /\ a \in Nat /\ c \in Callbacks
    BY <2>1, <2>2, RecordTypes DEF x
  <2> QED
    BY <2>2, <2>3 DEF HasEvent, Events, Matching, x
<1> QED
    BY <1>2, <1>3, <1>4 DEF PagesAreWhole

-----------------------------------------------------------------------------
(***************************************************************************)
(* Steps of the provider                                                   *)
(***************************************************************************)

ConnTypes ==
    /\ stage \in [Conns -> {"idle", "admitted", "refused", "answered"}]
    /\ req \in [Conns -> Request]
    /\ ans \in [Conns -> Answer]

LEMMA AnswerTypes ==
    /\ NoAnswer \in Answer /\ Failed \in Answer /\ NoRequest \in Request
    /\ \A s \in Sessions, c \in Callbacks \cup {0} : Reply("ok", s, c) \in Answer
BY DEF NoAnswer, Failed, NoRequest, Ask, Reply, Answer, Request

LEMMA PageType ==
    ASSUME NEW s \in Sessions, NEW x \in SessionState, Dense(x), NEW a \in 0 .. x.next_cursor,
           answered[s] \subseteq Callbacks
    PROVE  Page(s, x, a) \in Answer
<1>1. NextCursor(x, a) \in Nat /\ PageEvents(x, a) \subseteq Callbacks
    BY PageFacts, RecordTypes
<1>2. IsComplete(x, a) \in BOOLEAN /\ (x.life = 0) \in BOOLEAN
    BY DEF IsComplete
<1>3. Reply("ok", s, 0) \in Answer
    BY AnswerTypes
<1> DEFINE n == NextCursor(x, a)
           E == PageEvents(x, a)
           b == IsComplete(x, a)
           e == (x.life = 0)
<1>4. n \in Nat /\ E \in SUBSET Callbacks /\ b \in BOOLEAN /\ e \in BOOLEAN
    BY <1>1, <1>2
<1>5. Page(s, x, a) =
          [Reply("ok", s, 0) EXCEPT !.next_cursor = n, !.complete = b, !.expired = e,
                                    !.events = E, !.owed = answered[s]]
    BY DEF Page
<1> HIDE DEF n, E, b, e
<1> QED
    BY <1>3, <1>4, <1>5 DEF Answer

LEMMA NothingMoves ==
    ASSUME NEW op, TypeOK, UNCHANGED <<sessions, answered>>
    PROVE  RecordsStep(op)
BY DEF TypeOK, RecordsStep, RecordStep, Kept

LEMMA ReleaseTypes ==
    ASSUME ConnTypes, NEW k \in Conns, Release(k)
    PROVE  ConnTypes'
BY AnswerTypes DEF ConnTypes, Release

LEMMA FinishTypes ==
    ASSUME ConnTypes, NEW k \in Conns, NEW a \in Answer, Finish(k, a)
    PROVE  ConnTypes'
BY DEF ConnTypes, Finish

LEMMA ArriveSteps ==
    ASSUME TypeOK, NEW k \in Conns, NEW r \in Request, Arrive(k, r)
    PROVE  RecordsStep("callback") /\ ConnTypes'
<1>1. RecordsStep("callback")
    BY NothingMoves DEF Arrive
<1>2. AdmissionOf(r) \in {"idle", "admitted", "refused", "answered"}
    BY DEF AdmissionOf
<1>3. ConnTypes'
    BY <1>2, AnswerTypes DEF Arrive, ConnTypes, TypeOK
<1> QED
    BY <1>1, <1>3

LEMMA TimeoutSteps ==
    ASSUME TypeOK, NEW k \in Conns, Timeout(k)
    PROVE  RecordsStep("callback") /\ ConnTypes'
<1>1. RecordsStep("callback")
    BY NothingMoves DEF Timeout
<1> QED
    BY <1>1, AnswerTypes, ReleaseTypes, FinishTypes DEF Timeout, TypeOK, ConnTypes

LEMMA ForgetSteps ==
    ASSUME TypeOK, NEW k \in Conns, Forget(k)
    PROVE  RecordsStep("callback") /\ ConnTypes'
<1>1. RecordsStep("callback")
    BY NothingMoves DEF Forget
<1> QED
    BY <1>1, ReleaseTypes DEF Forget, TypeOK, ConnTypes

LEMMA AgeSteps ==
    ASSUME TypeOK, sessions' = Age, UNCHANGED <<stage, req, ans, answered>>
    PROVE  RecordsStep("tick") /\ ConnTypes'
<1>1. RecordsStep("tick")
    BY DEF TypeOK, RecordsStep, RecordStep, Age, Aged
<1> QED
    BY <1>1 DEF TypeOK, ConnTypes

\* A management operation that changes no record but by the sweep.
LEMMA SweepSteps ==
    ASSUME NEW op, TypeOK, sessions' = Reclaimed, UNCHANGED answered
    PROVE  RecordsStep(op)
BY DEF TypeOK, RecordsStep, RecordStep, Kept, Reclaimed, Reclaimable

LEMMA RefusedSteps ==
    ASSUME NEW op, TypeOK, NEW r, sessions' = Refused(r), UNCHANGED answered
    PROVE  RecordsStep(op)
BY SweepSteps, NothingMoves DEF Refused

\* A management operation that changes one record besides the sweep.
LEMMA OneRecordSteps ==
    ASSUME NEW op, TypeOK, NEW s \in Sessions, NEW y, sessions' = [Reclaimed EXCEPT ![s] = y],
           UNCHANGED answered, RecordStep(op, sessions[s], answered[s], y, answered[s])
    PROVE  RecordsStep(op)
<1>1. \A t \in Sessions : sessions'[t] = IF t = s THEN y ELSE Reclaimed[t]
    BY DEF Reclaimed
<1>2. \A t \in Sessions : Kept(sessions[t], Reclaimed[t])
    BY DEF Reclaimed, Reclaimable, Kept
<1>3. \A t \in Sessions : RecordStep(op, sessions[t], answered[t], sessions'[t], answered'[t])
    BY <1>1, <1>2 DEF RecordStep
<1>4. sessions' = [t \in Sessions |-> sessions'[t]]
    BY DEF Reclaimed
<1>5. answered' = [t \in Sessions |-> answered'[t]]
    BY DEF TypeOK
<1> QED
    BY <1>3, <1>4, <1>5 DEF RecordsStep

LEMMA RegisterSteps ==
    ASSUME TypeOK, NEW k \in Conns, Register(k)
    PROVE  RecordsStep("register") /\ ConnTypes'
<1>0. ConnTypes
    BY DEF TypeOK, ConnTypes
<1>1. CASE Refuse(k) /\ UNCHANGED sessions
    BY <1>0, <1>1, NothingMoves, FinishTypes, AnswerTypes DEF Refuse
<1>2. CASE Refuse(k) /\ sessions' = Reclaimed
    BY <1>0, <1>2, SweepSteps, FinishTypes, AnswerTypes DEF Refuse
<1>3. ASSUME NEW s \in Sessions, sessions[s].phase = "unborn",
             sessions' = [Reclaimed EXCEPT ![s] = Fresh], Finish(k, Reply("ok", s, 0)),
             UNCHANGED answered
      PROVE  RecordsStep("register") /\ ConnTypes'
  <2>1. RecordStep("register", sessions[s], answered[s], Fresh, answered[s])
    BY <1>3 DEF RecordStep
  <2>2. RecordsStep("register")
    BY <1>3, <2>1, OneRecordSteps
  <2>3. Reply("ok", s, 0) \in Answer
    BY AnswerTypes
  <2> QED
    BY <1>0, <1>3, <2>2, <2>3, FinishTypes
<1> QED
    BY <1>1, <1>2, <1>3 DEF Register

LEMMA AllocateSteps ==
    ASSUME TypeOK, NEW k \in Conns, Allocate(k)
    PROVE  RecordsStep("allocate") /\ ConnTypes'
<1> DEFINE s == req[k].session
           c == Cardinality(sessions[s].callbacks) + 1
<1>0. ConnTypes
    BY DEF TypeOK, ConnTypes
<1>1. CASE Refuse(k) /\ sessions' = Refused(req[k])
    BY <1>0, <1>1, RefusedSteps, FinishTypes, AnswerTypes DEF Refuse
<1>2. CASE /\ Authenticated(req[k]) /\ Survives(s) /\ MayAllocate(s)
           /\ sessions' = [Reclaimed EXCEPT ![s].callbacks = @ \cup {c}]
           /\ Finish(k, Reply("ok", s, c)) /\ UNCHANGED answered
  <2>1. s \in Sessions /\ sessions[s].phase = "present" /\ ~Reclaimable(s)
    BY <1>2 DEF Survives, Present
  <2>2. sessions[s] \in SessionState
    BY <2>1 DEF TypeOK
  <2>3. Reclaimed[s] = sessions[s] /\ Reclaimed \in [Sessions -> {Reclaimed[t] : t \in Sessions}]
    BY <2>1 DEF Reclaimed
  <2> DEFINE y == [sessions[s] EXCEPT !.callbacks = @ \cup {c}]
  <2>4. sessions' = [Reclaimed EXCEPT ![s] = y]
    BY <1>2, <2>1, <2>3
  <2>5. Extended(sessions[s], y)
    BY <1>2, <2>1 DEF Extended, MayAllocate
  <2>6. RecordsStep("allocate")
    BY <1>2, <2>1, <2>4, <2>5, OneRecordSteps DEF RecordStep
  <2>7. c \in Callbacks
    <3> DEFINE n == Cardinality(sessions[s].callbacks)
    <3>1. n \in Nat /\ n < max_callbacks
      BY <1>2, <2>2, RecordTypes, CallbacksAreFinite, FS_Subset, FS_CardinalityType
      DEF MayAllocate
    <3> HIDE DEF n
    <3> QED
      BY <3>1, CallbacksAssumption, LimitsAssumption DEF n
  <2>8. Reply("ok", s, c) \in Answer
    BY <2>1, <2>7, AnswerTypes
  <2> QED
    BY <1>0, <1>2, <2>6, <2>8, FinishTypes
<1> QED
    BY <1>1, <1>2 DEF Allocate

LEMMA PollSteps ==
    ASSUME PInv, NEW k \in Conns, Poll(k)
    PROVE  RecordsStep("poll") /\ ConnTypes'
<1> DEFINE s == req[k].session
           a == req[k].after
           x == sessions[s]
<1>0. ConnTypes /\ TypeOK
    BY DEF PInv, TypeOK, ConnTypes
<1>1. CASE Authenticated(req[k]) /\ Survives(s) /\ MayPoll(s)
  <2>1. s \in Sessions /\ x.phase = "present" /\ ~Reclaimable(s) /\ x.polls < max_polls
    BY <1>1 DEF Survives, Present, MayPoll
  <2>2. x \in SessionState /\ Dense(x) /\ answered[s] \subseteq Callbacks
    BY <2>1 DEF PInv, Whole, TypeOK
  <2>3. Reclaimed[s] = x
    BY <2>1 DEF Reclaimed
  <2>4. sessions' = [Reclaimed EXCEPT ![s].polls = @ + 1] /\ UNCHANGED answered
        /\ Finish(k, IF a <= x.next_cursor THEN Page(s, x, a) ELSE Failed)
    BY <1>1 DEF Poll
  <2> DEFINE y == [x EXCEPT !.polls = @ + 1]
  <2>5. sessions' = [Reclaimed EXCEPT ![s] = y]
    BY <2>3, <2>4
  <2>6. Charged(x, y)
    BY <2>1 DEF Charged
  <2>7. RecordsStep("poll")
    BY <1>0, <2>1, <2>4, <2>5, <2>6, OneRecordSteps DEF RecordStep
  <2>8. a \in Nat
    BY <1>0 DEF ConnTypes, Request
  <2>9. x.next_cursor \in Nat
    BY <2>2, RecordTypes
  <2> HIDE DEF a, x
  <2>10. (IF a <= x.next_cursor THEN Page(s, x, a) ELSE Failed) \in Answer
    <3>1. CASE a <= x.next_cursor
      <4>1. a \in 0 .. x.next_cursor
        BY <2>8, <2>9, <3>1
      <4> QED
        BY <2>1, <2>2, <3>1, <4>1, PageType
    <3>2. CASE ~(a <= x.next_cursor)
      BY <3>2, AnswerTypes
    <3> QED
      BY <3>1, <3>2
  <2> QED
    BY <1>0, <2>4, <2>7, <2>10, FinishTypes
<1>2. CASE ~(Authenticated(req[k]) /\ Survives(s) /\ MayPoll(s))
  <2>1. sessions' = Refused(req[k]) /\ Finish(k, Failed) /\ UNCHANGED answered
    BY <1>2 DEF Poll
  <2> QED
    BY <1>0, <2>1, RefusedSteps, FinishTypes, AnswerTypes
<1> QED
    BY <1>1, <1>2

LEMMA CleanupSteps ==
    ASSUME TypeOK, NEW k \in Conns, Cleanup(k)
    PROVE  RecordsStep("cleanup") /\ ConnTypes'
<1> DEFINE s == req[k].session
<1>0. ConnTypes
    BY DEF TypeOK, ConnTypes
<1>1. CASE Authenticated(req[k]) /\ Survives(s)
  <2>1. s \in Sessions /\ sessions[s].phase = "present"
    BY <1>1 DEF Survives, Present
  <2>2. sessions' = [Reclaimed EXCEPT ![s] = Blank("removed")] /\ UNCHANGED answered
        /\ Finish(k, Reply("ok", s, 0))
    BY <1>1 DEF Cleanup
  <2>3. RecordStep("cleanup", sessions[s], answered[s], Blank("removed"), answered[s])
    BY <2>1 DEF RecordStep
  <2>4. RecordsStep("cleanup")
    BY <2>1, <2>2, <2>3, OneRecordSteps
  <2>5. Reply("ok", s, 0) \in Answer
    BY <2>1, AnswerTypes
  <2> QED
    BY <1>0, <2>2, <2>4, <2>5, FinishTypes
<1>2. CASE ~(Authenticated(req[k]) /\ Survives(s))
  <2>1. sessions' = Refused(req[k]) /\ Finish(k, Failed) /\ UNCHANGED answered
    BY <1>2 DEF Cleanup
  <2> QED
    BY <1>0, <2>1, RefusedSteps, FinishTypes, AnswerTypes
<1> QED
    BY <1>1, <1>2

\* A callback changes one record and what was answered of it.
LEMMA OneSessionSteps ==
    ASSUME NEW op, TypeOK, NEW s \in Sessions, NEW y, NEW B, sessions' = [sessions EXCEPT ![s] = y],
           answered' = [answered EXCEPT ![s] = B], RecordStep(op, sessions[s], answered[s], y, B)
    PROVE  RecordsStep(op)
<1>1. \A t \in Sessions : /\ sessions'[t] = IF t = s THEN y ELSE sessions[t]
                          /\ answered'[t] = IF t = s THEN B ELSE answered[t]
    BY DEF TypeOK
<1>2. \A t \in Sessions : RecordStep(op, sessions[t], answered[t], sessions'[t], answered'[t])
    BY <1>1 DEF RecordStep, Kept
<1>3. /\ sessions' = [t \in Sessions |-> sessions'[t]]
      /\ answered' = [t \in Sessions |-> answered'[t]]
    BY DEF TypeOK
<1> QED
    BY <1>2, <1>3 DEF RecordsStep

LEMMA ObserveCallbackSteps ==
    ASSUME TypeOK, NEW k \in Conns, ObserveCallback(k)
    PROVE  RecordsStep("callback") /\ ConnTypes'
<1> DEFINE s == req[k].session
           c == req[k].callback
<1>0. ConnTypes'
    BY ReleaseTypes DEF ObserveCallback, TypeOK, ConnTypes
<1>1. CASE ~Accepts(s, c)
    BY <1>0, <1>1, NothingMoves DEF ObserveCallback
<1>2. CASE Accepts(s, c)
  <2>1. s \in Sessions /\ sessions[s].phase = "present" /\ sessions[s].life > 0
        /\ c \in sessions[s].callbacks
    BY <1>2 DEF Accepts, Present
  <2>2. answered' = [answered EXCEPT ![s] = answered[s] \cup {c}]
    BY <1>2 DEF ObserveCallback
  <2>3. \/ sessions' = [sessions EXCEPT ![s] = Observed(sessions[s], c)]
        \/ sessions' = [sessions EXCEPT ![s] = EntropyFailed(sessions[s], c)]
    BY <1>2 DEF ObserveCallback
  <2>4. ASSUME NEW y, y = Observed(sessions[s], c) \/ y = EntropyFailed(sessions[s], c)
        PROVE  RecordStep("callback", sessions[s], answered[s], y, answered[s] \cup {c})
    BY <2>1, <2>4 DEF RecordStep, Hears
  <2>5. RecordsStep("callback")
    BY <2>1, <2>2, <2>3, <2>4, OneSessionSteps
  <2> QED
    BY <1>0, <2>5
<1> QED
    BY <1>1, <1>2

LEMMA MarkIncompleteSteps ==
    ASSUME TypeOK, NEW k \in Conns, MarkIncomplete(k)
    PROVE  RecordsStep("callback") /\ ConnTypes'
<1> DEFINE s == req[k].session
           c == req[k].callback
<1>0. ConnTypes'
    BY ReleaseTypes DEF MarkIncomplete, TypeOK, ConnTypes
<1>1. CASE ~(s \in Present /\ c \in sessions[s].callbacks)
    BY <1>0, <1>1, NothingMoves DEF MarkIncomplete, Accepts
<1>2. CASE s \in Present /\ c \in sessions[s].callbacks
  <2>1. s \in Sessions /\ sessions[s].phase = "present" /\ c \in sessions[s].callbacks
    BY <1>2 DEF Present
  <2>2. sessions' = [sessions EXCEPT ![s] = Marked(sessions[s])]
    BY <1>2 DEF MarkIncomplete
  <2> DEFINE B == IF Accepts(s, c) THEN answered[s] \cup {c} ELSE answered[s]
  <2>3. answered' = [answered EXCEPT ![s] = B]
    BY <1>2, <2>1 DEF MarkIncomplete, TypeOK
  <2>4. RecordStep("callback", sessions[s], answered[s], Marked(sessions[s]), B)
    BY <2>1 DEF RecordStep, Misses
  <2> HIDE DEF B
  <2>5. RecordsStep("callback")
    BY <2>1, <2>2, <2>3, <2>4, OneSessionSteps
  <2> QED
    BY <1>0, <2>5
<1> QED
    BY <1>1, <1>2

\* Whatever the provider does, it does it record by record.
LEMMA ProviderSteps ==
    ASSUME PInv, ProviderStep
    PROVE  (\E op : RecordsStep(op)) /\ ConnTypes'
<1>0. TypeOK
    BY DEF PInv
<1>1. CASE Server
    BY <1>0, <1>1, RegisterSteps, AllocateSteps, PollSteps, CleanupSteps, ObserveCallbackSteps,
        MarkIncompleteSteps, TimeoutSteps DEF Server, Handle
<1> QED
    BY <1>0, <1>1, ArriveSteps, ForgetSteps, AgeSteps DEF ProviderStep

LEMMA RecordsStayWhole ==
    ASSUME NEW op, PInv, RecordsStep(op), ConnTypes'
    PROVE  PInv'
<1>1. ASSUME NEW s \in Sessions
      PROVE  /\ sessions'[s] \in SessionState
             /\ answered'[s] \in SUBSET Callbacks
             /\ Whole(sessions'[s], answered'[s])
  <2> DEFINE x == sessions[s]
             y == sessions'[s]
             A == answered[s]
             B == answered'[s]
  <2>1. x \in SessionState /\ A \in SUBSET Callbacks /\ Whole(x, A)
    BY DEF PInv, TypeOK
  <2>2. RecordStep(op, x, A, y, B)
    BY DEF RecordsStep
  <2> HIDE DEF x, y, A, B
  <2>3. B \in SUBSET Callbacks
    BY <2>1, <2>2, RecordTypes DEF RecordStep, Hears, Misses
  <2>4. y \in SessionState /\ Whole(y, B)
    BY <2>1, <2>2, RecordStaysWhole
  <2> QED
    BY <2>3, <2>4 DEF y, B
<1>2. sessions' \in [Sessions -> SessionState] /\ answered' \in [Sessions -> SUBSET Callbacks]
    BY <1>1 DEF RecordsStep
<1> QED
    BY <1>1, <1>2 DEF PInv, TypeOK, ConnTypes

LEMMA ProviderInvariant == PInv /\ [ProviderStep]_vars => PInv'
<1> SUFFICES ASSUME PInv, [ProviderStep]_vars PROVE PInv'
    OBVIOUS
<1>1. CASE ProviderStep
    BY <1>1, ProviderSteps, RecordsStayWhole
<1>2. CASE UNCHANGED vars
    BY <1>2 DEF PInv, TypeOK, vars
<1> QED
    BY <1>1, <1>2

LEMMA InitPInv == Init => PInv
<1> SUFFICES ASSUME Init PROVE PInv
    OBVIOUS
<1>1. Blank("unborn") \in SessionState /\ Dense(Blank("unborn"))
    BY BlankIsDense
<1>2. Blank("unborn").phase = "unborn"
    BY DEF Blank
<1>3. TypeOK
    BY <1>1, AnswerTypes DEF Init, TypeOK
<1>4. \A s \in Sessions : Whole(sessions[s], answered[s])
    BY <1>1, <1>2 DEF Init, Whole
<1> QED
    BY <1>3, <1>4 DEF PInv

LEMMA RequestsAreTyped ==
    ASSUME NEW r \in Requests
    PROVE  r \in Request
<1>1. CASE r \in {Ask("register", NoSession, 0, 0, v) : v \in BOOLEAN}
    BY <1>1 DEF Request, Ask
<1>2. CASE r \in {Ask(op, s, 0, 0, v) :
                      op \in {"allocate", "cleanup"}, s \in Sessions, v \in BOOLEAN}
    BY <1>2 DEF Request, Ask
<1>3. CASE r \in {Ask("poll", s, 0, a, v) :
                      s \in Sessions, a \in 0 .. (max_events + 1), v \in BOOLEAN}
  <2>1. PICK s \in Sessions, a \in 0 .. (max_events + 1), v \in BOOLEAN :
            r = Ask("poll", s, 0, a, v)
    BY <1>3
  <2>2. a \in Nat
    OBVIOUS
  <2> QED
    BY <2>1, <2>2 DEF Request, Ask
<1>4. CASE r \in {Ask("callback", s, c, 0, TRUE) : s \in Sessions, c \in Callbacks}
  <2>1. PICK s \in Sessions, c \in Callbacks : r = Ask("callback", s, c, 0, TRUE)
    BY <1>4 DEF Ask
  <2> QED
    BY <2>1 DEF Request, Ask
<1> QED
    BY <1>1, <1>2, <1>3, <1>4 DEF Requests, Ask

\* The provider alone, whoever its clients are: its sessions stay whole.
THEOREM ProviderInvariance == Spec => []PInv
<1>1. Next => ProviderStep
    BY RequestsAreTyped DEF Next, ProviderStep, Tick
<1> QED
    BY <1>1, InitPInv, ProviderInvariant, PTL DEF Spec

\* Whatever its clients send, with whatever cursors and credentials, and whatever is
\* refused admission or dropped while it waits: pages called complete are, no event is
\* skipped between two pages, and the cursors leave no gap (poll_bearer_at over
\* observe_callback_at).
THEOREM ProviderPagesWhole == Spec => []PagesAreWhole
BY ProviderInvariance, WholePages, PTL

-----------------------------------------------------------------------------
(***************************************************************************)
(* What the adapter relies on of the provider's steps                      *)
(***************************************************************************)

\* A record only moves on: it does not come back, and it gets new events beyond its last
\* cursor only.
Later(x, A, y, B) ==
    /\ A \subseteq B
    /\ x.phase # "unborn" => y.phase # "unborn"
    /\ x.phase = "removed" => y.phase = "removed"
    /\ x.phase = "present" /\ y.phase = "present" =>
          /\ x.next_cursor <= y.next_cursor
          /\ \A c \in Callbacks :
                y.cursor[c] = x.cursor[c] \/ (x.cursor[c] = 0 /\ y.cursor[c] > x.next_cursor)

LEMMA ObservedLater ==
    ASSUME NEW x \in SessionState, NEW c \in x.callbacks,
           NEW y, y = Observed(x, c) \/ y = EntropyFailed(x, c)
    PROVE  /\ y.phase = x.phase /\ y.life = x.life /\ y.keep = x.keep /\ y.polls = x.polls
           /\ x.next_cursor <= y.next_cursor
           /\ \A d \in Callbacks :
                 y.cursor[d] = x.cursor[d] \/ (x.cursor[d] = 0 /\ y.cursor[d] > x.next_cursor)
<1>0. c \in Callbacks /\ x.next_cursor \in Nat /\ x.cursor \in [Callbacks -> 0 .. max_events]
    BY RecordTypes
<1>1. \/ y = [x EXCEPT !.duplicates[c] = @ + 1] \/ y = [x EXCEPT !.incomplete = TRUE]
      \/ /\ y = [x EXCEPT !.next_cursor = @ + 1, !.cursor[c] = x.next_cursor + 1]
         /\ ~HasEvent(x, c)
    BY DEF Observed, EntropyFailed, Duplicate, NewEvent, AtEventLimit, Marked
<1>2. CASE y = [x EXCEPT !.duplicates[c] = @ + 1] \/ y = [x EXCEPT !.incomplete = TRUE]
  <2>1. /\ y.phase = x.phase /\ y.life = x.life /\ y.keep = x.keep /\ y.polls = x.polls
        /\ y.next_cursor = x.next_cursor /\ y.cursor = x.cursor
    BY <1>2 DEF SessionState
  <2> QED
    BY <1>0, <2>1
<1>3. CASE /\ y = [x EXCEPT !.next_cursor = @ + 1, !.cursor[c] = x.next_cursor + 1]
           /\ ~HasEvent(x, c)
  <2>1. /\ y.phase = x.phase /\ y.life = x.life /\ y.keep = x.keep /\ y.polls = x.polls
        /\ y.next_cursor = x.next_cursor + 1
        /\ y.cursor = [x.cursor EXCEPT ![c] = x.next_cursor + 1]
    BY <1>3 DEF SessionState
  <2>2. x.cursor[c] = 0
    BY <1>0, <1>3 DEF HasEvent
  <2> QED
    BY <1>0, <2>1, <2>2
<1> QED
    BY <1>1, <1>2, <1>3

LEMMA RecordLater ==
    ASSUME NEW op, NEW x \in SessionState, NEW A, NEW y, NEW B, RecordStep(op, x, A, y, B)
    PROVE  Later(x, A, y, B)
<1>0. x.next_cursor \in Nat
    BY RecordTypes
<1>1. CASE B = A /\ (y = x \/ y = Aged(x) \/ Extended(x, y) \/ Charged(x, y))
  <2>1. y.phase = x.phase /\ y.next_cursor = x.next_cursor /\ y.cursor = x.cursor
    BY <1>1 DEF Aged, Extended, Charged, SessionState
  <2> QED
    BY <1>0, <1>1, <2>1 DEF Later
<1>2. CASE B = A /\ x.phase = "present" /\ y = Blank("removed")
    BY <1>2 DEF Later, Blank
<1>3. CASE B = A /\ x.phase = "unborn" /\ y = Fresh
    BY <1>3 DEF Later, Fresh, Blank
<1>4. CASE Hears(x, A, y, B)
  <2>1. PICK c \in x.callbacks : /\ y = Observed(x, c) \/ y = EntropyFailed(x, c)
                                 /\ B = A \cup {c} /\ x.phase = "present"
    BY <1>4 DEF Hears
  <2> QED
    BY <2>1, ObservedLater DEF Later
<1>5. CASE Misses(x, A, y, B)
  <2>1. A \subseteq B /\ y.phase = x.phase /\ y.next_cursor = x.next_cursor /\ y.cursor = x.cursor
        /\ x.phase = "present"
    BY <1>5 DEF Misses, Marked, SessionState
  <2> QED
    BY <1>0, <2>1 DEF Later
<1> QED
    BY <1>1, <1>2, <1>3, <1>4, <1>5 DEF RecordStep, Kept

AllLater ==
    \A s \in Sessions : Later(sessions[s], answered[s], sessions'[s], answered'[s])

\* What the adapter has seen, and what a page on its way to it says, stays true as long as
\* the adapter does not move.
SameView == UNCHANGED <<ad, settled>>

LEMMA SessionWasPresent ==
    ASSUME AInv, AllLater, SameView, ad'.session \in Present'
    PROVE  ad.session \in Present /\ ad'.session = ad.session
<1>1. ad'.session = ad.session
    BY DEF SameView
<1>2. ad.session \in Sessions /\ sessions'[ad.session].phase = "present"
    BY <1>1 DEF Present
<1>3. ad.session # NoSession
    BY <1>2, SessionsAssumption
<1>4. sessions[ad.session].phase # "unborn"
    BY <1>3 DEF AInv, LifecycleInStep
<1>5. sessions[ad.session].phase # "removed"
    BY <1>2 DEF AllLater, Later
<1>6. sessions[ad.session].phase \in {"unborn", "present", "removed"}
    BY <1>2, RecordTypes DEF AInv, PInv, TypeOK
<1> QED
    BY <1>1, <1>2, <1>4, <1>5, <1>6 DEF Present

LEMMA CursorsStay ==
    ASSUME AInv, PInv', AllLater, NEW s \in Sessions, sessions[s].phase = "present",
           sessions'[s].phase = "present", NEW n \in 0 .. sessions[s].next_cursor,
           NEW c \in Callbacks
    PROVE  /\ sessions[s].cursor[c] \in Nat /\ sessions'[s].cursor[c] \in Nat
           /\ n <= sessions'[s].next_cursor /\ n \in Nat
           /\ sessions'[s].cursor[c] <= n /\ sessions'[s].cursor[c] > 0
                 <=> sessions[s].cursor[c] <= n /\ sessions[s].cursor[c] > 0
           /\ \A m \in 0 .. n :
                 m < sessions'[s].cursor[c] /\ sessions'[s].cursor[c] <= n
                     <=> m < sessions[s].cursor[c] /\ sessions[s].cursor[c] <= n
<1> DEFINE i == sessions[s].cursor[c]
           j == sessions'[s].cursor[c]
           u == sessions[s].next_cursor
           v == sessions'[s].next_cursor
<1>1. i \in Nat /\ u \in Nat
    BY RecordTypes DEF AInv, PInv, TypeOK
<1>2. j \in Nat /\ v \in Nat
    BY RecordTypes DEF PInv, TypeOK
<1>3. u <= v /\ (j = i \/ (i = 0 /\ j > u))
    BY DEF AllLater, Later
<1>4. n \in 0 .. u
    OBVIOUS
<1> HIDE DEF i, j, u, v
<1>5. n \in Nat /\ n <= u /\ n <= v
    BY <1>1, <1>2, <1>3, <1>4
<1>6. j <= n /\ j > 0 <=> i <= n /\ i > 0
    BY <1>1, <1>2, <1>3, <1>5
<1>7. \A m \in 0 .. n : m < j /\ j <= n <=> m < i /\ i <= n
    BY <1>1, <1>2, <1>3, <1>5
<1> QED
    BY <1>1, <1>2, <1>5, <1>6, <1>7 DEF i, j, u, v

LEMMA ObservationsStay ==
    ASSUME AInv, PInv', AllLater, SameView
    PROVE  CursorInRange' /\ ObservationsAreExact'
<1>1. CursorInRange' /\ CursorMatchesSeen'
  <2>1. SUFFICES ASSUME ad'.session \in Present'
                 PROVE  /\ ad'.cursor <= sessions'[ad'.session].next_cursor
                        /\ ad'.seen = {c \in Callbacks :
                               /\ HasEvent(sessions'[ad'.session], c)
                               /\ sessions'[ad'.session].cursor[c] <= ad'.cursor}
    BY DEF CursorInRange, CursorMatchesSeen
  <2>2. ad.session \in Present /\ ad' = ad
    BY <2>1, SessionWasPresent DEF SameView
  <2> DEFINE s == ad.session
             n == ad.cursor
  <2>3. /\ s \in Sessions /\ sessions[s].phase = "present" /\ sessions'[s].phase = "present"
        /\ sessions[s].next_cursor \in Nat /\ n \in Nat
    BY <2>1, <2>2, RecordTypes DEF Present, AInv, PInv, TypeOK, AdTypeOK
  <2>4. n \in 0 .. sessions[s].next_cursor
    BY <2>2, <2>3 DEF AInv, CursorInRange
  <2>5. ad.seen = {c \in Callbacks : HasEvent(sessions[s], c) /\ sessions[s].cursor[c] <= n}
    BY <2>2 DEF AInv, ObservationsAreExact, CursorMatchesSeen
  <2> HIDE DEF s, n
  <2>6. \A c \in Callbacks :
            HasEvent(sessions'[s], c) /\ sessions'[s].cursor[c] <= n
                <=> HasEvent(sessions[s], c) /\ sessions[s].cursor[c] <= n
    BY <2>3, <2>4, CursorsStay DEF HasEvent
  <2>7. n <= sessions'[s].next_cursor
    <3>1. sessions[s].next_cursor <= sessions'[s].next_cursor
      BY <2>3 DEF AllLater, Later
    <3>2. sessions'[s].next_cursor \in Nat
      BY <2>3, RecordTypes DEF PInv, TypeOK
    <3> QED
      BY <2>3, <2>4, <3>1, <3>2
  <2> QED
    BY <2>2, <2>5, <2>6, <2>7 DEF s, n
<1>2. SeenIsWholeAndTrue'
  <2>1. \A s \in Sessions : answered[s] \subseteq answered'[s]
    BY DEF AllLater, Later
  <2>2. ad'.seen = ad.seen /\ settled' = settled
    BY DEF SameView
  <2> QED
    BY <2>1, <2>2 DEF AInv, ObservationsAreExact, SeenIsWholeAndTrue
<1> QED
    BY <1>1, <1>2 DEF ObservationsAreExact

NoBirth == \A s \in Sessions : sessions[s].phase = "unborn" => sessions'[s].phase = "unborn"

LEMMA NobodyReturns ==
    ASSUME AInv, PInv', AllLater, NoBirth, Present = {}
    PROVE  Present' = {}
<1> SUFFICES ASSUME NEW s \in Sessions, sessions'[s].phase = "present" PROVE FALSE
    BY DEF Present
<1>1. sessions[s].phase # "present"
    BY DEF Present
<1>2. sessions[s].phase \in {"unborn", "present", "removed"}
    BY RecordTypes DEF AInv, PInv, TypeOK
<1>3. sessions[s].phase = "unborn" => sessions'[s].phase = "unborn"
    BY DEF NoBirth
<1>4. sessions[s].phase = "removed" => sessions'[s].phase = "removed"
    BY DEF AllLater, Later
<1> QED
    BY <1>1, <1>2, <1>3, <1>4

LEMMA AnswerStays ==
    ASSUME AInv, PInv', AllLater, SameView, conn # NoConn, conn' = conn, call' = call,
           ans'[conn] = ans[conn], AnswerHolds(call, ans[conn]),
           NoBirth \/ call # "cleanup"
    PROVE  AnswerHolds(call, ans[conn])'
<1> DEFINE p == ans[conn]
<1>0. ans'[conn'] = p /\ conn \in Conns /\ p \in Answer
    BY DEF AInv, AdTypeOK, TypeOK
<1>1. call = "register" => p.session \in Sessions /\ sessions'[p.session].phase # "unborn"
    BY DEF AnswerHolds, AllLater, Later
<1>2. call = "allocate" => p.callback \in Callbacks
    BY DEF AnswerHolds
<1>3. call = "cleanup" => Present' = {}
    BY NobodyReturns DEF AnswerHolds
<1>4. ASSUME call = "poll"
      PROVE  /\ p.complete => p.owed \subseteq ad'.seen \cup p.events
             /\ p.events \subseteq UNION {answered'[s] : s \in Sessions}
             /\ ad'.session \in Present' =>
                   /\ p.next_cursor \in ad'.cursor .. sessions'[ad'.session].next_cursor
                   /\ p.events = {c \in Callbacks :
                         /\ ad'.cursor < sessions'[ad'.session].cursor[c]
                         /\ sessions'[ad'.session].cursor[c] <= p.next_cursor}
  <2>1. PageHolds(p) /\ ad' = ad
    BY <1>4 DEF AnswerHolds, SameView
  <2> HIDE DEF p
  <2>2. p.complete => p.owed \subseteq ad'.seen \cup p.events
    BY <2>1 DEF PageHolds
  <2>3. p.events \subseteq UNION {answered'[s] : s \in Sessions}
    <3>1. \A s \in Sessions : answered[s] \subseteq answered'[s]
      BY DEF AllLater, Later
    <3>2. p.events \subseteq UNION {answered[s] : s \in Sessions}
      BY <2>1 DEF PageHolds
    <3> QED
      BY <3>1, <3>2
  <2>4. ASSUME ad'.session \in Present'
        PROVE  /\ p.next_cursor \in ad'.cursor .. sessions'[ad'.session].next_cursor
               /\ p.events = {c \in Callbacks :
                     /\ ad'.cursor < sessions'[ad'.session].cursor[c]
                     /\ sessions'[ad'.session].cursor[c] <= p.next_cursor}
    <3>1. ad.session \in Present
      BY <2>4, SessionWasPresent
    <3> DEFINE s == ad.session
               m == ad.cursor
               n == p.next_cursor
    <3>2. /\ s \in Sessions /\ sessions[s].phase = "present" /\ sessions'[s].phase = "present"
          /\ sessions[s].next_cursor \in Nat /\ m \in Nat
      BY <2>1, <2>4, <3>1, RecordTypes DEF Present, AInv, PInv, TypeOK, AdTypeOK
    <3>3. /\ n \in m .. sessions[s].next_cursor
          /\ p.events = {c \in Callbacks : /\ m < sessions[s].cursor[c]
                                           /\ sessions[s].cursor[c] <= n}
      BY <2>1, <3>1 DEF PageHolds
    <3> HIDE DEF s, m, n
    <3>4. n \in 0 .. sessions[s].next_cursor /\ m \in 0 .. n
      BY <3>2, <3>3
    <3>5. \A c \in Callbacks :
              m < sessions'[s].cursor[c] /\ sessions'[s].cursor[c] <= n
                  <=> m < sessions[s].cursor[c] /\ sessions[s].cursor[c] <= n
      BY <3>2, <3>4, CursorsStay
    <3>6. sessions[s].next_cursor <= sessions'[s].next_cursor /\ sessions'[s].next_cursor \in Nat
      BY <3>2, RecordTypes DEF AllLater, Later, PInv, TypeOK
    <3>7. n \in m .. sessions'[s].next_cursor
      BY <3>2, <3>3, <3>6
    <3> QED
      BY <2>1, <3>3, <3>5, <3>7 DEF s, m, n
  <2> QED
    BY <2>2, <2>3, <2>4
<1> HIDE DEF p
<1> QED
    BY <1>0, <1>1, <1>2, <1>3, <1>4 DEF AnswerHolds, PageHolds

-----------------------------------------------------------------------------
(***************************************************************************)
(* Steps the adapter has no part in                                        *)
(***************************************************************************)

\* What a record's life, its polls and its end owe to the request that was served.
LEMMA RecordFacts ==
    ASSUME NEW op, NEW x \in SessionState, NEW A, NEW y, NEW B, RecordStep(op, x, A, y, B)
    PROVE  /\ x.phase = "unborn" /\ op # "register" => y.phase = "unborn"
           /\ y.polls <= x.polls \/ (op = "poll" /\ y.polls = x.polls + 1)
           /\ y.phase = "present" =>
                 \/ x.phase = "present" /\ y.life = x.life
                 \/ x.phase = "present" /\ op = "tick" /\ y.life = Down(x.life)
                 \/ op = "register" /\ y.life = Lifetime
           /\ y.phase = "removed" =>
                 \/ x.phase = "removed"
                 \/ x.phase = "present" /\ x.keep = 0
                 \/ op = "cleanup"
<1>0. x.polls \in Nat /\ x.phase \in {"unborn", "present", "removed"}
    BY RecordTypes
<1>1. CASE y = x
    BY <1>0, <1>1
<1>2. CASE x.phase = "present" /\ y = Blank("removed") /\ (x.keep = 0 \/ op = "cleanup")
  <2>1. y.phase = "removed" /\ y.polls = 0
    BY <1>2 DEF Blank
  <2> QED
    BY <1>0, <1>2, <2>1
<1>3. CASE op = "register" /\ x.phase = "unborn" /\ y = Fresh
  <2>1. y.phase = "present" /\ y.polls = 0 /\ y.life = Lifetime
    BY <1>3 DEF Fresh, Blank
  <2> QED
    BY <1>0, <1>3, <2>1
<1>4. CASE op = "allocate" /\ Extended(x, y)
  <2>1. y.phase = x.phase /\ y.polls = x.polls /\ y.life = x.life /\ x.phase = "present"
    BY <1>4 DEF Extended, SessionState
  <2> QED
    BY <1>0, <2>1
<1>5. CASE op = "poll" /\ Charged(x, y)
  <2>1. y.phase = x.phase /\ y.polls = x.polls + 1 /\ y.life = x.life /\ x.phase = "present"
    BY <1>5 DEF Charged, SessionState
  <2> QED
    BY <1>0, <1>5, <2>1
<1>6. CASE op = "tick" /\ y = Aged(x)
  <2>1. y.phase = x.phase /\ y.polls = x.polls /\ y.life = Down(x.life)
    BY <1>6 DEF Aged, SessionState
  <2> QED
    BY <1>0, <1>6, <2>1
<1>7. CASE Hears(x, A, y, B)
  <2>1. PICK c \in x.callbacks : /\ y = Observed(x, c) \/ y = EntropyFailed(x, c)
                                 /\ x.phase = "present"
    BY <1>7 DEF Hears
  <2>2. y.phase = x.phase /\ y.polls = x.polls /\ y.life = x.life
    BY <2>1, ObservedLater
  <2> QED
    BY <1>0, <2>1, <2>2
<1>8. CASE Misses(x, A, y, B)
  <2>1. y.phase = x.phase /\ y.polls = x.polls /\ y.life = x.life /\ x.phase = "present"
    BY <1>8 DEF Misses, Marked, SessionState
  <2> QED
    BY <1>0, <2>1
<1> QED
    BY <1>1, <1>2, <1>3, <1>4, <1>5, <1>6, <1>7, <1>8 DEF RecordStep, Kept

\* A step of kind op, of the request k when it is one of the adapter's operations.
Serves(k, op) ==
    /\ RecordsStep(op)
    /\ op \in Operations => k \in Pending(op)
    /\ \A q \in Operations : Pending(q)' = Pending(q) \ {k}
    /\ \A s, t \in Sessions :
          /\ sessions[s].phase = "unborn" /\ sessions'[s].phase # "unborn"
          /\ sessions[t].phase = "unborn" /\ sessions'[t].phase # "unborn"
          => s = t

LEMMA ServedLater ==
    ASSUME AInv, NEW k, NEW op, Serves(k, op)
    PROVE  AllLater /\ (op # "register" => NoBirth)
<1>1. \A s \in Sessions : /\ sessions[s] \in SessionState
                          /\ RecordStep(op, sessions[s], answered[s], sessions'[s], answered'[s])
    BY DEF Serves, RecordsStep, AInv, PInv, TypeOK
<1>2. AllLater
    BY <1>1, RecordLater DEF AllLater
<1>3. op # "register" => NoBirth
    BY <1>1, RecordFacts DEF NoBirth
<1> QED
    BY <1>2, <1>3

\* A registration is served while its adapter has none yet.
LEMMA RegistrationIsFirst ==
    ASSUME AInv, NEW k, Serves(k, "register")
    PROVE  /\ Pending("register") = {k} /\ Pending("register")' = {}
           /\ ad.registration_attempted /\ ad.lifecycle = "Configured"
           /\ \A s \in Sessions : sessions[s].phase = "unborn"
<1>1. k \in Pending("register") /\ Pending("register")' = Pending("register") \ {k}
    BY DEF Serves, Operations
<1> QED
    BY <1>1 DEF AInv, OneSession

LEMMA OneSessionStays ==
    ASSUME AInv, NEW k, NEW op, Serves(k, op), ad' = ad
    PROVE  OneSession'
<1>0. Pending("register")' \subseteq Pending("register")
    BY DEF Serves, Operations
<1>1. CASE op = "register"
  <2>1. /\ Pending("register")' = {} /\ ad'.registration_attempted
        /\ \A s \in Sessions : sessions[s].phase = "unborn"
    BY <1>1, RegistrationIsFirst
  <2>2. \A s, t \in Sessions :
            sessions'[s].phase # "unborn" /\ sessions'[t].phase # "unborn" => s = t
    BY <2>1 DEF Serves
  <2> QED
    BY <2>1, <2>2 DEF OneSession
<1>2. CASE op # "register"
  <2>1. \A s \in Sessions : sessions[s].phase = "unborn" => sessions'[s].phase = "unborn"
    BY <1>2, ServedLater DEF NoBirth
  <2>2. ad'.registration_attempted = ad.registration_attempted /\ ad'.lifecycle = ad.lifecycle
    OBVIOUS
  <2>3. OneSession
    BY DEF AInv
  <2>4. \A s, t \in Sessions :
            sessions'[s].phase # "unborn" /\ sessions'[t].phase # "unborn" => s = t
    BY <2>1, <2>3 DEF OneSession
  <2>5. \A i, j \in Pending("register")' : i = j
    BY <1>0, <2>3 DEF OneSession
  <2>6. Pending("register")' # {} \/ ~ad'.registration_attempted =>
            \A s \in Sessions : sessions'[s].phase = "unborn"
    BY <1>0, <2>1, <2>2, <2>3 DEF OneSession
  <2>7. ~ad'.registration_attempted \/ ad'.lifecycle # "Configured" => Pending("register")' = {}
    BY <1>0, <2>2, <2>3 DEF OneSession
  <2> QED
    BY <2>4, <2>5, <2>6, <2>7 DEF OneSession
<1> QED
    BY <1>1, <1>2

LEMMA PollsStayCharged ==
    ASSUME AInv, PInv', NEW k, NEW op, Serves(k, op), ad' = ad
    PROVE  PollsAreCharged'
<1> DEFINE P == Pending("poll")
           Q == Pending("poll")'
           n == Cardinality(P)
           m == Cardinality(Q)
<1>1. IsFiniteSet(P) /\ Q = P \ {k}
    BY DEF AInv, PollsAreCharged, Serves, Operations
<1>2. IsFiniteSet(Q) /\ n \in Nat /\ m \in Nat /\ m <= n /\ (k \in P => m = n - 1)
  <2> HIDE DEF P, Q
  <2>1. IsFiniteSet(Q) /\ m = IF k \in P THEN n - 1 ELSE n
    BY <1>1, FS_RemoveElement
  <2>2. n \in Nat /\ m \in Nat
    BY <1>1, <2>1, FS_CardinalityType
  <2> QED
    BY <2>1, <2>2
<1>3. ASSUME NEW s \in Sessions
      PROVE  sessions'[s].polls + m <= ad'.poll_attempts
  <2> DEFINE i == sessions[s].polls
             j == sessions'[s].polls
             a == ad.poll_attempts
  <2>1. i \in Nat /\ a \in Nat
    BY RecordTypes DEF AInv, PInv, TypeOK, AdTypeOK
  <2>2. j \in Nat
    BY RecordTypes DEF PInv, TypeOK
  <2>3. i + n <= a
    BY DEF AInv, PollsAreCharged
  <2>4. j <= i \/ (op = "poll" /\ j = i + 1)
    BY RecordFacts DEF AInv, PInv, TypeOK, Serves, RecordsStep
  <2>5. op = "poll" => k \in P
    BY DEF Serves, Operations
  <2>6. a = ad'.poll_attempts
    OBVIOUS
  <2> HIDE DEF i, j, a, P, Q, n, m
  <2>7. j + m <= a
    BY <1>2, <2>1, <2>2, <2>3, <2>4, <2>5
  <2> QED
    BY <2>6, <2>7 DEF j
<1> QED
    BY <1>2, <1>3 DEF PollsAreCharged

LEMMA SessionStillLives ==
    ASSUME AInv, PInv', NEW k, NEW op, Serves(k, op), ad' = ad,
           left' = IF op = "tick" THEN Down(left) ELSE left
    PROVE  SessionLives'
<1>0. left \in Nat /\ left <= Lifetime /\ Lifetime \in Nat
    BY LimitsAssumption DEF AInv, AdTypeOK
<1>1. left' \in Nat /\ left' <= left /\ left' <= Lifetime
    BY <1>0 DEF Down
<1>2. \A s \in Sessions : /\ sessions[s] \in SessionState
                          /\ RecordStep(op, sessions[s], answered[s], sessions'[s], answered'[s])
    BY DEF Serves, RecordsStep, AInv, PInv, TypeOK
<1>3. ASSUME NEW s \in Sessions, sessions'[s].phase = "present"
      PROVE  left' <= sessions'[s].life
  <2> DEFINE i == sessions[s].life
             j == sessions'[s].life
  <2>1. i \in Nat
    BY <1>2, RecordTypes
  <2>2. \/ sessions[s].phase = "present" /\ j = i
        \/ sessions[s].phase = "present" /\ op = "tick" /\ j = Down(i)
        \/ op = "register" /\ j = Lifetime
    BY <1>2, <1>3, RecordFacts
  <2>3. sessions[s].phase = "present" => left <= i
    BY DEF AInv, SessionLives
  <2> HIDE DEF i, j
  <2>4. op = "tick" => left' = Down(left)
    OBVIOUS
  <2>5. left <= i => Down(left) <= Down(i)
    BY <1>0, <2>1 DEF Down
  <2>6. left' <= j
    BY <1>0, <1>1, <2>1, <2>2, <2>3, <2>4, <2>5
  <2> QED
    BY <2>6 DEF j
<1>4. ASSUME NEW s \in Sessions, sessions'[s].phase = "removed"
      PROVE  left' = 0 \/ ad'.cleanup_attempted
  <2>1. CASE sessions[s].phase = "removed"
    BY <1>0, <1>1, <2>1 DEF AInv, SessionLives
  <2>2. CASE sessions[s].phase = "present" /\ sessions[s].keep = 0
    <3>1. sessions[s].life <= sessions[s].keep /\ left <= sessions[s].life
      BY <2>2 DEF AInv, PInv, Whole, SessionLives
    <3>2. sessions[s].life \in Nat
      BY <1>2, RecordTypes
    <3> QED
      BY <1>0, <1>1, <2>2, <3>1, <3>2
  <2>3. CASE op = "cleanup"
    <3>1. Pending("cleanup") # {}
      BY <2>3 DEF Serves, Operations
    <3> QED
      BY <3>1 DEF AInv, SessionLives
  <2> QED
    BY <1>2, <1>4, <2>1, <2>2, <2>3, RecordFacts
<1>5. Pending("cleanup")' # {} => ad'.cleanup_attempted
  <2>1. Pending("cleanup")' \subseteq Pending("cleanup")
    BY DEF Serves, Operations
  <2> QED
    BY <2>1 DEF AInv, SessionLives
<1> QED
    BY <1>3, <1>4, <1>5 DEF SessionLives

LEMMA LifecycleStays ==
    ASSUME AInv, AllLater, SameView, call' = call
    PROVE  LifecycleInStep'
<1>1. ad' = ad /\ settled' = settled
    BY DEF SameView
<1>2. ad.session # NoSession => sessions'[ad.session].phase # "unborn"
    BY DEF AInv, LifecycleInStep, AllLater, Later, AdTypeOK
<1> QED
    BY <1>1, <1>2 DEF AInv, LifecycleInStep

\* Nothing of the adapter is registered any more once it has begun to clean up.
LEMMA ClosedForGood ==
    ASSUME AInv, NEW k, NEW op, Serves(k, op), ad.lifecycle = "Closed"
    PROVE  NoBirth
<1>1. op # "register"
    BY RegistrationIsFirst
<1> QED
    BY <1>1, ServedLater

LEMMA CleanupStaysFinal ==
    ASSUME AInv, PInv', NEW k, NEW op, Serves(k, op), ad' = ad
    PROVE  VerifiedCleanupIsFinal' /\ (ad'.cleanup_verified => ad'.cleanup_attempted)
<1>1. ad.cleanup_verified => ad.cleanup_attempted /\ ad.lifecycle = "Closed" /\ Present = {}
    BY DEF AInv, LifecycleInStep, VerifiedCleanupIsFinal, Present
<1>2. ad.cleanup_verified => Present' = {}
    BY <1>1, ClosedForGood, ServedLater, NobodyReturns
<1> QED
    BY <1>1, <1>2 DEF VerifiedCleanupIsFinal, Present

\* The request the adapter waits for is left alone, or it is answered truly.
CallSettles ==
    conn # NoConn =>
        \/ stage'[conn] = stage[conn] /\ req'[conn] = req[conn] /\ ans'[conn] = ans[conn]
        \/ /\ stage[conn] = "admitted" /\ stage'[conn] = "answered" /\ req'[conn] = req[conn]
           /\ ans'[conn].status = "ok" => AnswerHolds(call, ans[conn])'

LEMMA CallStays ==
    ASSUME AInv, PInv', NEW k, NEW op, Serves(k, op), SameView, conn' = conn, call' = call,
           CallSettles
    PROVE  CallInStep'
<1> SUFFICES ASSUME conn # NoConn
             PROVE  /\ call # "none"
                    /\ stage'[conn] \in {"admitted", "answered"}
                    /\ req'[conn].op = call /\ req'[conn].session = ad.session
                    /\ call = "poll" => req'[conn].after = ad.cursor
                    /\ stage'[conn] = "answered" /\ ans'[conn].status = "ok" =>
                          AnswerHolds(call, ans[conn])'
    BY DEF CallInStep, SameView
<1>1. CallInStep /\ AllLater
    BY ServedLater DEF AInv
<1>2. CASE stage'[conn] = stage[conn] /\ req'[conn] = req[conn] /\ ans'[conn] = ans[conn]
  <2>1. call = "cleanup" => NoBirth
    BY ClosedForGood DEF AInv, LifecycleInStep
  <2>2. stage'[conn] = "answered" /\ ans'[conn].status = "ok" => AnswerHolds(call, ans[conn])
    BY <1>1, <1>2 DEF CallInStep
  <2>3. AnswerHolds(call, ans[conn]) => AnswerHolds(call, ans[conn])'
    BY <1>1, <1>2, <2>1, AnswerStays
  <2> QED
    BY <1>1, <1>2, <2>2, <2>3 DEF CallInStep
<1>3. CASE /\ stage[conn] = "admitted" /\ stage'[conn] = "answered" /\ req'[conn] = req[conn]
           /\ ans'[conn].status = "ok" => AnswerHolds(call, ans[conn])'
    BY <1>1, <1>3 DEF CallInStep
<1> QED
    BY <1>2, <1>3 DEF CallSettles

LEMMA BackgroundKeeps ==
    ASSUME AInv, PInv', NEW k, NEW op, Serves(k, op), CallSettles,
           UNCHANGED <<ad, call, conn, result, receipts, settled>>, cancelled' \in BOOLEAN,
           left' = IF op = "tick" THEN Down(left) ELSE left
    PROVE  AInv'
<1>0. AllLater /\ SameView /\ ad' = ad /\ call' = call /\ conn' = conn
    BY ServedLater DEF SameView
<1>1. left' \in 0 .. Lifetime
  <2>1. left \in 0 .. Lifetime /\ Lifetime \in Nat
    BY LimitsAssumption DEF AInv, AdTypeOK
  <2> QED
    BY <2>1 DEF Down
<1>2. AdTypeOK'
    BY <1>1 DEF AInv, AdTypeOK, PInv
<1>3. OneSession'
    BY <1>0, OneSessionStays
<1>4. PollsAreCharged'
    BY <1>0, PollsStayCharged
<1>5. SessionLives'
    BY <1>0, SessionStillLives
<1>6. RequestsAreCounted'
    BY <1>0 DEF AInv, RequestsAreCounted
<1>7. LifecycleInStep'
    BY <1>0, LifecycleStays
<1>8. CallInStep'
    BY <1>0, CallStays
<1>9. CursorInRange' /\ ObservationsAreExact'
    BY <1>0, ObservationsStay
<1>10. VerifiedCleanupIsFinal' /\ (ad'.cleanup_verified => ad'.cleanup_attempted)
    BY <1>0, CleanupStaysFinal
<1> QED
    BY <1>2, <1>3, <1>4, <1>5, <1>6, <1>7, <1>8, <1>9, <1>10 DEF AInv

\* The request a connection is done with leaves the others alone.
LEMMA FinishLeaves ==
    ASSUME PInv, NEW k \in Conns, NEW a, Finish(k, a)
    PROVE  /\ stage'[k] = "answered" /\ ans'[k] = a /\ req'[k] = req[k]
           /\ \A j \in Conns \ {k} :
                 stage'[j] = stage[j] /\ req'[j] = req[j] /\ ans'[j] = ans[j]
           /\ \A q \in Operations : Pending(q)' = Pending(q) \ {k}
<1>1. /\ stage'[k] = "answered" /\ ans'[k] = a /\ req'[k] = req[k]
      /\ \A j \in Conns \ {k} : stage'[j] = stage[j] /\ req'[j] = req[j] /\ ans'[j] = ans[j]
    BY DEF PInv, TypeOK, Finish
<1> QED
    BY <1>1 DEF Pending, Handles

LEMMA ReleaseLeaves ==
    ASSUME PInv, NEW k \in Conns, Release(k)
    PROVE  /\ \A j \in Conns \ {k} :
                 stage'[j] = stage[j] /\ req'[j] = req[j] /\ ans'[j] = ans[j]
           /\ \A q \in Operations : Pending(q)' = Pending(q) \ {k}
<1>1. /\ stage'[k] = "idle"
      /\ \A j \in Conns \ {k} : stage'[j] = stage[j] /\ req'[j] = req[j] /\ ans'[j] = ans[j]
    BY DEF PInv, TypeOK, Release
<1> QED
    BY <1>1 DEF Pending, Handles

LEMMA CallIsManaged ==
    ASSUME AInv, conn # NoConn
    PROVE  /\ conn \in Conns /\ stage[conn] \in {"admitted", "answered"}
           /\ req[conn].op = call /\ call \in Operations
           /\ req[conn].session = ad.session /\ (call = "poll" => req[conn].after = ad.cursor)
BY DEF AInv, CallInStep, AdTypeOK

\* Without a birth, the last condition of Serves is void.
LEMMA ServesQuietly ==
    ASSUME AInv, NEW k, NEW op, RecordsStep(op), op # "register",
           op \in Operations => k \in Pending(op),
           \A q \in Operations : Pending(q)' = Pending(q) \ {k}
    PROVE  Serves(k, op)
<1>1. \A s \in Sessions : sessions[s].phase = "unborn" => sessions'[s].phase = "unborn"
    BY RecordFacts DEF RecordsStep, AInv, PInv, TypeOK
<1> QED
    BY <1>1 DEF Serves

LEMMA ReleaseServes ==
    ASSUME AInv, NEW k \in Conns, RecordsStep("callback"), Release(k), k # conn
    PROVE  Serves(k, "callback") /\ CallSettles
<1>1. PInv
    BY DEF AInv
<1>2. Serves(k, "callback")
    BY <1>1, ReleaseLeaves, ServesQuietly DEF Operations
<1>3. CallSettles
    BY <1>1, ReleaseLeaves, CallIsManaged DEF CallSettles
<1> QED
    BY <1>2, <1>3

LEMMA ObserveCallbackServes ==
    ASSUME AInv, NEW k \in Conns, ObserveCallback(k)
    PROVE  Serves(k, "callback") /\ CallSettles
<1>1. RecordsStep("callback")
    BY ObserveCallbackSteps DEF AInv, PInv
<1>2. k # conn /\ Release(k)
    BY CallIsManaged, AdapterAssumption DEF ObserveCallback, Handles, Operations
<1> QED
    BY <1>1, <1>2, ReleaseServes

LEMMA MarkIncompleteServes ==
    ASSUME AInv, NEW k \in Conns, MarkIncomplete(k)
    PROVE  Serves(k, "callback") /\ CallSettles
<1>1. RecordsStep("callback")
    BY MarkIncompleteSteps DEF AInv, PInv
<1>2. k # conn /\ Release(k)
    BY CallIsManaged, AdapterAssumption DEF MarkIncomplete
<1> QED
    BY <1>1, <1>2, ReleaseServes

LEMMA ForgetServes ==
    ASSUME AInv, NEW k \in Conns, k # conn, Forget(k)
    PROVE  Serves(k, "callback") /\ CallSettles
<1>1. RecordsStep("callback") /\ Release(k)
    BY ForgetSteps DEF AInv, PInv, Forget
<1> QED
    BY <1>1, ReleaseServes

LEMMA TimeoutServes ==
    ASSUME AInv, NEW k \in Conns, Timeout(k)
    PROVE  Serves(k, "callback") /\ CallSettles
<1>1. RecordsStep("callback") /\ PInv
    BY TimeoutSteps DEF AInv, PInv
<1>2. CASE req[k].op = "callback"
  <2>1. Release(k)
    BY <1>2 DEF Timeout
  <2>2. k # conn
    BY <1>2, CallIsManaged, AdapterAssumption DEF Operations
  <2> QED
    BY <1>1, <2>1, <2>2, ReleaseServes
<1>3. CASE req[k].op # "callback"
  <2>1. Finish(k, Failed) /\ stage[k] \in {"admitted", "refused"}
    BY <1>3 DEF Timeout
  <2>2. Serves(k, "callback")
    BY <1>1, <2>1, FinishLeaves, ServesQuietly DEF Operations
  <2>3. Failed.status # "ok"
    BY DEF Failed, Reply
  <2>4. CallSettles
    BY <1>1, <2>1, <2>3, FinishLeaves, CallIsManaged DEF CallSettles
  <2> QED
    BY <2>2, <2>4
<1> QED
    BY <1>2, <1>3

\* A management request of kind op that was handled: when it is the adapter's, its answer
\* has to hold.
LEMMA HandledSettles ==
    ASSUME AInv, NEW k \in Conns, NEW op \in Operations, Handles(k, op), NEW a, Finish(k, a),
           conn' = conn, call' = call,
           k = conn /\ call = op /\ a.status = "ok" => AnswerHolds(op, a)'
    PROVE  CallSettles
<1>1. PInv
    BY DEF AInv
<1>2. /\ stage'[k] = "answered" /\ ans'[k] = a /\ req'[k] = req[k]
      /\ \A j \in Conns \ {k} : stage'[j] = stage[j] /\ req'[j] = req[j] /\ ans'[j] = ans[j]
    BY <1>1, FinishLeaves
<1> SUFFICES ASSUME conn # NoConn
             PROVE  \/ /\ stage'[conn] = stage[conn] /\ req'[conn] = req[conn]
                       /\ ans'[conn] = ans[conn]
                    \/ /\ stage[conn] = "admitted" /\ stage'[conn] = "answered"
                       /\ req'[conn] = req[conn]
                       /\ ans'[conn].status = "ok" => AnswerHolds(call, ans[conn])'
    BY DEF CallSettles
<1>3. CASE conn # k
    BY <1>2, <1>3, CallIsManaged
<1>4. CASE conn = k
  <2>1. stage[conn] = "admitted" /\ call = op
    BY <1>4, CallIsManaged DEF Handles
  <2>2. a.status = "ok" => AnswerHolds(call, ans[conn])'
    BY <1>2, <1>4, <2>1 DEF AnswerHolds, PageHolds
  <2> QED
    BY <1>2, <1>4, <2>1, <2>2
<1> QED
    BY <1>3, <1>4

LEMMA FailedSettles ==
    ASSUME AInv, NEW k \in Conns, NEW op \in Operations, Handles(k, op), Finish(k, Failed),
           conn' = conn, call' = call
    PROVE  CallSettles
<1>1. PICK a : a = Failed
    OBVIOUS
<1>2. a.status # "ok" /\ Finish(k, a)
    BY <1>1 DEF Failed, Reply, Finish
<1> QED
    BY <1>2, HandledSettles

\* Handling a request of the adapter's kinds takes it off the pending ones.
LEMMA FinishServes ==
    ASSUME AInv, NEW k \in Conns, NEW op \in Operations, Handles(k, op), NEW a, Finish(k, a),
           RecordsStep(op), op # "register"
    PROVE  Serves(k, op)
<1>1. PInv /\ k \in Pending(op)
    BY DEF AInv, Pending
<1>2. \A q \in Operations : Pending(q)' = Pending(q) \ {k}
    BY <1>1, FinishLeaves
<1> QED
    BY <1>1, <1>2, ServesQuietly

LEMMA RegisterServes ==
    ASSUME AInv, NEW k \in Conns, Register(k), UNCHANGED <<call, conn>>
    PROVE  Serves(k, "register") /\ CallSettles
<1>0. PInv /\ TypeOK /\ Handles(k, "register") /\ "register" \in Operations
    BY DEF AInv, PInv, Register, Operations
<1>1. RecordsStep("register") /\ k \in Pending("register")
    BY <1>0, RegisterSteps DEF Pending
<1>2. CASE Refuse(k) /\ (UNCHANGED sessions \/ sessions' = Reclaimed)
  <2>1. Finish(k, Failed)
    BY <1>2 DEF Refuse
  <2>2. CallSettles
    BY <1>0, <2>1, FailedSettles
  <2>3. \A q \in Operations : Pending(q)' = Pending(q) \ {k}
    BY <1>0, <2>1, FinishLeaves
  <2>4. \A s \in Sessions : sessions[s].phase = "unborn" => sessions'[s].phase = "unborn"
    BY <1>2 DEF Reclaimed, Reclaimable
  <2> QED
    BY <1>1, <2>2, <2>3, <2>4 DEF Serves
<1>3. ASSUME NEW s \in Sessions, sessions[s].phase = "unborn",
             sessions' = [Reclaimed EXCEPT ![s] = Fresh], Finish(k, Reply("ok", s, 0))
      PROVE  Serves(k, "register") /\ CallSettles
  <2>1. sessions'[s].phase = "present" /\ Reply("ok", s, 0).session = s
    BY <1>3 DEF Reclaimed, Fresh, Blank, Reply
  <2>2. \A t \in Sessions \ {s} : sessions[t].phase = "unborn" => sessions'[t].phase = "unborn"
    BY <1>3 DEF Reclaimed, Reclaimable
  <2>3. \A q \in Operations : Pending(q)' = Pending(q) \ {k}
    BY <1>0, <1>3, FinishLeaves
  <2>4. Serves(k, "register")
    BY <1>1, <2>2, <2>3 DEF Serves
  <2>5. PICK a : a = Reply("ok", s, 0)
    OBVIOUS
  <2>6. AnswerHolds("register", a)'
    BY <2>1, <2>5 DEF AnswerHolds
  <2>7. CallSettles
    BY <1>0, <1>3, <2>5, <2>6, HandledSettles
  <2> QED
    BY <2>4, <2>7
<1> QED
    BY <1>2, <1>3 DEF Register

LEMMA AllocateServes ==
    ASSUME AInv, NEW k \in Conns, Allocate(k), UNCHANGED <<call, conn>>
    PROVE  Serves(k, "allocate") /\ CallSettles
<1> DEFINE s == req[k].session
           c == Cardinality(sessions[s].callbacks) + 1
<1>0. PInv /\ TypeOK /\ Handles(k, "allocate") /\ "allocate" \in Operations
    BY DEF AInv, PInv, Allocate, Operations
<1>1. RecordsStep("allocate")
    BY <1>0, AllocateSteps
<1>2. CASE Refuse(k)
  <2>1. Finish(k, Failed)
    BY <1>2 DEF Refuse
  <2> QED
    BY <1>0, <1>1, <2>1, FailedSettles, FinishServes
<1>3. CASE Survives(s) /\ MayAllocate(s) /\ Finish(k, Reply("ok", s, c))
  <2>1. s \in Sessions /\ sessions[s] \in SessionState
    BY <1>0, <1>3 DEF Survives, Present, TypeOK
  <2>2. c \in Callbacks
    <3> DEFINE n == Cardinality(sessions[s].callbacks)
    <3>1. n \in Nat /\ n < max_callbacks
      BY <1>3, <2>1, RecordTypes, CallbacksAreFinite, FS_Subset, FS_CardinalityType
        DEF MayAllocate
    <3> HIDE DEF n
    <3> QED
      BY <3>1, CallbacksAssumption, LimitsAssumption DEF n
  <2>3. PICK a : a = Reply("ok", s, c)
    OBVIOUS
  <2>4. a.callback \in Callbacks /\ Finish(k, a)
    BY <1>3, <2>2, <2>3 DEF Reply
  <2>5. AnswerHolds("allocate", a)'
    BY <2>4 DEF AnswerHolds
  <2>6. CallSettles
    BY <1>0, <2>4, <2>5, HandledSettles
  <2> QED
    BY <1>0, <1>1, <2>4, <2>6, FinishServes
<1> QED
    BY <1>2, <1>3 DEF Allocate

\* There was one session, and it is gone.
LEMMA CleanupServes ==
    ASSUME AInv, NEW k \in Conns, Cleanup(k), UNCHANGED <<call, conn>>
    PROVE  Serves(k, "cleanup") /\ CallSettles
<1> DEFINE s == req[k].session
<1>0. PInv /\ TypeOK /\ Handles(k, "cleanup") /\ "cleanup" \in Operations
    BY DEF AInv, PInv, Cleanup, Operations
<1>1. RecordsStep("cleanup")
    BY <1>0, CleanupSteps
<1>2. CASE ~(Authenticated(req[k]) /\ Survives(s))
  <2>1. Finish(k, Failed)
    BY <1>2 DEF Cleanup
  <2> QED
    BY <1>0, <1>1, <2>1, FailedSettles, FinishServes
<1>3. CASE Authenticated(req[k]) /\ Survives(s)
  <2>1. s \in Sessions /\ sessions[s].phase = "present"
    BY <1>3 DEF Survives, Present
  <2>2. sessions' = [Reclaimed EXCEPT ![s] = Blank("removed")] /\ Finish(k, Reply("ok", s, 0))
    BY <1>3 DEF Cleanup
  <2>3. \A t \in Sessions \ {s} : sessions[t].phase = "unborn"
    BY <2>1 DEF AInv, OneSession
  <2>4. \A t \in Sessions : sessions'[t].phase # "present"
    BY <2>1, <2>2, <2>3 DEF Reclaimed, Reclaimable, Blank
  <2>5. Present' = {}
    BY <2>4 DEF Present
  <2>6. PICK a : a = Reply("ok", s, 0)
    OBVIOUS
  <2>7. AnswerHolds("cleanup", a)'
    BY <2>5 DEF AnswerHolds
  <2>8. Finish(k, a)
    BY <2>2, <2>6
  <2>9. CallSettles
    BY <1>0, <2>7, <2>8, HandledSettles
  <2> QED
    BY <1>0, <1>1, <2>8, <2>9, FinishServes
<1> QED
    BY <1>2, <1>3

\* A page asked for at the adapter's cursor is true when it is served.
LEMMA ServedPageHolds ==
    ASSUME AInv, PInv', UNCHANGED <<ad, answered>>, NEW s \in Present, s = ad.session,
           ad.cursor <= sessions[s].next_cursor,
           sessions'[s].cursor = sessions[s].cursor,
           sessions'[s].next_cursor = sessions[s].next_cursor,
           NEW p, p = Page(s, sessions[s], ad.cursor)
    PROVE  PageHolds(p)'
<1> DEFINE x == sessions[s]
           a == ad.cursor
<1>0. /\ s \in Sessions /\ x \in SessionState /\ x.phase = "present"
      /\ Whole(x, answered[s]) /\ Dense(x)
    BY DEF Present, AInv, PInv, TypeOK, Whole
<1>1. a \in Nat /\ x.next_cursor \in Nat /\ \A c \in Callbacks : x.cursor[c] \in Nat
    BY <1>0, RecordTypes DEF AInv, AdTypeOK
<1>2. a \in 0 .. x.next_cursor
    BY <1>1
<1>3. /\ p.next_cursor = NextCursor(x, a) /\ p.complete = IsComplete(x, a)
      /\ p.events = PageEvents(x, a) /\ p.owed = answered[s]
    BY DEF Page, Reply
<1>4. ad.seen = {c \in Callbacks : HasEvent(x, c) /\ x.cursor[c] <= a}
    BY DEF AInv, ObservationsAreExact, CursorMatchesSeen
<1>5. PagesAreWhole
    BY WholePages DEF AInv
<1> HIDE DEF x, a
<1>6. p.complete => p.owed \subseteq ad.seen \cup p.events
  <2> SUFFICES ASSUME IsComplete(x, a), NEW c \in answered[s]
               PROVE  c \in ad.seen \cup PageEvents(x, a)
    BY <1>3
  <2>1. HasEvent(x, c) /\ (x.cursor[c] <= a \/ c \in PageEvents(x, a))
    BY <1>2, <1>5 DEF PagesAreWhole, CompletePageIsWhole, x
  <2>2. c \in Callbacks
    BY <1>0 DEF AInv, PInv, TypeOK
  <2> QED
    BY <1>4, <2>1, <2>2
<1>7. /\ NextCursor(x, a) \in a .. x.next_cursor
      /\ PageEvents(x, a) = {c \in Callbacks : a < x.cursor[c] /\ x.cursor[c] <= NextCursor(x, a)}
    BY <1>0, <1>2, PageFacts
<1>8. p.events \subseteq UNION {answered'[t] : t \in Sessions}
  <2>1. PageEvents(x, a) \subseteq Events(x)
    BY <1>1, <1>7 DEF Events
  <2>2. Events(x) \subseteq answered'[s]
    BY <1>0 DEF Whole
  <2> QED
    BY <1>0, <1>3, <2>1, <2>2
<1>9. /\ p.next_cursor \in a .. sessions'[s].next_cursor
      /\ p.events = {c \in Callbacks : /\ a < sessions'[s].cursor[c]
                                       /\ sessions'[s].cursor[c] <= p.next_cursor}
    BY <1>3, <1>7 DEF x
<1> QED
    BY <1>6, <1>8, <1>9 DEF PageHolds, a

LEMMA PollServes ==
    ASSUME AInv, PInv', NEW k \in Conns, Poll(k), UNCHANGED <<ad, call, conn>>
    PROVE  Serves(k, "poll") /\ CallSettles
<1> DEFINE s == req[k].session
           a == req[k].after
           x == sessions[s]
<1>0. PInv /\ TypeOK /\ Handles(k, "poll") /\ "poll" \in Operations
    BY DEF AInv, PInv, Poll, Operations
<1>1. RecordsStep("poll")
    BY <1>0, PollSteps
<1>2. CASE Finish(k, Failed)
    BY <1>0, <1>1, <1>2, FailedSettles, FinishServes
<1>3. CASE ~Finish(k, Failed)
  <2>1. Survives(s) /\ sessions' = [Reclaimed EXCEPT ![s].polls = @ + 1] /\ UNCHANGED answered
        /\ Finish(k, Page(s, x, a)) /\ a <= x.next_cursor
    BY <1>3 DEF Poll
  <2>2. s \in Present /\ s \in Sessions /\ Reclaimed[s] = x
    BY <2>1 DEF Survives, Present, Reclaimed
  <2>3. sessions'[s].cursor = x.cursor /\ sessions'[s].next_cursor = x.next_cursor
    <3>1. x \in SessionState
      BY <1>0, <2>2 DEF TypeOK
    <3>2. sessions'[s] = [x EXCEPT !.polls = @ + 1]
      BY <2>1, <2>2 DEF Reclaimed
    <3> QED
      BY <3>1, <3>2 DEF SessionState
  <2>4. PICK p : p = Page(s, x, a)
    OBVIOUS
  <2>5. Finish(k, p)
    BY <2>1, <2>4
  <2>6. ASSUME k = conn, call = "poll"
        PROVE  AnswerHolds("poll", p)'
    <3>1. s = ad.session /\ a = ad.cursor
      BY <2>6, CallIsManaged, AdapterAssumption
    <3>2. PageHolds(p)'
      BY <2>1, <2>2, <2>3, <2>4, <3>1, ServedPageHolds
    <3> QED
      BY <3>2 DEF AnswerHolds
  <2>7. CallSettles
    BY <1>0, <2>5, <2>6, HandledSettles
  <2> QED
    BY <1>0, <1>1, <2>5, <2>7, FinishServes
<1> QED
    BY <1>2, <1>3

LEMMA ServerKeeps ==
    ASSUME AInv, Server, UNCHANGED adVars
    PROVE  AInv'
<1>1. PInv /\ PInv'
    BY ProviderInvariant DEF AInv, ProviderStep
<1>2. /\ UNCHANGED <<ad, call, conn, result, receipts, settled>> /\ cancelled' \in BOOLEAN
      /\ left' = left
    BY DEF adVars, AInv, AdTypeOK
<1>3. \E k \in Conns : \E op \in Operations \cup {"callback"} : Serves(k, op) /\ CallSettles
    BY <1>1, <1>2, RegisterServes, AllocateServes, PollServes, CleanupServes,
        ObserveCallbackServes, MarkIncompleteServes, TimeoutServes
        DEF Server, Handle, Operations
<1>4. PICK k \in Conns, op \in Operations \cup {"callback"} : Serves(k, op) /\ CallSettles
    BY <1>3
<1>5. op # "tick"
    BY DEF Operations
<1> QED
    BY <1>1, <1>2, <1>4, <1>5, BackgroundKeeps

LEMMA ForgottenKeeps ==
    ASSUME AInv, NEW k \in Conns \ {conn}, Forget(k), UNCHANGED adVars
    PROVE  AInv'
<1>1. PInv /\ PInv'
    BY ProviderInvariant DEF AInv, ProviderStep
<1>2. /\ UNCHANGED <<ad, call, conn, result, receipts, settled>> /\ cancelled' \in BOOLEAN
      /\ left' = left
    BY DEF adVars, AInv, AdTypeOK
<1>3. Serves(k, "callback") /\ CallSettles
    BY ForgetServes
<1> QED
    BY <1>1, <1>2, <1>3, BackgroundKeeps

LEMMA ClockKeeps ==
    ASSUME AInv, Clock
    PROVE  AInv'
<1>1. PInv /\ PInv' /\ TypeOK
    BY ProviderInvariant DEF AInv, PInv, ProviderStep, Clock
<1>2. /\ UNCHANGED <<ad, call, conn, result, receipts, settled>> /\ cancelled' \in BOOLEAN
      /\ left' = Down(left) /\ UNCHANGED <<stage, req, ans, answered>> /\ sessions' = Age
    BY DEF Clock, AInv, AdTypeOK
<1>3. RecordsStep("tick")
    BY <1>1, <1>2, AgeSteps
<1>4. \A q \in Operations : Pending(q)' = Pending(q) \ {NoConn}
    BY <1>2, AdapterAssumption DEF Pending, Handles
<1>5. Serves(NoConn, "tick")
    BY <1>3, <1>4, ServesQuietly DEF Operations
<1>6. CallSettles
    BY <1>2 DEF CallSettles
<1> QED
    BY <1>1, <1>2, <1>5, <1>6, BackgroundKeeps

LEMMA HitKeeps ==
    ASSUME AInv, NEW c \in Callbacks, Hit(c)
    PROVE  AInv'
<1>1. PICK k \in Conns, s \in Sessions : Arrive(k, Ask("callback", s, c, 0, TRUE))
    BY DEF Hit, Present, Ask
<1> DEFINE r == [op |-> "callback", session |-> s, callback |-> c, after |-> 0, valid |-> TRUE]
<1>2. Arrive(k, r) /\ r \in Request /\ r.op = "callback"
    BY <1>1 DEF Request, Ask
<1> HIDE DEF r
<1>3. PInv /\ PInv' /\ TypeOK
    BY <1>2, ProviderInvariant DEF AInv, PInv, ProviderStep
<1>4. /\ UNCHANGED <<ad, call, conn, result, receipts, settled>> /\ cancelled' \in BOOLEAN
      /\ left' = left
    BY DEF Hit, adVars, AInv, AdTypeOK
<1>5. RecordsStep("callback")
    BY <1>2, <1>3, ArriveSteps
<1>6. /\ stage[k] = "idle" /\ req'[k] = r
      /\ \A j \in Conns \ {k} : stage'[j] = stage[j] /\ req'[j] = req[j] /\ ans'[j] = ans[j]
    BY <1>2, <1>3 DEF Arrive, TypeOK
<1>7. \A q \in Operations : Pending(q)' = Pending(q) \ {k}
    BY <1>2, <1>6 DEF Pending, Handles, Operations
<1>8. Serves(k, "callback")
    BY <1>5, <1>7, ServesQuietly DEF Operations
<1>9. CallSettles
    BY <1>6, CallIsManaged DEF CallSettles
<1> QED
    BY <1>3, <1>4, <1>8, <1>9, BackgroundKeeps

-----------------------------------------------------------------------------
(***************************************************************************)
(* Steps of the adapter                                                    *)
(***************************************************************************)

AdType ==
    [lifecycle : Lifecycles, session : Sessions \cup {NoSession}, cursor : Nat,
     callbacks : SUBSET Callbacks, remaining : 0 .. max_polls, seen : SUBSET Callbacks,
     registration_attempted : BOOLEAN, callback_attempts : 0 .. max_callbacks,
     poll_attempts : 0 .. max_polls, cleanup_attempted : BOOLEAN, cleanup_verified : BOOLEAN,
     requests : 0 .. max_provider_requests]

LEMMA AdTypes ==
    ASSUME AInv
    PROVE  /\ ad \in AdType /\ PInv /\ TypeOK
           /\ ad.callback_attempts \in Nat /\ ad.poll_attempts \in Nat /\ ad.requests \in Nat
           /\ ad.registration_attempted \in BOOLEAN /\ ad.cleanup_attempted \in BOOLEAN
           /\ ad.session \in Sessions \cup {NoSession} /\ ad.cursor \in Nat
BY DEF AInv, PInv, AdTypeOK, AdType

\* The adapter moves and the provider's sessions do not.
Stands == UNCHANGED <<sessions, answered, left>>

LEMMA AdapterMoves ==
    ASSUME AInv, Stands, \A q \in Operations : Pending(q)' = Pending(q),
           ad'.registration_attempted = ad.registration_attempted,
           ad'.cleanup_attempted = ad.cleanup_attempted,
           ad'.poll_attempts = ad.poll_attempts,
           ad'.lifecycle = ad.lifecycle \/ Pending("register") = {}
    PROVE  OneSession' /\ PollsAreCharged' /\ SessionLives'
<1>0. sessions' = sessions /\ left' = left
    BY DEF Stands
<1>1. /\ Pending("register")' = Pending("register") /\ Pending("poll")' = Pending("poll")
      /\ Pending("cleanup")' = Pending("cleanup")
    BY DEF Operations
<1>2. OneSession'
    BY <1>0, <1>1 DEF AInv, OneSession
<1>3. PollsAreCharged'
    BY <1>0, <1>1 DEF AInv, PollsAreCharged
<1>4. SessionLives'
    BY <1>0, <1>1 DEF AInv, SessionLives
<1> QED
    BY <1>2, <1>3, <1>4

\* The answer is taken, or forgotten: nobody was waiting for the lock on its connection.
LEMMA ForgetPending ==
    ASSUME AInv, NEW k \in Conns, Forget(k)
    PROVE  PInv' /\ \A q \in Operations : Pending(q)' = Pending(q)
<1>1. PInv /\ PInv'
    BY ProviderInvariant DEF AInv, ProviderStep
<1>2. \A q \in Operations : Pending(q)' = Pending(q) \ {k}
    BY <1>1, ReleaseLeaves DEF Forget
<1>3. \A q \in Operations : k \notin Pending(q)
    BY DEF Pending, Handles, Forget
<1> QED
    BY <1>1, <1>2, <1>3

LEMMA UnchangedPending ==
    ASSUME AInv, UNCHANGED vars
    PROVE  PInv' /\ \A q \in Operations : Pending(q)' = Pending(q)
<1>1. PInv'
    BY ProviderInvariant DEF AInv
<1>2. UNCHANGED <<stage, req>>
    BY DEF vars
<1> QED
    BY <1>1, <1>2 DEF Pending, Handles

LEMMA ReceiptTypes ==
    ASSUME AInv, NEW op \in Operations, NEW a, a.requests \in 0 .. max_provider_requests,
           receipts' = Append(receipts, ReceiptOf(op, a))
    PROVE  receipts' \in Seq([op : Operations, request_count : 0 .. max_provider_requests])
<1>1. ReceiptOf(op, a) \in [op : Operations, request_count : 0 .. max_provider_requests]
    BY DEF ReceiptOf
<1>2. receipts \in Seq([op : Operations, request_count : 0 .. max_provider_requests])
    BY DEF AInv, AdTypeOK
<1> QED
    BY <1>1, <1>2

\* An operation ends without a result: everything stays but a session that was to be
\* cleaned up.
LEMMA FailKeeps ==
    ASSUME AInv, PInv', \A q \in Operations : Pending(q)' = Pending(q),
           UNCHANGED <<sessions, answered>>, call # "none", NEW kind \in Results,
           Fail(ad, call, kind)
    PROVE  AInv'
<1> DEFINE s == IF call = "cleanup" THEN NoSession ELSE ad.session
<1>0. ad \in AdType /\ call \in Operations /\ s \in Sessions \cup {NoSession}
    BY AdTypes DEF AInv, AdTypeOK
<1>1. /\ ad' = [ad EXCEPT !.session = s] /\ call' = "none" /\ conn' = NoConn
      /\ result' = kind /\ UNCHANGED <<left, cancelled, settled>>
      /\ receipts' = Append(receipts, ReceiptOf(call, ad))
    BY DEF Fail
<1> HIDE DEF s
<1>2. ad' \in AdType
    BY <1>0, <1>1 DEF AdType
<1>3. /\ ad'.session = s /\ ad'.lifecycle = ad.lifecycle /\ ad'.cursor = ad.cursor
      /\ ad'.callbacks = ad.callbacks /\ ad'.seen = ad.seen
      /\ ad'.registration_attempted = ad.registration_attempted
      /\ ad'.callback_attempts = ad.callback_attempts /\ ad'.poll_attempts = ad.poll_attempts
      /\ ad'.cleanup_attempted = ad.cleanup_attempted
      /\ ad'.cleanup_verified = ad.cleanup_verified /\ ad'.requests = ad.requests
    BY <1>0, <1>1 DEF AdType
<1>4. s = NoSession \/ s = ad.session
    BY DEF s
<1>5. AdTypeOK'
  <2>1. ad.requests \in 0 .. max_provider_requests
    BY <1>0 DEF AdType
  <2>2. receipts' \in Seq([op : Operations, request_count : 0 .. max_provider_requests])
    BY <1>0, <1>1, <2>1, ReceiptTypes
  <2> QED
    BY <1>1, <1>2, <2>2 DEF AInv, AdTypeOK, AdType, PInv
<1>6. OneSession' /\ PollsAreCharged' /\ SessionLives'
    BY <1>1, <1>3, AdapterMoves DEF Stands
<1>7. RequestsAreCounted'
    BY <1>3 DEF AInv, RequestsAreCounted
<1>8. LifecycleInStep'
  <2>1. ad.lifecycle = "Closed" => call = "cleanup"
    BY <1>0 DEF AInv, LifecycleInStep, Operations
  <2>2. ad.lifecycle = "Closed" => s = NoSession
    BY <2>1 DEF s
  <2> QED
    BY <1>1, <1>3, <1>4, <2>2 DEF AInv, LifecycleInStep
<1>9. CallInStep'
    BY <1>1 DEF CallInStep
<1>10. s \in Present => s = ad.session
    BY <1>4, SessionsAssumption DEF Present
<1>11. CursorInRange' /\ ObservationsAreExact'
  <2>1. Present' = Present
    BY DEF Present
  <2> QED
    BY <1>1, <1>3, <1>10, <2>1
      DEF AInv, CursorInRange, ObservationsAreExact, CursorMatchesSeen, SeenIsWholeAndTrue
<1>12. VerifiedCleanupIsFinal' /\ (ad'.cleanup_verified => ad'.cleanup_attempted)
    BY <1>3 DEF AInv, VerifiedCleanupIsFinal
<1> QED
    BY <1>5, <1>6, <1>7, <1>8, <1>9, <1>11, <1>12 DEF AInv

LEMMA GiveUpKeeps ==
    ASSUME AInv, GiveUp
    PROVE  AInv'
<1>1. PICK kind \in Results : Fail(ad, call, kind)
    BY DEF GiveUp, FailureKinds, Results
<1>2. CASE Answered
  <2>1. Forget(conn) /\ conn \in Conns
    BY <1>2, CallIsManaged DEF GiveUp, Answered
  <2> QED
    BY <1>1, <2>1, ForgetPending, FailKeeps DEF GiveUp, Forget
<1>3. CASE ~Answered
  <2>1. UNCHANGED vars
    BY <1>3 DEF GiveUp
  <2>2. UNCHANGED <<sessions, answered>>
    BY <2>1 DEF vars
  <2> QED
    BY <1>1, <2>1, <2>2, UnchangedPending, FailKeeps DEF GiveUp
<1> QED
    BY <1>2, <1>3

LEMMA TakeFailureKeeps ==
    ASSUME AInv, TakeFailure
    PROVE  AInv'
<1>1. Fail(ad, call, "other") /\ "other" \in Results
    BY DEF TakeFailure, Results
<1>2. Forget(conn) /\ conn \in Conns /\ call # "none"
    BY CallIsManaged DEF TakeFailure, Answered
<1>3. UNCHANGED <<sessions, answered>>
    BY <1>2 DEF Forget
<1> QED
    BY <1>1, <1>2, <1>3, ForgetPending, FailKeeps

LEMMA PageRejectedKeeps ==
    ASSUME AInv, Succeeded("poll"), Fail(ad, "poll", "other"), Forget(conn)
    PROVE  AInv'
<1>1. Fail(ad, call, "other") /\ "other" \in Results /\ call # "none"
    BY DEF Succeeded, Results
<1>2. conn \in Conns
    BY CallIsManaged DEF Succeeded, Answered
<1>3. UNCHANGED <<sessions, answered>>
    BY DEF Forget
<1> QED
    BY <1>1, <1>2, <1>3, ForgetPending, FailKeeps

LEMMA IdleKeeps ==
    ASSUME AInv, UNCHANGED vars, UNCHANGED <<ad, call, conn, left, receipts, settled>>,
           result' \in Results, cancelled' \in BOOLEAN
    PROVE  AInv'
<1>1. PInv' /\ UNCHANGED <<sessions, stage, req, ans, answered>>
    BY ProviderInvariant DEF AInv, vars
<1>2. AdTypeOK'
    BY <1>1 DEF AInv, AdTypeOK, PInv
<1>3. OneSession' /\ PollsAreCharged' /\ SessionLives'
    BY <1>1, UnchangedPending, AdapterMoves DEF Stands
<1>4. RequestsAreCounted' /\ LifecycleInStep'
    BY <1>1 DEF AInv, RequestsAreCounted, LifecycleInStep
<1>5. CallInStep'
    BY <1>1 DEF AInv, CallInStep, AnswerHolds, PageHolds, Present
<1>6. CursorInRange' /\ ObservationsAreExact' /\ VerifiedCleanupIsFinal'
    BY <1>1 DEF AInv, CursorInRange, ObservationsAreExact, CursorMatchesSeen,
        SeenIsWholeAndTrue, VerifiedCleanupIsFinal, Present
<1> QED
    BY <1>1, <1>2, <1>3, <1>4, <1>5, <1>6 DEF AInv

\* What an attempt charges, whatever becomes of it.
ChargedFor(op, s, m, y) ==
    /\ y \in AdType
    /\ y.session = s /\ y.cursor = ad.cursor /\ y.callbacks = ad.callbacks
    /\ y.seen = ad.seen /\ y.requests = m /\ y.cleanup_verified = ad.cleanup_verified
    /\ y.lifecycle = IF op = "cleanup" THEN "Closed" ELSE ad.lifecycle
    /\ y.registration_attempted <=> (ad.registration_attempted \/ op = "register")
    /\ y.cleanup_attempted <=> (ad.cleanup_attempted \/ op = "cleanup")
    /\ y.callback_attempts = ad.callback_attempts + (IF op = "allocate" THEN 1 ELSE 0)
    /\ y.poll_attempts = ad.poll_attempts + (IF op = "poll" THEN 1 ELSE 0)

LEMMA AttemptFacts ==
    ASSUME AInv, NEW op \in Operations, Permitted(op), NEW s \in Sessions \cup {NoSession},
           NEW m \in 0 .. max_provider_requests, NEW y,
           y = [Attempted(op) EXCEPT !.session = s, !.requests = m]
    PROVE  ChargedFor(op, s, m, y)
<1>0. ad \in AdType /\ ad.callback_attempts \in Nat /\ ad.poll_attempts \in Nat
    BY AdTypes
<1>1. CASE op = "register"
  <2>1. y = [ad EXCEPT !.registration_attempted = TRUE, !.session = s, !.requests = m]
    BY <1>1 DEF Attempted
  <2>2. y \in AdType
    BY <1>0, <2>1 DEF AdType
  <2>3. /\ y.session = s /\ y.cursor = ad.cursor /\ y.callbacks = ad.callbacks
        /\ y.seen = ad.seen /\ y.requests = m /\ y.cleanup_verified = ad.cleanup_verified
        /\ y.lifecycle = ad.lifecycle /\ y.registration_attempted
        /\ y.cleanup_attempted = ad.cleanup_attempted
        /\ y.poll_attempts = ad.poll_attempts /\ y.callback_attempts = ad.callback_attempts
    BY <1>0, <2>1 DEF AdType
  <2> QED
    BY <1>0, <1>1, <2>2, <2>3 DEF ChargedFor
<1>2. CASE op = "allocate"
  <2> DEFINE n == ad.callback_attempts + 1
  <2>1. y = [ad EXCEPT !.callback_attempts = n, !.session = s, !.requests = m]
    BY <1>2 DEF Attempted
  <2>2. n \in 0 .. max_callbacks
    BY <1>0, <1>2, LimitsAssumption DEF Permitted
  <2> HIDE DEF n
  <2>3. y \in AdType
    BY <1>0, <2>1, <2>2 DEF AdType
  <2>4. /\ y.session = s /\ y.cursor = ad.cursor /\ y.callbacks = ad.callbacks
        /\ y.seen = ad.seen /\ y.requests = m /\ y.cleanup_verified = ad.cleanup_verified
        /\ y.lifecycle = ad.lifecycle /\ y.registration_attempted = ad.registration_attempted
        /\ y.cleanup_attempted = ad.cleanup_attempted /\ y.callback_attempts = n
        /\ y.poll_attempts = ad.poll_attempts
    BY <1>0, <2>1 DEF AdType
  <2> QED
    BY <1>0, <1>2, <2>3, <2>4 DEF n, ChargedFor
<1>3. CASE op = "poll"
  <2> DEFINE n == ad.poll_attempts + 1
  <2>1. y = [ad EXCEPT !.poll_attempts = n, !.session = s, !.requests = m]
    BY <1>3 DEF Attempted
  <2>2. n \in 0 .. max_polls
    BY <1>0, <1>3, LimitsAssumption DEF Permitted
  <2> HIDE DEF n
  <2>3. y \in AdType
    BY <1>0, <2>1, <2>2 DEF AdType
  <2>4. /\ y.session = s /\ y.cursor = ad.cursor /\ y.callbacks = ad.callbacks
        /\ y.seen = ad.seen /\ y.requests = m /\ y.cleanup_verified = ad.cleanup_verified
        /\ y.lifecycle = ad.lifecycle /\ y.registration_attempted = ad.registration_attempted
        /\ y.cleanup_attempted = ad.cleanup_attempted /\ y.poll_attempts = n
        /\ y.callback_attempts = ad.callback_attempts
    BY <1>0, <2>1 DEF AdType
  <2> QED
    BY <1>0, <1>3, <2>3, <2>4 DEF n, ChargedFor
<1>4. CASE op = "cleanup"
  <2>1. y = [ad EXCEPT !.cleanup_attempted = TRUE, !.lifecycle = "Closed",
                       !.session = s, !.requests = m]
    BY <1>4 DEF Attempted
  <2>2. y \in AdType
    BY <1>0, <2>1 DEF AdType, Lifecycles
  <2>3. /\ y.session = s /\ y.cursor = ad.cursor /\ y.callbacks = ad.callbacks
        /\ y.seen = ad.seen /\ y.requests = m /\ y.cleanup_verified = ad.cleanup_verified
        /\ y.lifecycle = "Closed" /\ y.registration_attempted = ad.registration_attempted
        /\ y.cleanup_attempted
        /\ y.poll_attempts = ad.poll_attempts /\ y.callback_attempts = ad.callback_attempts
    BY <1>0, <2>1 DEF AdType
  <2> QED
    BY <1>0, <1>4, <2>2, <2>3 DEF ChargedFor
<1> QED
    BY <1>1, <1>2, <1>3, <1>4 DEF Operations

LEMMA PermittedFacts ==
    ASSUME NEW op \in Operations, Permitted(op)
    PROVE  /\ op = "register" => ~ad.registration_attempted /\ ad.lifecycle = "Configured"
           /\ op = "allocate" => ad.lifecycle \in {"Registered", "CallbackAllocated"}
           /\ op = "poll" => ad.lifecycle \in {"CallbackAllocated", "Polling"}
           /\ op = "cleanup" =>
                 /\ ad.lifecycle \in {"Registered", "CallbackAllocated", "Polling"}
                 /\ ~ad.cleanup_attempted
BY DEF Permitted, LifecycleAllows, Operations

\* Every request is one of an attempt.
LEMMA RequestCount ==
    ASSUME NEW r \in Nat, NEW m \in Nat, NEW c \in Nat, NEW p \in Nat,
           NEW i \in {0, 1}, NEW j \in {0, 1}, NEW c1 \in Nat, NEW p1 \in Nat,
           NEW i1 \in {0, 1}, NEW j1 \in {0, 1},
           r <= i + c + p + j, m <= r + 1, i1 + c1 + p1 + j1 = i + c + p + j + 1
    PROVE  m <= i1 + c1 + p1 + j1
OBVIOUS

LEMMA AttemptIsCounted ==
    ASSUME AInv, NEW op \in Operations, Permitted(op), ad' \in AdType,
           ad'.requests <= ad.requests + 1,
           ad'.registration_attempted <=> (ad.registration_attempted \/ op = "register"),
           ad'.cleanup_attempted <=> (ad.cleanup_attempted \/ op = "cleanup"),
           ad'.callback_attempts = ad.callback_attempts + (IF op = "allocate" THEN 1 ELSE 0),
           ad'.poll_attempts = ad.poll_attempts + (IF op = "poll" THEN 1 ELSE 0)
    PROVE  RequestsAreCounted'
<1> DEFINE r == ad.requests
           m == ad'.requests
           c == ad.callback_attempts
           c1 == ad'.callback_attempts
           p == ad.poll_attempts
           p1 == ad'.poll_attempts
           i == IF ad.registration_attempted THEN 1 ELSE 0
           i1 == IF ad'.registration_attempted THEN 1 ELSE 0
           j == IF ad.cleanup_attempted THEN 1 ELSE 0
           j1 == IF ad'.cleanup_attempted THEN 1 ELSE 0
<1>1. r \in Nat /\ c \in Nat /\ p \in Nat
    BY AdTypes
<1>2. m \in Nat /\ c1 \in Nat /\ p1 \in Nat
    BY DEF AdType
<1>3. i \in {0, 1} /\ i1 \in {0, 1} /\ j \in {0, 1} /\ j1 \in {0, 1}
    OBVIOUS
<1>4. r <= i + c + p + j
    BY DEF AInv, RequestsAreCounted
<1>5. /\ op = "register" => i = 0 /\ i1 = 1 /\ j1 = j /\ c1 = c /\ p1 = p
      /\ op = "cleanup" => j = 0 /\ j1 = 1 /\ i1 = i /\ c1 = c /\ p1 = p
      /\ op = "allocate" => j1 = j /\ i1 = i /\ c1 = c + 1 /\ p1 = p
      /\ op = "poll" => j1 = j /\ i1 = i /\ c1 = c /\ p1 = p + 1
    BY <1>1, PermittedFacts
<1>6. op = "register" \/ op = "cleanup" \/ op = "allocate" \/ op = "poll"
    BY DEF Operations
<1>7. m <= r + 1
    OBVIOUS
<1> HIDE DEF r, m, c, c1, p, p1, i, i1, j, j1
<1>8. i1 + c1 + p1 + j1 = i + c + p + j + 1
    BY <1>1, <1>3, <1>5, <1>6
<1>9. m <= i1 + c1 + p1 + j1
    BY <1>1, <1>2, <1>3, <1>4, <1>7, <1>8, RequestCount
<1> QED
    BY <1>9 DEF RequestsAreCounted, m, i1, c1, p1, j1

\* An attempt may put its request among the pending ones, on one connection.
MayPend(op) ==
    \E k : \A q \in Operations :
        \/ Pending(q)' = Pending(q)
        \/ q = op /\ Pending(q)' = Pending(q) \cup {k}

LEMMA AttemptPends ==
    ASSUME AInv, Stands, NEW op \in Operations, Permitted(op), MayPend(op),
           ad'.registration_attempted <=> (ad.registration_attempted \/ op = "register"),
           ad'.cleanup_attempted <=> (ad.cleanup_attempted \/ op = "cleanup"),
           ad'.poll_attempts = ad.poll_attempts + (IF op = "poll" THEN 1 ELSE 0),
           ad'.lifecycle = IF op = "cleanup" THEN "Closed" ELSE ad.lifecycle
    PROVE  OneSession' /\ PollsAreCharged' /\ SessionLives'
<1>0. sessions' = sessions /\ left' = left
    BY DEF Stands
<1>1. PICK k : \A q \in Operations :
                   Pending(q)' = Pending(q) \/ (q = op /\ Pending(q)' = Pending(q) \cup {k})
    BY DEF MayPend
<1>2. OneSession /\ PollsAreCharged /\ SessionLives
    BY DEF AInv
<1>3. OneSession'
  <2>1. \A s, t \in Sessions :
            sessions'[s].phase # "unborn" /\ sessions'[t].phase # "unborn" => s = t
    BY <1>0, <1>2 DEF OneSession
  <2>2. CASE op = "register"
    <3>1. /\ Pending("register") = {} /\ ad.lifecycle = "Configured"
          /\ \A s \in Sessions : sessions[s].phase = "unborn"
      BY <1>2, <2>2, PermittedFacts DEF OneSession
    <3>2. Pending("register")' \subseteq {k}
      BY <1>1, <3>1 DEF Operations
    <3>3. ad'.registration_attempted /\ ad'.lifecycle = "Configured"
      BY <2>2, <3>1
    <3> QED
      BY <1>0, <3>1, <3>2, <3>3 DEF OneSession
  <2>3. CASE op # "register"
    <3>1. Pending("register")' = Pending("register")
      BY <1>1, <2>3 DEF Operations
    <3>2. /\ ad'.registration_attempted <=> ad.registration_attempted
          /\ ad'.lifecycle # "Configured" => ad.lifecycle # "Configured"
      BY <2>3, PermittedFacts
    <3> QED
      BY <1>0, <1>2, <3>1, <3>2 DEF OneSession
  <2> QED
    BY <2>2, <2>3
<1>4. PollsAreCharged'
  <2> DEFINE P == Pending("poll")
             Q == Pending("poll")'
             n == Cardinality(P)
             m == Cardinality(Q)
             d == IF op = "poll" THEN 1 ELSE 0
  <2>1. IsFiniteSet(P) /\ (Q = P \/ (op = "poll" /\ Q = P \cup {k}))
    BY <1>1, <1>2 DEF PollsAreCharged, Operations
  <2>2. IsFiniteSet(Q) /\ n \in Nat /\ m \in Nat /\ m <= n + d
    <3> HIDE DEF P, Q
    <3>1. n \in Nat
      BY <2>1, FS_CardinalityType
    <3>2. CASE Q = P
      BY <2>1, <3>1, <3>2
    <3>3. CASE op = "poll" /\ Q = P \cup {k}
      <4>1. IsFiniteSet(Q) /\ (m = n \/ m = n + 1)
        BY <2>1, <3>3, FS_AddElement
      <4> QED
        BY <3>1, <3>3, <4>1
    <3> QED
      BY <2>1, <3>2, <3>3
  <2>3. ASSUME NEW s \in Sessions PROVE sessions'[s].polls + m <= ad'.poll_attempts
    <3> DEFINE i == sessions[s].polls
               a == ad.poll_attempts
    <3>1. i \in Nat /\ a \in Nat
      BY AdTypes, RecordTypes DEF TypeOK
    <3>2. i + n <= a
      BY <1>2 DEF PollsAreCharged
    <3>3. ad'.poll_attempts = a + d /\ sessions'[s].polls = i /\ d \in Nat
      BY <1>0
    <3> HIDE DEF i, a, n, m, d, P, Q
    <3> QED
      BY <2>2, <3>1, <3>2, <3>3
  <2> QED
    BY <2>2, <2>3 DEF PollsAreCharged
<1>5. SessionLives'
  <2>1. Pending("cleanup")' # {} => ad'.cleanup_attempted
    BY <1>1, <1>2 DEF SessionLives, Operations
  <2> QED
    BY <1>0, <1>2, <2>1 DEF SessionLives
<1> QED
    BY <1>3, <1>4, <1>5

LEMMA AttemptKeeps ==
    ASSUME AInv, PInv', UNCHANGED <<sessions, answered, left, cancelled, settled>>,
           NEW op \in Operations, Permitted(op), MayPend(op), CallInStep',
           NEW s, s = ad.session \/ (op = "cleanup" /\ s = NoSession),
           call' = "none" /\ op = "cleanup" => s = NoSession,
           NEW m \in 0 .. max_provider_requests, m <= ad.requests + 1,
           ad' = [Attempted(op) EXCEPT !.session = s, !.requests = m],
           call' \in {"none", op}, conn' \in Conns \cup {NoConn}, result' \in Results,
           receipts' \in Seq([op : Operations, request_count : 0 .. max_provider_requests])
    PROVE  AInv'
<1>0. s \in Sessions \cup {NoSession} /\ Stands
    BY AdTypes DEF Stands
<1>1. PICK y : y = ad'
    OBVIOUS
<1>10. y = [Attempted(op) EXCEPT !.session = s, !.requests = m]
    BY <1>1
<1>2. /\ y \in AdType
      /\ y.session = s /\ y.cursor = ad.cursor /\ y.callbacks = ad.callbacks
      /\ y.seen = ad.seen /\ y.requests = m /\ y.cleanup_verified = ad.cleanup_verified
      /\ y.lifecycle = IF op = "cleanup" THEN "Closed" ELSE ad.lifecycle
      /\ y.registration_attempted <=> (ad.registration_attempted \/ op = "register")
      /\ y.cleanup_attempted <=> (ad.cleanup_attempted \/ op = "cleanup")
      /\ y.callback_attempts = ad.callback_attempts + (IF op = "allocate" THEN 1 ELSE 0)
      /\ y.poll_attempts = ad.poll_attempts + (IF op = "poll" THEN 1 ELSE 0)
  <2>1. ChargedFor(op, s, m, y)
    BY <1>0, <1>10, AttemptFacts
  <2> QED
    BY <2>1 DEF ChargedFor
<1>3. AdTypeOK'
    BY <1>1, <1>2 DEF AInv, AdTypeOK, AdType, PInv
<1>4. OneSession' /\ PollsAreCharged' /\ SessionLives'
    BY <1>0, <1>1, <1>2, AttemptPends
<1>5. RequestsAreCounted'
    BY <1>1, <1>2, AttemptIsCounted
<1>6. LifecycleInStep'
  <2>1. LifecycleInStep
    BY DEF AInv
  <2>2. y.lifecycle = "Configured" =>
            ad.lifecycle = "Configured" /\ y.session = ad.session
    BY <1>2
  <2>3. y.cleanup_attempted <=> y.lifecycle = "Closed"
    BY <1>2, <2>1 DEF LifecycleInStep
  <2>4. y.session # NoSession => sessions'[y.session].phase # "unborn"
    BY <1>2, <2>1 DEF LifecycleInStep
  <2>5. y.lifecycle \in {"CallbackAllocated", "Polling"} => y.callbacks # {}
    BY <1>2, <2>1 DEF LifecycleInStep
  <2>6. /\ op = "register" => y.lifecycle = "Configured"
        /\ op = "allocate" => y.lifecycle \in {"Registered", "CallbackAllocated"}
        /\ op = "poll" => y.lifecycle \in {"CallbackAllocated", "Polling"}
        /\ op = "cleanup" => y.lifecycle = "Closed"
    BY <1>2, PermittedFacts
  <2>7. y.lifecycle = "Configured" =>
            y.session = NoSession /\ y.cursor = 0 /\ y.seen = {} /\ settled' = {}
    BY <1>2, <2>1, <2>2 DEF LifecycleInStep
  <2>8. /\ call' = "register" => y.lifecycle = "Configured"
        /\ call' = "allocate" => y.lifecycle \in {"Registered", "CallbackAllocated"}
        /\ call' = "poll" => y.lifecycle \in {"CallbackAllocated", "Polling"}
        /\ call' = "cleanup" => y.lifecycle = "Closed"
    BY <2>6
  <2>9. call' = "none" /\ y.lifecycle = "Closed" => y.session = NoSession
    BY <1>2, <2>6 DEF Operations
  <2> QED
    BY <1>1, <2>3, <2>4, <2>5, <2>7, <2>8, <2>9 DEF LifecycleInStep
<1>7. s \in Present => s = ad.session
    BY SessionsAssumption DEF Present
<1>8. CursorInRange' /\ ObservationsAreExact'
  <2>1. Present' = Present /\ sessions' = sessions /\ answered' = answered /\ settled' = settled
    BY DEF Present
  <2>2. ad'.session = s /\ ad'.cursor = ad.cursor /\ ad'.seen = ad.seen
    BY <1>1, <1>2
  <2> QED
    BY <1>7, <2>1, <2>2
      DEF AInv, CursorInRange, ObservationsAreExact, CursorMatchesSeen, SeenIsWholeAndTrue
<1>9. VerifiedCleanupIsFinal' /\ (ad'.cleanup_verified => ad'.cleanup_attempted)
    BY <1>1, <1>2 DEF AInv, VerifiedCleanupIsFinal
<1> QED
    BY <1>3, <1>4, <1>5, <1>6, <1>8, <1>9 DEF AInv

LEMMA AttemptedType ==
    ASSUME AInv, NEW op \in Operations, Permitted(op)
    PROVE  /\ Attempted(op).requests = ad.requests /\ Attempted(op).session = ad.session
           /\ \A s : [Attempted(op) EXCEPT !.session = s] =
                         [Attempted(op) EXCEPT !.session = s, !.requests = ad.requests]
           /\ \A m : [Attempted(op) EXCEPT !.requests = m] =
                         [Attempted(op) EXCEPT !.session = ad.session, !.requests = m]
<1>1. ad \in AdType
    BY AdTypes
<1>2. CASE op = "register"
    BY <1>1, <1>2 DEF Attempted, AdType
<1>3. CASE op = "allocate"
    BY <1>1, <1>3 DEF Attempted, AdType
<1>4. CASE op = "poll"
    BY <1>1, <1>4 DEF Attempted, AdType
<1>5. CASE op = "cleanup"
    BY <1>1, <1>5 DEF Attempted, AdType
<1> QED
    BY <1>2, <1>3, <1>4, <1>5 DEF Operations

LEMMA FailBeforeDispatchKeeps ==
    ASSUME AInv, NEW op \in Operations, FailBeforeDispatch(op)
    PROVE  AInv'
<1> DEFINE s == IF op = "cleanup" THEN NoSession ELSE ad.session
           m == ad.requests
           kind == IF cancelled THEN "cancelled" ELSE "budget"
<1>0. Permitted(op) /\ UNCHANGED vars
    BY DEF FailBeforeDispatch
<1>1. Fail(Attempted(op), op, kind)
    BY DEF FailBeforeDispatch
<1>2. Attempted(op).requests = m /\ Attempted(op).session = ad.session
    BY <1>0, AttemptedType
<1>3. ad' = [Attempted(op) EXCEPT !.session = s]
    BY <1>1, <1>2 DEF Fail
<1>4. ad' = [Attempted(op) EXCEPT !.session = s, !.requests = m]
    BY <1>0, <1>3, AttemptedType
<1>5. m \in 0 .. max_provider_requests /\ m <= ad.requests + 1
    BY AdTypes DEF AdType
<1>6. receipts' \in Seq([op : Operations, request_count : 0 .. max_provider_requests])
    BY <1>1, <1>2, <1>5, ReceiptTypes DEF Fail
<1>7. /\ PInv' /\ UNCHANGED <<sessions, answered, left, cancelled, settled>>
      /\ call' = "none" /\ conn' = NoConn /\ result' \in Results
    BY <1>0, <1>1, UnchangedPending DEF Fail, vars, Results
<1>8. MayPend(op) /\ CallInStep'
    BY <1>0, <1>7, UnchangedPending DEF MayPend, CallInStep
<1>9. /\ s = ad.session \/ (op = "cleanup" /\ s = NoSession)
      /\ op = "cleanup" => s = NoSession
    OBVIOUS
<1>10. call' \in {"none", op} /\ conn' \in Conns \cup {NoConn}
    BY <1>7
<1> HIDE DEF s, m
<1> QED
    BY <1>0, <1>4, <1>5, <1>6, <1>7, <1>8, <1>9, <1>10, AttemptKeeps

\* The request that is sent is the adapter's own, and a refusal on the spot is a failure.
LEMMA ArrivedCall ==
    ASSUME AInv, NEW op \in Operations, NEW k \in Conns, NEW r \in AsksOf(op), Arrive(k, r),
           conn' = k, call' = op, ad'.session = ad.session, ad'.cursor = ad.cursor
    PROVE  r \in Request /\ MayPend(op) /\ CallInStep'
<1>1. PICK valid \in BOOLEAN :
          r = Ask(op, ad.session, 0, IF op = "poll" THEN ad.cursor ELSE 0, valid)
    BY DEF AsksOf, Ask
<1>2. r.op = op /\ r.session = ad.session /\ (op = "poll" => r.after = ad.cursor)
    BY <1>1 DEF Ask
<1>3. r \in Request
    BY <1>1, AdTypes DEF Request, Ask, Operations
<1>4. /\ stage[k] = "idle" /\ req'[k] = r /\ stage'[k] = AdmissionOf(r)
      /\ ans'[k] = IF AdmissionOf(r) = "answered" THEN Failed ELSE NoAnswer
      /\ \A j \in Conns \ {k} : stage'[j] = stage[j] /\ req'[j] = req[j]
    BY AdTypes DEF Arrive, TypeOK
<1>5. AdmissionOf(r) \in {"admitted", "answered"}
    BY <1>2 DEF AdmissionOf, Operations
<1>6. ASSUME NEW q \in Operations
      PROVE  Pending(q)' = Pending(q) \/ (q = op /\ Pending(q)' = Pending(q) \cup {k})
    BY <1>2, <1>4, <1>5 DEF Pending, Handles
<1>7. Failed.status # "ok"
    BY DEF Failed, Reply
<1>8. CallInStep'
    BY <1>2, <1>4, <1>5, <1>7 DEF CallInStep, Operations
<1> QED
    BY <1>3, <1>6, <1>8 DEF MayPend

LEMMA DispatchKeeps ==
    ASSUME AInv, NEW op \in Operations, Dispatch(op)
    PROVE  AInv'
<1> DEFINE m == ad.requests + 1
<1>0. /\ Permitted(op) /\ MayDispatch /\ call' = op
      /\ UNCHANGED <<result, left, cancelled, receipts, settled>>
      /\ ad' = [Attempted(op) EXCEPT !.requests = @ + 1]
    BY DEF Dispatch
<1>1. m \in 0 .. max_provider_requests /\ m <= ad.requests + 1
    BY <1>0, AdTypes, AdapterAssumption DEF MayDispatch
<1>2. ad' = [Attempted(op) EXCEPT !.requests = m]
    BY <1>0, AttemptedType
<1>3. ad' = [Attempted(op) EXCEPT !.session = ad.session, !.requests = m]
    BY <1>0, <1>2, AttemptedType
<1>4. PICK y : y = ad'
    OBVIOUS
<1>5. y = [Attempted(op) EXCEPT !.session = ad.session, !.requests = m]
    BY <1>3, <1>4
<1>6. ChargedFor(op, ad.session, m, y)
    BY <1>0, <1>1, <1>5, AdTypes, AttemptFacts
<1>7. ad'.session = ad.session /\ ad'.cursor = ad.cursor
    BY <1>4, <1>6 DEF ChargedFor
<1>8. /\ result' \in Results
      /\ receipts' \in Seq([op : Operations, request_count : 0 .. max_provider_requests])
    BY <1>0 DEF AInv, AdTypeOK
<1> HIDE DEF m
<1>9. CASE conn' = NoConn /\ UNCHANGED vars
  <2>1. PInv' /\ UNCHANGED <<sessions, answered>>
    BY <1>9, UnchangedPending DEF vars
  <2>2. MayPend(op) /\ CallInStep'
    BY <1>9, UnchangedPending DEF MayPend, CallInStep
  <2> QED
    BY <1>0, <1>1, <1>3, <1>8, <1>9, <2>1, <2>2, AttemptKeeps
<1>10. ASSUME NEW k \in Conns, NEW r \in AsksOf(op), conn' = k, Arrive(k, r)
       PROVE  AInv'
  <2>1. r \in Request /\ MayPend(op) /\ CallInStep'
    BY <1>0, <1>7, <1>10, ArrivedCall
  <2>2. PInv'
    BY <1>10, <2>1, ProviderInvariant DEF AInv, ProviderStep
  <2>3. UNCHANGED <<sessions, answered>>
    BY <1>10 DEF Arrive
  <2>4. conn' \in Conns \cup {NoConn} /\ call' \in {"none", op}
    BY <1>0, <1>10
  <2> QED
    BY <1>0, <1>1, <1>3, <1>8, <2>1, <2>2, <2>3, <2>4, AttemptKeeps
<1> QED
    BY <1>9, <1>10 DEF Dispatch

\* The adapter commits a whole answer that was in time.
LEMMA CommitFacts ==
    ASSUME AInv, NEW op \in Operations, Succeeded(op), NEW a,
           a.requests = ad.requests, Commit(a)
    PROVE  /\ AnswerHolds(op, ans[conn]) /\ ans[conn] \in Answer /\ call = op
           /\ UNCHANGED <<sessions, answered, left, cancelled>> /\ PInv'
           /\ \A q \in Operations : Pending(q)' = Pending(q)
           /\ ad' = a /\ call' = "none" /\ conn' = NoConn /\ CallInStep' /\ result' \in Results
           /\ receipts' \in Seq([op : Operations, request_count : 0 .. max_provider_requests])
<1>1. call = op /\ conn # NoConn /\ stage[conn] = "answered" /\ ans[conn].status = "ok"
    BY DEF Succeeded, Answered
<1>2. conn \in Conns /\ ans[conn] \in Answer
    BY <1>1, CallIsManaged, AdTypes DEF TypeOK
<1>3. AnswerHolds(op, ans[conn])
    BY <1>1 DEF AInv, CallInStep
<1>4. Forget(conn)
    BY DEF Commit
<1>5. PInv' /\ \A q \in Operations : Pending(q)' = Pending(q)
    BY <1>2, <1>4, ForgetPending
<1>6. UNCHANGED <<sessions, answered, left, cancelled>>
    BY <1>4 DEF Forget, Commit
<1>7. a.requests \in 0 .. max_provider_requests
    BY AdTypes DEF AdType
<1>8. receipts' \in Seq([op : Operations, request_count : 0 .. max_provider_requests])
    BY <1>1, <1>7, ReceiptTypes DEF Commit
<1>9. ad' = a /\ call' = "none" /\ conn' = NoConn /\ CallInStep' /\ result' \in Results
    BY DEF Commit, CallInStep, Results
<1> QED
    BY <1>1, <1>2, <1>3, <1>5, <1>6, <1>8, <1>9

\* The registration's answer names the one session there is.
LEMMA RegisteredKeeps ==
    ASSUME AInv, Registered
    PROVE  AInv'
<1> DEFINE s == ans[conn].session
           y == [ad EXCEPT !.session = s, !.lifecycle = "Registered"]
<1>0. ad \in AdType /\ "register" \in Operations /\ Succeeded("register") /\ settled' = settled
    BY AdTypes DEF Operations, Registered
<1>1. y.requests = ad.requests /\ Commit(y)
    BY <1>0 DEF AdType, Registered
<1> HIDE DEF y
<1>2. /\ AnswerHolds("register", ans[conn]) /\ call = "register"
      /\ UNCHANGED <<sessions, answered, left, cancelled>> /\ PInv'
      /\ \A q \in Operations : Pending(q)' = Pending(q)
      /\ ad' = y /\ call' = "none" /\ conn' = NoConn /\ CallInStep' /\ result' \in Results
      /\ receipts' \in Seq([op : Operations, request_count : 0 .. max_provider_requests])
    BY <1>0, <1>1, CommitFacts
<1>3. s \in Sessions /\ sessions[s].phase # "unborn"
    BY <1>2 DEF AnswerHolds
<1> HIDE DEF s
<1>4. /\ y \in AdType /\ y.session = s /\ y.lifecycle = "Registered" /\ y.cursor = ad.cursor
      /\ y.callbacks = ad.callbacks /\ y.seen = ad.seen
      /\ y.registration_attempted = ad.registration_attempted
      /\ y.callback_attempts = ad.callback_attempts /\ y.poll_attempts = ad.poll_attempts
      /\ y.cleanup_attempted = ad.cleanup_attempted
      /\ y.cleanup_verified = ad.cleanup_verified /\ y.requests = ad.requests
    BY <1>0, <1>3 DEF AdType, Lifecycles, y
<1>5. /\ ad.lifecycle = "Configured" /\ ad.cursor = 0 /\ ad.seen = {} /\ settled = {}
      /\ ~ad.cleanup_attempted
    BY <1>2 DEF AInv, LifecycleInStep
<1>6. AdTypeOK'
    BY <1>0, <1>2, <1>4 DEF AInv, AdTypeOK, AdType, PInv
<1>7. Pending("register") = {}
    BY <1>3 DEF AInv, OneSession
<1>8. OneSession' /\ PollsAreCharged' /\ SessionLives'
    BY <1>2, <1>4, <1>7, AdapterMoves DEF Stands
<1>9. RequestsAreCounted'
    BY <1>2, <1>4 DEF AInv, RequestsAreCounted
<1>10. LifecycleInStep'
    BY <1>2, <1>3, <1>4, <1>5 DEF LifecycleInStep
<1>11. CursorInRange' /\ ObservationsAreExact'
  <2>1. ad'.session = s /\ ad'.cursor = 0 /\ ad'.seen = {} /\ settled' = {}
    BY <1>0, <1>2, <1>4, <1>5
  <2>2. sessions'[s].next_cursor \in Nat /\ \A c \in Callbacks : sessions'[s].cursor[c] \in Nat
    BY <1>2, <1>3, RecordTypes DEF PInv, TypeOK
  <2>3. {c \in Callbacks : HasEvent(sessions'[s], c) /\ sessions'[s].cursor[c] <= 0} = {}
    BY <2>2 DEF HasEvent
  <2>4. 0 <= sessions'[s].next_cursor
    BY <2>2
  <2> QED
    BY <2>1, <2>3, <2>4
      DEF CursorInRange, ObservationsAreExact, CursorMatchesSeen, SeenIsWholeAndTrue
<1>12. VerifiedCleanupIsFinal' /\ (ad'.cleanup_verified => ad'.cleanup_attempted)
    BY <1>2, <1>4, <1>5 DEF AInv, VerifiedCleanupIsFinal
<1> QED
    BY <1>2, <1>6, <1>8, <1>9, <1>10, <1>11, <1>12 DEF AInv

LEMMA AllocatedKeeps ==
    ASSUME AInv, Allocated
    PROVE  AInv'
<1> DEFINE c == ans[conn].callback
           y == [ad EXCEPT !.callbacks = @ \cup {c}, !.lifecycle = "CallbackAllocated"]
<1>0. ad \in AdType /\ "allocate" \in Operations /\ Succeeded("allocate") /\ settled' = settled
    BY AdTypes DEF Operations, Allocated
<1>1. y.requests = ad.requests /\ Commit(y)
    BY <1>0 DEF AdType, Allocated
<1> HIDE DEF y
<1>2. /\ AnswerHolds("allocate", ans[conn]) /\ call = "allocate"
      /\ UNCHANGED <<sessions, answered, left, cancelled>> /\ PInv'
      /\ \A q \in Operations : Pending(q)' = Pending(q)
      /\ ad' = y /\ call' = "none" /\ conn' = NoConn /\ CallInStep' /\ result' \in Results
      /\ receipts' \in Seq([op : Operations, request_count : 0 .. max_provider_requests])
    BY <1>0, <1>1, CommitFacts
<1>3. c \in Callbacks
    BY <1>2 DEF AnswerHolds
<1> HIDE DEF c
<1>4. /\ y \in AdType /\ y.session = ad.session /\ y.lifecycle = "CallbackAllocated"
      /\ y.cursor = ad.cursor /\ y.callbacks = ad.callbacks \cup {c} /\ y.seen = ad.seen
      /\ y.registration_attempted = ad.registration_attempted
      /\ y.callback_attempts = ad.callback_attempts /\ y.poll_attempts = ad.poll_attempts
      /\ y.cleanup_attempted = ad.cleanup_attempted
      /\ y.cleanup_verified = ad.cleanup_verified /\ y.requests = ad.requests
    BY <1>0, <1>3 DEF AdType, Lifecycles, y
<1>5. ad.lifecycle \in {"Registered", "CallbackAllocated"} /\ ~ad.cleanup_attempted
    BY <1>2 DEF AInv, LifecycleInStep
<1>6. AdTypeOK'
    BY <1>0, <1>2, <1>4 DEF AInv, AdTypeOK, AdType, PInv
<1>7. Pending("register") = {}
    BY <1>5 DEF AInv, OneSession
<1>8. OneSession' /\ PollsAreCharged' /\ SessionLives'
    BY <1>2, <1>4, <1>7, AdapterMoves DEF Stands
<1>9. RequestsAreCounted'
    BY <1>2, <1>4 DEF AInv, RequestsAreCounted
<1>10. LifecycleInStep'
    BY <1>2, <1>3, <1>4, <1>5 DEF AInv, LifecycleInStep
<1>11. CursorInRange' /\ ObservationsAreExact'
  <2>1. ad'.session = ad.session /\ ad'.cursor = ad.cursor /\ ad'.seen = ad.seen
    BY <1>2, <1>4
  <2>2. Present' = Present /\ sessions' = sessions /\ answered' = answered
    BY <1>2 DEF Present
  <2> QED
    BY <1>0, <2>1, <2>2
      DEF AInv, CursorInRange, ObservationsAreExact, CursorMatchesSeen, SeenIsWholeAndTrue
<1>12. VerifiedCleanupIsFinal' /\ (ad'.cleanup_verified => ad'.cleanup_attempted)
    BY <1>2, <1>4, <1>5 DEF AInv, VerifiedCleanupIsFinal
<1> QED
    BY <1>2, <1>6, <1>8, <1>9, <1>10, <1>11, <1>12 DEF AInv

LEMMA CleanedKeeps ==
    ASSUME AInv, Cleaned
    PROVE  AInv'
<1> DEFINE y == [ad EXCEPT !.cleanup_verified = TRUE, !.session = NoSession]
<1>0. ad \in AdType /\ "cleanup" \in Operations /\ Succeeded("cleanup") /\ settled' = settled
    BY AdTypes DEF Operations, Cleaned
<1>1. y.requests = ad.requests /\ Commit(y)
    BY <1>0 DEF AdType, Cleaned
<1>4. /\ y \in AdType /\ y.session = NoSession /\ y.lifecycle = ad.lifecycle
      /\ y.cursor = ad.cursor /\ y.callbacks = ad.callbacks /\ y.seen = ad.seen
      /\ y.registration_attempted = ad.registration_attempted
      /\ y.callback_attempts = ad.callback_attempts /\ y.poll_attempts = ad.poll_attempts
      /\ y.cleanup_attempted = ad.cleanup_attempted /\ y.requests = ad.requests
    BY <1>0 DEF AdType
<1> HIDE DEF y
<1>2. /\ AnswerHolds("cleanup", ans[conn]) /\ call = "cleanup"
      /\ UNCHANGED <<sessions, answered, left, cancelled>> /\ PInv'
      /\ \A q \in Operations : Pending(q)' = Pending(q)
      /\ ad' = y /\ call' = "none" /\ conn' = NoConn /\ CallInStep' /\ result' \in Results
      /\ receipts' \in Seq([op : Operations, request_count : 0 .. max_provider_requests])
    BY <1>0, <1>1, CommitFacts
<1>3. Present = {} /\ Present' = {}
    BY <1>2 DEF AnswerHolds, Present
<1>5. ad.lifecycle = "Closed" /\ ad.cleanup_attempted
    BY <1>2 DEF AInv, LifecycleInStep
<1>6. AdTypeOK'
    BY <1>0, <1>2, <1>4 DEF AInv, AdTypeOK, AdType, PInv
<1>8. OneSession' /\ PollsAreCharged' /\ SessionLives'
    BY <1>2, <1>4, AdapterMoves DEF Stands
<1>9. RequestsAreCounted'
    BY <1>2, <1>4 DEF AInv, RequestsAreCounted
<1>10. LifecycleInStep'
    BY <1>2, <1>4, <1>5 DEF LifecycleInStep
<1>11. CursorInRange' /\ ObservationsAreExact'
  <2>1. ad'.seen = ad.seen /\ answered' = answered /\ settled' = settled
    BY <1>0, <1>2, <1>4
  <2> QED
    BY <1>3, <2>1
      DEF AInv, CursorInRange, ObservationsAreExact, CursorMatchesSeen, SeenIsWholeAndTrue
<1>12. VerifiedCleanupIsFinal' /\ (ad'.cleanup_verified => ad'.cleanup_attempted)
    BY <1>2, <1>3, <1>4, <1>5 DEF VerifiedCleanupIsFinal, Present
<1> QED
    BY <1>2, <1>6, <1>8, <1>9, <1>10, <1>11, <1>12 DEF AInv

\* An accepted page and the cursor that goes with it.
LEMMA PageAcceptedKeeps ==
    ASSUME AInv, Succeeded("poll"), PageAccepted(ans[conn]), Commit(Reduced(ans[conn])),
           settled' = ans[conn].owed
    PROVE  AInv'
<1> DEFINE p == ans[conn]
           y == Reduced(p)
<1>0. ad \in AdType /\ "poll" \in Operations
    BY AdTypes DEF Operations
<1>1. y.requests = ad.requests
    BY <1>0 DEF AdType, Reduced
<1> HIDE DEF y
<1>2. /\ AnswerHolds("poll", p) /\ p \in Answer /\ call = "poll"
      /\ UNCHANGED <<sessions, answered, left, cancelled>> /\ PInv'
      /\ \A q \in Operations : Pending(q)' = Pending(q)
      /\ ad' = y /\ call' = "none" /\ conn' = NoConn /\ CallInStep' /\ result' \in Results
      /\ receipts' \in Seq([op : Operations, request_count : 0 .. max_provider_requests])
    BY <1>0, <1>1, CommitFacts DEF y
<1>3. p.complete /\ PageHolds(p) /\ (ad.callbacks # {} => ad.remaining > 0)
    BY <1>2 DEF PageAccepted, AnswerHolds
<1>4. p.next_cursor \in Nat /\ p.events \subseteq Callbacks /\ p.owed \subseteq Callbacks
    BY <1>2 DEF Answer
<1>5. /\ ad.lifecycle \in {"CallbackAllocated", "Polling"} /\ ~ad.cleanup_attempted
      /\ ad.callbacks # {}
    BY <1>2 DEF AInv, LifecycleInStep
<1>6. settled' = p.owed
    OBVIOUS
<1> HIDE DEF p
<1> DEFINE n == p.next_cursor
           E == p.events
           i == ad.remaining - 1
<1>7. i \in 0 .. max_polls
  <2>1. ad.remaining \in 0 .. max_polls /\ ad.remaining > 0 /\ max_polls \in Nat
    BY <1>0, <1>3, <1>5, LimitsAssumption DEF AdType
  <2> QED
    BY <2>1
<1>8. y = [ad EXCEPT !.seen = @ \cup E, !.remaining = i, !.cursor = n, !.lifecycle = "Polling"]
    BY DEF y, Reduced
<1> HIDE DEF i
<1>9. /\ y \in AdType /\ y.session = ad.session /\ y.lifecycle = "Polling"
      /\ y.cursor = n /\ y.callbacks = ad.callbacks /\ y.seen = ad.seen \cup E
      /\ y.registration_attempted = ad.registration_attempted
      /\ y.callback_attempts = ad.callback_attempts /\ y.poll_attempts = ad.poll_attempts
      /\ y.cleanup_attempted = ad.cleanup_attempted
      /\ y.cleanup_verified = ad.cleanup_verified /\ y.requests = ad.requests
    BY <1>0, <1>4, <1>7, <1>8 DEF AdType, Lifecycles
<1>10. AdTypeOK'
    BY <1>2, <1>4, <1>6, <1>9 DEF AInv, AdTypeOK, AdType, PInv
<1>11. OneSession' /\ PollsAreCharged' /\ SessionLives'
  <2>1. Pending("register") = {}
    BY <1>5 DEF AInv, OneSession
  <2> QED
    BY <1>2, <1>9, <2>1, AdapterMoves DEF Stands
<1>12. RequestsAreCounted'
    BY <1>2, <1>9 DEF AInv, RequestsAreCounted
<1>13. LifecycleInStep'
    BY <1>2, <1>5, <1>9 DEF AInv, LifecycleInStep
<1>14. CursorInRange' /\ CursorMatchesSeen'
  <2>1. SUFFICES ASSUME ad.session \in Present
                 PROVE  /\ n <= sessions[ad.session].next_cursor
                        /\ ad.seen \cup E = {c \in Callbacks :
                               /\ HasEvent(sessions[ad.session], c)
                               /\ sessions[ad.session].cursor[c] <= n}
    BY <1>2, <1>9 DEF CursorInRange, CursorMatchesSeen, Present
  <2> DEFINE x == sessions[ad.session]
             a == ad.cursor
  <2>2. /\ a \in Nat /\ x.next_cursor \in Nat /\ \A c \in Callbacks : x.cursor[c] \in Nat
    BY <2>1, AdTypes, RecordTypes DEF Present, TypeOK
  <2>3. /\ n \in a .. x.next_cursor
        /\ E = {c \in Callbacks : a < x.cursor[c] /\ x.cursor[c] <= n}
    BY <1>3, <2>1 DEF PageHolds
  <2>4. ad.seen = {c \in Callbacks : HasEvent(x, c) /\ x.cursor[c] <= a}
    BY <2>1 DEF AInv, ObservationsAreExact, CursorMatchesSeen
  <2> HIDE DEF x, a, n, E
  <2>5. \A c \in Callbacks :
            (HasEvent(x, c) /\ x.cursor[c] <= a) \/ (a < x.cursor[c] /\ x.cursor[c] <= n)
                <=> HasEvent(x, c) /\ x.cursor[c] <= n
    BY <2>2, <2>3 DEF HasEvent
  <2>6. ad.seen \cup E = {c \in Callbacks : HasEvent(x, c) /\ x.cursor[c] <= n}
    BY <2>3, <2>4, <2>5
  <2>7. n <= x.next_cursor
    BY <2>2, <2>3
  <2> QED
    BY <2>6, <2>7 DEF x
<1>15. SeenIsWholeAndTrue'
  <2>1. p.owed \subseteq ad.seen \cup E /\ E \subseteq UNION {answered[s] : s \in Sessions}
    BY <1>3 DEF PageHolds
  <2>2. ad.seen \subseteq UNION {answered[s] : s \in Sessions}
    BY DEF AInv, ObservationsAreExact, SeenIsWholeAndTrue
  <2>3. ad'.seen = ad.seen \cup E /\ answered' = answered
    BY <1>2, <1>9
  <2> QED
    BY <1>6, <2>1, <2>2, <2>3 DEF SeenIsWholeAndTrue
<1>16. VerifiedCleanupIsFinal' /\ (ad'.cleanup_verified => ad'.cleanup_attempted)
    BY <1>2, <1>9 DEF AInv, VerifiedCleanupIsFinal
<1> QED
    BY <1>2, <1>10, <1>11, <1>12, <1>13, <1>14, <1>15, <1>16 DEF AInv, ObservationsAreExact

-----------------------------------------------------------------------------
(***************************************************************************)
(* The adapter against the provider                                        *)
(***************************************************************************)

LEMMA InitAInv == AdInit => AInv
<1> SUFFICES ASSUME AdInit PROVE AInv
    OBVIOUS
<1>1. PInv /\ Init
    BY InitPInv DEF AdInit
<1>2. \A s \in Sessions :
          sessions[s].phase = "unborn" /\ sessions[s].polls = 0
    BY <1>1 DEF Init, Blank
<1>3. \A q \in Operations : Pending(q) = {}
    BY <1>1 DEF Init, Pending, Handles
<1>4. AdTypeOK
  <2>1. Lifetime \in 0 .. Lifetime /\ max_polls \in 0 .. max_polls /\ 0 \in 0 .. max_polls
        /\ 0 \in 0 .. max_callbacks /\ 0 \in 0 .. max_provider_requests
    BY LimitsAssumption, AdapterAssumption
  <2>2. ad \in AdType
    BY <2>1 DEF AdInit, AdType, Lifecycles
  <2>3. receipts \in Seq([op : Operations, request_count : 0 .. max_provider_requests])
    BY DEF AdInit
  <2> QED
    BY <1>1, <2>1, <2>2, <2>3 DEF AdInit, AdTypeOK, AdType, PInv, Results
<1>5. /\ ad.lifecycle = "Configured" /\ ad.session = NoSession /\ ad.cursor = 0 /\ ad.seen = {}
      /\ ~ad.registration_attempted /\ ad.callback_attempts = 0 /\ ad.poll_attempts = 0
      /\ ~ad.cleanup_attempted /\ ~ad.cleanup_verified /\ ad.requests = 0
      /\ call = "none" /\ conn = NoConn /\ settled = {}
    BY DEF AdInit
<1>6. Pending("register") = {} /\ Pending("poll") = {} /\ Pending("cleanup") = {}
    BY <1>3 DEF Operations
<1>7. OneSession
    BY <1>2, <1>6 DEF OneSession
<1>8. PollsAreCharged
  <2>1. IsFiniteSet({}) /\ Cardinality({}) = 0
    BY FS_EmptySet
  <2>2. IsFiniteSet(Pending("poll")) /\ Cardinality(Pending("poll")) = 0
    BY <1>6, <2>1
  <2> QED
    BY <1>2, <1>5, <2>2 DEF PollsAreCharged
<1>9. SessionLives
    BY <1>2, <1>6 DEF SessionLives
<1>10. RequestsAreCounted
    BY <1>5 DEF RequestsAreCounted
<1>11. LifecycleInStep /\ CallInStep
    BY <1>5 DEF LifecycleInStep, CallInStep
<1>12. CursorInRange /\ ObservationsAreExact /\ VerifiedCleanupIsFinal
    BY <1>2, <1>5, SessionsAssumption
      DEF CursorInRange, ObservationsAreExact, CursorMatchesSeen, SeenIsWholeAndTrue, Present,
          VerifiedCleanupIsFinal
<1> QED
    BY <1>1, <1>4, <1>5, <1>7, <1>8, <1>9, <1>10, <1>11, <1>12 DEF AInv

LEMMA NextAInv == AInv /\ [AdNext]_allVars => AInv'
<1> SUFFICES ASSUME AInv, [AdNext]_allVars PROVE AInv'
    OBVIOUS
<1>0. result \in Results /\ cancelled \in BOOLEAN
    BY DEF AInv, AdTypeOK
<1>1. ASSUME NEW op \in Operations, Reject(op) PROVE AInv'
  <2>1. result' \in Results
    BY <1>1 DEF Reject, Results
  <2>2. cancelled' \in BOOLEAN
    BY <1>0, <1>1 DEF Reject
  <2> QED
    BY <1>1, <2>1, <2>2, IdleKeeps DEF Reject
<1>2. ASSUME NEW op \in Operations, Call(op) PROVE AInv'
    BY <1>1, <1>2, FailBeforeDispatchKeeps, DispatchKeeps DEF Call
<1>3. CASE Polled
    BY <1>3, PageAcceptedKeeps, PageRejectedKeeps DEF Polled
<1>4. CASE Adapter
    BY <1>3, <1>4, GiveUpKeeps, TakeFailureKeeps, RegisteredKeeps, AllocatedKeeps, CleanedKeeps
      DEF Adapter
<1>5. CASE Background
    BY <1>5, ServerKeeps, ForgottenKeeps DEF Background
<1>6. CASE Cancel
  <2>1. cancelled' \in BOOLEAN /\ result' \in Results
    BY <1>0, <1>6 DEF Cancel
  <2> QED
    BY <1>6, <2>1, IdleKeeps DEF Cancel
<1>7. CASE UNCHANGED allVars
  <2>1. /\ UNCHANGED vars /\ UNCHANGED <<ad, call, conn, left, receipts, settled>>
        /\ result' \in Results /\ cancelled' \in BOOLEAN
    BY <1>0, <1>7 DEF allVars, adVars
  <2> QED
    BY <2>1, IdleKeeps
<1> QED
    BY <1>2, <1>4, <1>5, <1>6, <1>7, ClockKeeps, HitKeeps DEF AdNext

\* Adapter and provider together keep the inductive invariant.
THEOREM SessionInvariance == AdSpec => []AInv
BY InitAInv, NextAInv, PTL DEF AdSpec

\* Also for the adapter's requests, the ones it gave up on included, the provider's pages
\* are whole: pages called complete are, no event is skipped between two pages, and the
\* cursors leave no gap (poll_bearer_at over observe_callback_at).
THEOREM PagesWhole == AdSpec => []PagesAreWhole
<1>1. AInv => PagesAreWhole
    BY WholePages DEF AInv
<1> QED
    BY <1>1, SessionInvariance, PTL

\* What the adapter reports as observed is exactly what happened: its correlations and its
\* cursor agree with the provider's events, and an accepted page leaves nothing out, though
\* answers are lost and requests it gave up on are served later (poll_inner).
THEOREM ObservationsExact == AdSpec => []ObservationsAreExact
<1>1. AInv => ObservationsAreExact
    BY DEF AInv
<1> QED
    BY <1>1, SessionInvariance, PTL

\* The poll that waits for the lock was charged by the adapter and not yet by the provider.
LEMMA BudgetsAgree == AInv => PollBudgetsAgree
<1> SUFFICES ASSUME AInv, NEW k \in Conns, Handles(k, "poll"), req[k].session \in Present
             PROVE  MayPoll(req[k].session)
    BY DEF PollBudgetsAgree
<1> DEFINE s == req[k].session
           i == sessions[s].polls
           a == ad.poll_attempts
           n == Cardinality(Pending("poll"))
<1>1. s \in Sessions /\ IsFiniteSet(Pending("poll")) /\ k \in Pending("poll")
    BY DEF Present, Pending, AInv, PollsAreCharged
<1>2. n \in Nat /\ n # 0
    BY <1>1, FS_CardinalityType, FS_EmptySet
<1>3. i \in Nat /\ a \in Nat /\ max_polls \in Nat /\ a <= max_polls
    BY <1>1, AdTypes, RecordTypes, LimitsAssumption DEF TypeOK, AdType
<1>4. i + n <= a
    BY <1>1 DEF AInv, PollsAreCharged
<1> HIDE DEF i, a, n
<1>5. i < max_polls
    BY <1>2, <1>3, <1>4
<1> QED
    BY <1>5 DEF MayPoll, i

LEMMA SessionOutlives == AInv => SessionOutlivesPermit
<1> SUFFICES ASSUME AInv, ad.session # NoSession
             PROVE  \/ /\ sessions[ad.session].phase = "present"
                       /\ sessions[ad.session].life >= left
                    \/ ad.cleanup_attempted
                    \/ left = 0
    BY DEF SessionOutlivesPermit
<1> DEFINE s == ad.session
<1>1. s \in Sessions /\ sessions[s].phase # "unborn"
    BY AdTypes DEF AInv, LifecycleInStep
<1>2. sessions[s].phase \in {"unborn", "present", "removed"} /\ sessions[s].life \in Nat
    BY <1>1, AdTypes, RecordTypes DEF TypeOK
<1>3. left \in Nat
    BY DEF AInv, AdTypeOK
<1>4. sessions[s].phase = "present" => left <= sessions[s].life
    BY <1>1 DEF AInv, SessionLives
<1>5. sessions[s].phase = "removed" => left = 0 \/ ad.cleanup_attempted
    BY <1>1 DEF AInv, SessionLives
<1> QED
    BY <1>1, <1>2, <1>3, <1>4, <1>5

\* The host grants the requests of all callbacks and polls, and two more.
GrantIsAmple == max_provider_requests >= max_callbacks + max_polls + 2

LEMMA CleanupAffordable == AInv /\ GrantIsAmple => CleanupIsAffordable
<1> SUFFICES ASSUME AInv, GrantIsAmple, Permitted("cleanup")
             PROVE  ad.requests < max_provider_requests
    BY DEF CleanupIsAffordable
<1> DEFINE r == ad.requests
           c == ad.callback_attempts
           p == ad.poll_attempts
           i == IF ad.registration_attempted THEN 1 ELSE 0
           j == IF ad.cleanup_attempted THEN 1 ELSE 0
<1>1. /\ r \in Nat /\ c \in Nat /\ p \in Nat /\ c <= max_callbacks /\ p <= max_polls
      /\ max_callbacks \in Nat /\ max_polls \in Nat /\ max_provider_requests \in Nat
    BY AdTypes, LimitsAssumption, AdapterAssumption DEF AdType
<1>2. j = 0 /\ i \in {0, 1}
    BY DEF Permitted
<1>3. r <= i + c + p + j
    BY DEF AInv, RequestsAreCounted
<1> HIDE DEF r, c, p, i, j
<1>4. r < max_provider_requests
    BY <1>1, <1>2, <1>3 DEF GrantIsAmple
<1> QED
    BY <1>4 DEF r

\* From registration to cleanup the two sides agree about the session: it lives as long as
\* the permit, polls are never refused for the budget, and a cleanup that was verified is
\* final; and a cleanup can always be paid for, when the host grants two requests more than
\* the callbacks and polls it permits (register_inner, poll_inner, cleanup_inner against
\* ProviderState).
THEOREM SessionAgreed ==
    ASSUME GrantIsAmple
    PROVE  AdSpec => []SessionIsAgreed
<1>1. AInv => SessionIsAgreed
    BY BudgetsAgree, SessionOutlives, CleanupAffordable DEF SessionIsAgreed, AInv
<1> QED
    BY <1>1, SessionInvariance, PTL

(***************************************************************************)
(* The review                                                              *)
(***************************************************************************)

\* The task awaits one operation of its adapter at a time, the one of its step.
AwaitsItsCall ==
    /\ call # "none" => pc \in DOMAIN OperationAt /\ call = OperationAt[pc] /\ result = "none"
    /\ pc \in {"post", "posting", "done"} => call = "none" /\ result = "none"
    /\ pc = "register" => result = "ok" \/ ad.lifecycle = "Configured"

\* What a returned cleanup means.
CleanupReturns ==
    pc = "cleanup" /\ call = "none" /\ result # "none" =>
        /\ ad.lifecycle \in {"Configured", "Closed"}
        /\ result = "ok" => ad.cleanup_verified

\* Facts are of pages the adapter accepted, and they hold all that was answered then.
FactsAreSeen ==
    /\ facts.events \subseteq ad.seen
    /\ facts.preflight_clean => settledAt[0] = {}
    /\ \A r \in Roles : /\ settledAt[r] \subseteq facts.events
                        /\ ~facts.phase_contaminated => settledAt[r] \subseteq 1 .. r

\* Documents are sent in the order of the roles.
SentInOrder ==
    /\ pc \in {"register", "allocate", "preflight"} => role = 1 /\ facts.posted = 0
    /\ pc = "post" => 1 .. (role - 1) \subseteq dispatched /\ facts.posted = role - 1
    /\ pc \in {"posting", "poll"} => 1 .. role \subseteq dispatched /\ facts.posted = role
    /\ facts.target_complete => dispatched = Roles

\* Nothing is concluded before the end.
ConcludedAtTheEnd == pc # "done" => outcome \notin {"Repeated", "NoCallback"}

\* What the review adds to the invariant of adapter and provider.
Reviewing ==
    /\ rvTypeOK
    /\ AwaitsItsCall
    /\ CleanupReturns
    /\ FactsAreSeen
    /\ SentInOrder
    /\ ConcludedAtTheEnd
    /\ PositiveIsFounded
    /\ NegativeIsFounded
    /\ SessionIsAlwaysClosed

\* The inductive invariant of the review.
RVInv == AInv /\ Reviewing

-----------------------------------------------------------------------------
(***************************************************************************)
(* Steps of the adapter under the review                                   *)
(***************************************************************************)

LEMMA RolesAreCallbacks == ReviewLimits => Callbacks = Roles
BY CallbacksAssumption DEF Roles, ReviewLimits

LEMMA FailMoves ==
    ASSUME AInv, NEW op, NEW kind, Fail(ad, op, kind)
    PROVE  /\ call' = "none" /\ result' = kind
           /\ ad'.seen = ad.seen /\ ad'.lifecycle = ad.lifecycle
<1>1. ad \in AdType
    BY AdTypes
<1> QED
    BY <1>1 DEF Fail, AdType

\* An operation that is called ends at once without a result, or waits for its answer.
LEMMA CallMoves ==
    ASSUME AInv, NEW op \in Operations, Call(op)
    PROVE  /\ call = "none" /\ ad'.seen = ad.seen
           /\ \/ call' = op /\ result' = result
              \/ call' = "none" /\ result' \in {"cancelled", "budget", "other"}
           /\ op # "cleanup" => ad'.lifecycle = ad.lifecycle
           /\ op = "cleanup" /\ call' = "none" => ad'.lifecycle \in {"Configured", "Closed"}
<1>1. CASE Reject(op)
  <2>1. /\ call = "none" /\ call' = "none" /\ ad' = ad /\ ~Permitted(op)
        /\ result' \in {"cancelled", "budget", "other"}
    BY <1>1 DEF Reject
  <2>2. ASSUME op = "cleanup" PROVE ad.lifecycle \in {"Configured", "Closed"}
    <3>1. ~LifecycleAllows("cleanup") \/ ad.cleanup_attempted
      BY <2>1, <2>2 DEF Permitted
    <3>2. ad.lifecycle \in Lifecycles
      BY AdTypes DEF AdType
    <3>3. CASE ad.cleanup_attempted
      BY <3>3 DEF AInv, LifecycleInStep
    <3>4. CASE ~LifecycleAllows("cleanup")
      BY <3>2, <3>4 DEF LifecycleAllows, Lifecycles
    <3> QED
      BY <3>1, <3>3, <3>4
  <2> QED
    BY <2>1, <2>2
<1>2. CASE FailBeforeDispatch(op)
  <2> DEFINE s == IF op = "cleanup" THEN NoSession ELSE ad.session
             kind == IF cancelled THEN "cancelled" ELSE "budget"
  <2>1. call = "none" /\ Permitted(op) /\ Fail(Attempted(op), op, kind)
    BY <1>2 DEF FailBeforeDispatch
  <2>2. Attempted(op).session = ad.session
    BY <2>1, AttemptedType
  <2>3. ad' = [Attempted(op) EXCEPT !.session = s]
    BY <2>1, <2>2 DEF Fail
  <2>4. ad' = [Attempted(op) EXCEPT !.session = s, !.requests = ad.requests]
    BY <2>1, <2>3, AttemptedType
  <2>5. PICK y : y = ad'
    OBVIOUS
  <2>6. /\ s \in Sessions \cup {NoSession} /\ ad.requests \in 0 .. max_provider_requests
        /\ y = [Attempted(op) EXCEPT !.session = s, !.requests = ad.requests]
    BY <2>4, <2>5, AdTypes DEF AdType
  <2> HIDE DEF s
  <2>7. ChargedFor(op, s, ad.requests, y)
    BY <2>1, <2>6, AttemptFacts
  <2>8. y.seen = ad.seen /\ y.lifecycle = IF op = "cleanup" THEN "Closed" ELSE ad.lifecycle
    BY <2>7 DEF ChargedFor
  <2>9. call' = "none" /\ result' \in {"cancelled", "budget", "other"}
    BY <2>1 DEF Fail
  <2> QED
    BY <2>1, <2>5, <2>8, <2>9
<1>3. CASE Dispatch(op)
  <2> DEFINE m == ad.requests + 1
  <2>1. /\ call = "none" /\ Permitted(op) /\ MayDispatch /\ call' = op /\ result' = result
        /\ ad' = [Attempted(op) EXCEPT !.requests = @ + 1]
    BY <1>3 DEF Dispatch
  <2>2. m \in 0 .. max_provider_requests
    BY <2>1, AdTypes, AdapterAssumption DEF MayDispatch
  <2>3. ad' = [Attempted(op) EXCEPT !.requests = m]
    BY <2>1, AttemptedType
  <2>4. ad' = [Attempted(op) EXCEPT !.session = ad.session, !.requests = m]
    BY <2>1, <2>3, AttemptedType
  <2>5. PICK y : y = ad'
    OBVIOUS
  <2>6. y = [Attempted(op) EXCEPT !.session = ad.session, !.requests = m]
    BY <2>4, <2>5
  <2> HIDE DEF m
  <2>7. ChargedFor(op, ad.session, m, y)
    BY <2>1, <2>2, <2>6, AdTypes, AttemptFacts
  <2>8. y.seen = ad.seen /\ y.lifecycle = IF op = "cleanup" THEN "Closed" ELSE ad.lifecycle
    BY <2>7 DEF ChargedFor
  <2> QED
    BY <2>1, <2>5, <2>8
<1> QED
    BY <1>1, <1>2, <1>3 DEF Call

\* An operation that waited ends, and only its own answer is a result.
LEMMA AdapterEnds ==
    ASSUME AInv, Adapter
    PROVE  /\ call # "none" /\ call' = "none" /\ result' # "none" /\ ad.seen \subseteq ad'.seen
           /\ result' # "ok" => ad'.lifecycle = ad.lifecycle
           /\ call = "cleanup" => /\ ad'.lifecycle = "Closed"
                                  /\ result' = "ok" => ad'.cleanup_verified
<1>0. ad \in AdType /\ (call = "cleanup" => ad.lifecycle = "Closed")
    BY AdTypes DEF AInv, LifecycleInStep
<1>1. ASSUME NEW kind \in {"cancelled", "budget", "other"}, NEW op, Fail(ad, op, kind),
             call # "none"
      PROVE  /\ call # "none" /\ call' = "none" /\ result' # "none" /\ ad.seen \subseteq ad'.seen
             /\ result' # "ok" => ad'.lifecycle = ad.lifecycle
             /\ call = "cleanup" => /\ ad'.lifecycle = "Closed"
                                    /\ result' = "ok" => ad'.cleanup_verified
    BY <1>0, <1>1, FailMoves
<1>2. CASE GiveUp
  <2>1. PICK kind \in {"cancelled", "budget", "other"} : Fail(ad, call, kind)
    BY <1>2 DEF GiveUp, FailureKinds
  <2> QED
    BY <1>1, <1>2, <2>1 DEF GiveUp
<1>3. CASE TakeFailure
    BY <1>1, <1>3 DEF TakeFailure, Answered
<1>4. CASE Registered
  <2>1. /\ call = "register" /\ call' = "none" /\ result' = "ok"
        /\ ad' = [ad EXCEPT !.session = ans[conn].session, !.lifecycle = "Registered"]
    BY <1>4 DEF Registered, Succeeded, Commit
  <2> QED
    BY <1>0, <2>1 DEF AdType
<1>5. CASE Allocated
  <2>1. /\ call = "allocate" /\ call' = "none" /\ result' = "ok"
        /\ ad' = [ad EXCEPT !.callbacks = @ \cup {ans[conn].callback},
                            !.lifecycle = "CallbackAllocated"]
    BY <1>5 DEF Allocated, Succeeded, Commit
  <2> QED
    BY <1>0, <2>1 DEF AdType
<1>6. CASE Polled
  <2>1. call = "poll"
    BY <1>6 DEF Polled, Succeeded
  <2>2. CASE Commit(Reduced(ans[conn]))
    <3>1. ad' = Reduced(ans[conn]) /\ call' = "none" /\ result' = "ok"
      BY <2>2 DEF Commit
    <3>2. ad.seen \subseteq ad'.seen
      BY <1>0, <3>1 DEF Reduced, AdType
    <3> QED
      BY <2>1, <3>1, <3>2
  <2>3. CASE Fail(ad, "poll", "other")
    BY <1>1, <2>1, <2>3
  <2> QED
    BY <1>6, <2>2, <2>3 DEF Polled
<1>7. CASE Cleaned
  <2>1. /\ call = "cleanup" /\ call' = "none" /\ result' = "ok"
        /\ ad' = [ad EXCEPT !.cleanup_verified = TRUE, !.session = NoSession]
    BY <1>7 DEF Cleaned, Succeeded, Commit
  <2> QED
    BY <1>0, <2>1 DEF AdType
<1> QED
    BY <1>2, <1>3, <1>4, <1>5, <1>6, <1>7 DEF Adapter

LEMMA WorldMoves ==
    ASSUME World
    PROVE  UNCHANGED <<ad, call, result>> /\ pc # "done" /\ UNCHANGED rtVars /\ AdNext
BY DEF World, AdNext, Background, Hit, Cancel, Clock, adVars

\* While the facts do not change, the adapter may see more.
LEMMA AdapterAlone ==
    ASSUME Reviewing, UNCHANGED rtVars, pc # "done", ad.seen \subseteq ad'.seen,
           AwaitsItsCall', CleanupReturns'
    PROVE  Reviewing'
<1>1. UNCHANGED <<pc, role, leg_polls, facts, outcome, dispatched, settledAt>>
    BY DEF rtVars
<1>2. rvTypeOK' /\ SentInOrder' /\ ConcludedAtTheEnd'
    BY <1>1 DEF Reviewing, rvTypeOK, SentInOrder, ConcludedAtTheEnd, OperationAt
<1>3. FactsAreSeen'
    BY <1>1 DEF Reviewing, FactsAreSeen
<1>4. PositiveIsFounded' /\ NegativeIsFounded' /\ SessionIsAlwaysClosed'
    BY <1>1 DEF PositiveIsFounded, NegativeIsFounded, SessionIsAlwaysClosed
<1> QED
    BY <1>2, <1>3, <1>4 DEF Reviewing

LEMMA OperationsAt ==
    /\ DOMAIN OperationAt = {"register", "allocate", "preflight", "poll", "cleanup"}
    /\ OperationAt["register"] = "register" /\ OperationAt["cleanup"] = "cleanup"
    /\ \A p \in DOMAIN OperationAt : OperationAt[p] \in Operations
                                     /\ (OperationAt[p] = "cleanup" => p = "cleanup")
BY DEF OperationAt, Operations

LEMMA CallAdapterKeeps ==
    ASSUME RVInv, CallAdapter
    PROVE  RVInv'
<1> DEFINE op == OperationAt[pc]
<1>1. /\ pc \in DOMAIN OperationAt /\ result = "none" /\ op \in Operations /\ Call(op)
      /\ UNCHANGED rtVars /\ UNCHANGED pc /\ AInv /\ Reviewing
    BY OperationsAt DEF CallAdapter, RVInv, rtVars
<1>2. AInv'
    BY <1>1, NextAInv DEF AdNext
<1> HIDE DEF op
<1>3. /\ call = "none" /\ ad'.seen = ad.seen
      /\ \/ call' = op /\ result' = result
         \/ call' = "none" /\ result' \in {"cancelled", "budget", "other"}
      /\ op # "cleanup" => ad'.lifecycle = ad.lifecycle
      /\ op = "cleanup" /\ call' = "none" => ad'.lifecycle \in {"Configured", "Closed"}
    BY <1>1, CallMoves
<1>4. AwaitsItsCall'
  <2>1. call' # "none" =>
            pc' \in DOMAIN OperationAt /\ call' = OperationAt[pc'] /\ result' = "none"
    BY <1>1, <1>3 DEF op
  <2>2. pc' \notin {"post", "posting", "done"}
    BY <1>1, OperationsAt
  <2>3. pc' = "register" => result' = "ok" \/ ad'.lifecycle = "Configured"
    BY <1>1, <1>3, OperationsAt DEF Reviewing, AwaitsItsCall, op
  <2> QED
    BY <2>1, <2>2, <2>3, OperationsAt DEF AwaitsItsCall
<1>5. CleanupReturns'
  <2>1. ASSUME pc' = "cleanup", call' = "none", result' # "none"
        PROVE  ad'.lifecycle \in {"Configured", "Closed"} /\ result' # "ok"
    BY <1>1, <1>3, <2>1, OperationsAt DEF op
  <2> QED
    BY <2>1 DEF CleanupReturns
<1>6. pc # "done"
    BY <1>1, OperationsAt
<1> QED
    BY <1>1, <1>2, <1>3, <1>4, <1>5, <1>6, AdapterAlone DEF RVInv

LEMMA AdapterKeeps ==
    ASSUME RVInv, Adapter, UNCHANGED rtVars
    PROVE  RVInv'
<1>1. AInv /\ Reviewing /\ AInv' /\ UNCHANGED pc
    BY NextAInv DEF RVInv, AdNext, rtVars
<1>2. /\ call # "none" /\ call' = "none" /\ result' # "none" /\ ad.seen \subseteq ad'.seen
      /\ result' # "ok" => ad'.lifecycle = ad.lifecycle
      /\ call = "cleanup" => /\ ad'.lifecycle = "Closed"
                             /\ result' = "ok" => ad'.cleanup_verified
    BY <1>1, AdapterEnds
<1>3. /\ pc \in DOMAIN OperationAt /\ call = OperationAt[pc] /\ result = "none"
      /\ pc = "register" => ad.lifecycle = "Configured"
    BY <1>1, <1>2 DEF Reviewing, AwaitsItsCall
<1>4. AwaitsItsCall'
    BY <1>1, <1>2, <1>3, OperationsAt DEF AwaitsItsCall
<1>5. CleanupReturns'
    BY <1>1, <1>2, <1>3, OperationsAt DEF CleanupReturns
<1>6. pc # "done"
    BY <1>3, OperationsAt
<1> QED
    BY <1>1, <1>2, <1>4, <1>5, <1>6, AdapterAlone DEF RVInv

LEMMA WorldKeeps ==
    ASSUME RVInv, World
    PROVE  RVInv'
<1>1. UNCHANGED <<ad, call, result>> /\ pc # "done" /\ UNCHANGED rtVars /\ AdNext
    BY WorldMoves
<1>2. AInv' /\ Reviewing /\ UNCHANGED pc
    BY <1>1, NextAInv DEF RVInv, rtVars
<1>3. AwaitsItsCall' /\ CleanupReturns'
    BY <1>1, <1>2, OperationsAt DEF Reviewing, AwaitsItsCall, CleanupReturns
<1> QED
    BY <1>1, <1>2, <1>3, AdapterAlone DEF RVInv

-----------------------------------------------------------------------------
(***************************************************************************)
(* Steps of the review                                                     *)
(***************************************************************************)

\* Between operations of the adapter, before the end.
LEMMA MovesOn ==
    ASSUME RVInv, UNCHANGED vars, UNCHANGED <<ad, call, conn, left, cancelled, receipts, settled>>,
           call = "none", result' = "none", pc' \notin {"register", "done"},
           rvTypeOK', FactsAreSeen', SentInOrder', outcome' \notin {"Repeated", "NoCallback"}
    PROVE  RVInv'
<1>1. AInv'
  <2>1. cancelled' \in BOOLEAN /\ result' \in Results
    BY DEF RVInv, AInv, AdTypeOK, Results
  <2> QED
    BY <2>1, IdleKeeps DEF RVInv
<1>2. AwaitsItsCall' /\ CleanupReturns' /\ ConcludedAtTheEnd'
    BY DEF AwaitsItsCall, CleanupReturns, ConcludedAtTheEnd
<1>3. PositiveIsFounded' /\ NegativeIsFounded' /\ SessionIsAlwaysClosed'
    BY DEF PositiveIsFounded, NegativeIsFounded, SessionIsAlwaysClosed
<1> QED
    BY <1>1, <1>2, <1>3 DEF RVInv, Reviewing

\* A path that ends early goes to the cleanup with its outcome ...
LEMMA TerminalKeeps ==
    ASSUME RVInv, UNCHANGED vars, UNCHANGED <<ad, call, conn, left, cancelled, receipts, settled>>,
           call = "none", result' = "none", pc # "done",
           NEW o \in Outcomes \ {"Repeated", "NoCallback"}, Terminal(o)
    PROVE  RVInv'
<1>1. /\ pc' = "cleanup" /\ outcome' = o
      /\ UNCHANGED <<role, leg_polls, facts, dispatched, settledAt>>
    BY DEF Terminal
<1>2. rvTypeOK'
    BY <1>1, OperationsAt DEF RVInv, Reviewing, rvTypeOK
<1>3. FactsAreSeen' /\ SentInOrder'
    BY <1>1 DEF RVInv, Reviewing, FactsAreSeen, SentInOrder
<1> QED
    BY <1>1, <1>2, <1>3, MovesOn

LEMMA FactTypes ==
    ASSUME rvTypeOK
    PROVE  facts \in [events : SUBSET Roles, preflight_clean : BOOLEAN,
                      phase_contaminated : BOOLEAN, target_complete : BOOLEAN,
                      stop_reason : {"none", "cancelled", "budget", "incomplete"},
                      posted : 0 .. 3]
BY DEF rvTypeOK

\* ... and one that stops in the loop with its reason.
LEMMA StopKeeps ==
    ASSUME RVInv, UNCHANGED vars, UNCHANGED <<ad, call, conn, left, cancelled, receipts, settled>>,
           call = "none", result' = "none", pc # "done",
           NEW reason \in {"none", "cancelled", "budget", "incomplete"}, Stop(reason)
    PROVE  RVInv'
<1>1. /\ pc' = "cleanup" /\ facts' = [facts EXCEPT !.stop_reason = reason]
      /\ UNCHANGED <<role, leg_polls, outcome, dispatched, settledAt>>
    BY DEF Stop
<1>2. facts \in [events : SUBSET Roles, preflight_clean : BOOLEAN,
                 phase_contaminated : BOOLEAN, target_complete : BOOLEAN,
                 stop_reason : {"none", "cancelled", "budget", "incomplete"},
                 posted : 0 .. 3]
    BY FactTypes DEF RVInv, Reviewing
<1>3. rvTypeOK'
    BY <1>1, <1>2, OperationsAt DEF RVInv, Reviewing, rvTypeOK
<1>4. /\ facts'.events = facts.events /\ facts'.preflight_clean = facts.preflight_clean
      /\ facts'.phase_contaminated = facts.phase_contaminated
      /\ facts'.target_complete = facts.target_complete
    BY <1>1, <1>2
<1>5. FactsAreSeen' /\ SentInOrder'
    BY <1>1, <1>4 DEF RVInv, Reviewing, FactsAreSeen, SentInOrder
<1>6. outcome' \notin {"Repeated", "NoCallback"}
    BY <1>1 DEF RVInv, Reviewing, ConcludedAtTheEnd
<1> QED
    BY <1>1, <1>3, <1>5, <1>6, MovesOn

LEMMA OutcomesFor == \A kind : OutcomeFor(kind) \in Outcomes \ {"Repeated", "NoCallback"}
BY DEF OutcomeFor, Outcomes

LEMMA MintFailsKeeps ==
    ASSUME RVInv, MintFails
    PROVE  RVInv'
<1>1. /\ pc = "register" /\ call = "none" /\ result = "none" /\ pc' = "done"
      /\ outcome' \in {"BudgetExhausted", "Incomplete"}
      /\ UNCHANGED <<role, leg_polls, facts, dispatched, settledAt>>
      /\ UNCHANGED vars
      /\ UNCHANGED <<ad, call, conn, left, cancelled, receipts, settled>> /\ UNCHANGED result
    BY DEF MintFails, adVars
<1>2. AInv'
  <2>1. cancelled' \in BOOLEAN /\ result' \in Results
    BY <1>1 DEF RVInv, AInv, AdTypeOK
  <2> QED
    BY <1>1, <2>1, IdleKeeps DEF RVInv
<1>3. ad.lifecycle = "Configured" /\ ad.session = NoSession
    BY <1>1 DEF RVInv, Reviewing, AwaitsItsCall, AInv, LifecycleInStep
<1>4. rvTypeOK'
    BY <1>1 DEF RVInv, Reviewing, rvTypeOK, Outcomes
<1>5. FactsAreSeen' /\ SentInOrder'
    BY <1>1 DEF RVInv, Reviewing, FactsAreSeen, SentInOrder
<1>6. AwaitsItsCall' /\ CleanupReturns' /\ ConcludedAtTheEnd'
    BY <1>1 DEF AwaitsItsCall, CleanupReturns, ConcludedAtTheEnd
<1>7. PositiveIsFounded' /\ NegativeIsFounded' /\ SessionIsAlwaysClosed'
    BY <1>1, <1>3 DEF PositiveIsFounded, NegativeIsFounded, SessionIsAlwaysClosed
<1> QED
    BY <1>2, <1>4, <1>5, <1>6, <1>7 DEF RVInv, Reviewing

\* What the review knows when an operation has returned.
LEMMA ReturnFacts ==
    ASSUME NEW step, Returned(step), Consume
    PROVE  /\ pc = step /\ call = "none" /\ result # "none" /\ result' = "none"
           /\ UNCHANGED vars
           /\ UNCHANGED <<ad, call, conn, left, cancelled, receipts, settled>>
BY DEF Returned, Consume

LEMMA AfterRegisterKeeps ==
    ASSUME RVInv, AfterRegister
    PROVE  RVInv'
<1>1. /\ pc = "register" /\ call = "none" /\ result # "none" /\ result' = "none"
      /\ UNCHANGED vars
      /\ UNCHANGED <<ad, call, conn, left, cancelled, receipts, settled>>
    BY ReturnFacts DEF AfterRegister
<1>2. CASE result # "ok" /\ Terminal(OutcomeFor(result))
    BY <1>1, <1>2, OutcomesFor, TerminalKeeps
<1>3. CASE pc' = "allocate"
           /\ UNCHANGED <<role, leg_polls, facts, outcome, dispatched, settledAt>>
  <2>1. rvTypeOK'
    BY <1>3, OperationsAt DEF RVInv, Reviewing, rvTypeOK
  <2>2. FactsAreSeen' /\ SentInOrder'
    BY <1>1, <1>3 DEF RVInv, Reviewing, FactsAreSeen, SentInOrder
  <2>3. outcome' \notin {"Repeated", "NoCallback"}
    BY <1>1, <1>3 DEF RVInv, Reviewing, ConcludedAtTheEnd
  <2> QED
    BY <1>1, <1>3, <2>1, <2>2, <2>3, MovesOn
<1> QED
    BY <1>2, <1>3 DEF AfterRegister

LEMMA AfterAllocateKeeps ==
    ASSUME RVInv, AfterAllocate
    PROVE  RVInv'
<1>1. /\ pc = "allocate" /\ call = "none" /\ result # "none" /\ result' = "none"
      /\ UNCHANGED vars
      /\ UNCHANGED <<ad, call, conn, left, cancelled, receipts, settled>>
    BY ReturnFacts DEF AfterAllocate
<1>2. CASE result # "ok" /\ Terminal(OutcomeFor(result))
    BY <1>1, <1>2, OutcomesFor, TerminalKeeps
<1>3. CASE Terminal("Invariant")
  <2>1. "Invariant" \in Outcomes \ {"Repeated", "NoCallback"}
    BY DEF Outcomes
  <2> QED
    BY <1>1, <1>3, <2>1, TerminalKeeps
<1>4. CASE pc' = (IF ad.callbacks = Roles THEN "preflight" ELSE "allocate")
           /\ UNCHANGED <<role, leg_polls, facts, outcome, dispatched, settledAt>>
  <2>1. pc' \in {"preflight", "allocate"}
    BY <1>4
  <2>2. rvTypeOK'
    BY <1>4, <2>1, OperationsAt DEF RVInv, Reviewing, rvTypeOK
  <2>3. FactsAreSeen' /\ SentInOrder'
    BY <1>1, <1>4, <2>1 DEF RVInv, Reviewing, FactsAreSeen, SentInOrder
  <2>4. outcome' \notin {"Repeated", "NoCallback"}
    BY <1>1, <1>4 DEF RVInv, Reviewing, ConcludedAtTheEnd
  <2> QED
    BY <1>1, <2>1, <2>2, <2>3, <2>4, MovesOn
<1> QED
    BY <1>2, <1>3, <1>4 DEF AfterAllocate

\* An accepted page adds to the facts what the adapter has seen, which is all that was
\* answered when the page was served.
LEMMA PageIsAbsorbed ==
    ASSUME ReviewLimits, RVInv
    PROVE  Absorbed = ad.seen /\ Absorbed \subseteq Roles /\ settled \subseteq Absorbed
<1>1. ad.seen \subseteq Callbacks
    BY AdTypes DEF RVInv, AdType
<1>2. settled \subseteq ad.seen
    BY DEF RVInv, AInv, ObservationsAreExact, SeenIsWholeAndTrue
<1> QED
    BY <1>1, <1>2, RolesAreCallbacks DEF RVInv, Reviewing, FactsAreSeen, Absorbed

LEMMA AfterPreflightKeeps ==
    ASSUME ReviewLimits, RVInv, AfterPreflight
    PROVE  RVInv'
<1>1. /\ pc = "preflight" /\ call = "none" /\ result # "none" /\ result' = "none"
      /\ UNCHANGED vars
      /\ UNCHANGED <<ad, call, conn, left, cancelled, receipts, settled>>
    BY ReturnFacts DEF AfterPreflight
<1>2. CASE result # "ok" /\ Terminal(OutcomeFor(result))
    BY <1>1, <1>2, OutcomesFor, TerminalKeeps
<1>3. ASSUME NEW clean \in BOOLEAN, clean <=> Absorbed = {},
             facts' = [facts EXCEPT !.events = Absorbed, !.preflight_clean = clean],
             pc' = IF clean THEN "post" ELSE "cleanup",
             outcome' = IF clean THEN outcome ELSE "PreflightContaminated",
             settledAt' = [settledAt EXCEPT ![0] = settled],
             UNCHANGED <<role, leg_polls, dispatched>>
      PROVE  RVInv'
  <2>1. Absorbed = ad.seen /\ Absorbed \subseteq Roles /\ settled \subseteq Absorbed
    BY PageIsAbsorbed
  <2>2. facts \in [events : SUBSET Roles, preflight_clean : BOOLEAN,
                   phase_contaminated : BOOLEAN, target_complete : BOOLEAN,
                   stop_reason : {"none", "cancelled", "budget", "incomplete"},
                   posted : 0 .. 3]
    BY FactTypes DEF RVInv, Reviewing
  <2>3. /\ facts'.events = Absorbed /\ facts'.preflight_clean = clean
        /\ facts'.phase_contaminated = facts.phase_contaminated
        /\ facts'.target_complete = facts.target_complete /\ facts'.posted = facts.posted
    BY <1>3, <2>2
  <2>4. facts' \in [events : SUBSET Roles, preflight_clean : BOOLEAN,
                    phase_contaminated : BOOLEAN, target_complete : BOOLEAN,
                    stop_reason : {"none", "cancelled", "budget", "incomplete"},
                    posted : 0 .. 3]
    BY <1>3, <2>1, <2>2
  <2>5. /\ settledAt \in [0 .. 3 -> SUBSET Roles] /\ settledAt' \in [0 .. 3 -> SUBSET Roles]
        /\ settledAt'[0] = settled /\ \A r \in Roles : settledAt'[r] = settledAt[r]
    BY <1>3, <2>1 DEF RVInv, Reviewing, rvTypeOK, Roles
  <2>6. pc' \in {"post", "cleanup"} /\ outcome' \in Outcomes \ {"Repeated", "NoCallback"}
    BY <1>1, <1>3 DEF RVInv, Reviewing, rvTypeOK, ConcludedAtTheEnd, Outcomes
  <2>7. rvTypeOK'
    BY <1>3, <2>4, <2>5, <2>6, OperationsAt DEF RVInv, Reviewing, rvTypeOK
  <2>8. FactsAreSeen'
    <3>1. facts'.events \subseteq ad'.seen
      BY <1>1, <2>1, <2>3
    <3>2. facts'.preflight_clean => settledAt'[0] = {}
      BY <1>3, <2>1, <2>3, <2>5
    <3>3. facts.events \subseteq Absorbed
      BY DEF Absorbed
    <3>4. \A r \in Roles : /\ settledAt[r] \subseteq facts.events
                           /\ ~facts.phase_contaminated => settledAt[r] \subseteq 1 .. r
      BY DEF RVInv, Reviewing, FactsAreSeen
    <3>5. \A r \in Roles : /\ settledAt'[r] \subseteq facts'.events
                           /\ ~facts'.phase_contaminated => settledAt'[r] \subseteq 1 .. r
      BY <2>3, <2>5, <3>3, <3>4
    <3> QED
      BY <3>1, <3>2, <3>5 DEF FactsAreSeen
  <2>9. SentInOrder'
    <3>1. role = 1 /\ facts.posted = 0 /\ (facts.target_complete => dispatched = Roles)
      BY <1>1 DEF RVInv, Reviewing, SentInOrder
    <3>2. role' = 1 /\ facts'.posted = 0 /\ (facts'.target_complete => dispatched' = Roles)
      BY <1>3, <2>3, <3>1
    <3>3. 1 .. (role' - 1) = {} /\ role' - 1 = 0
      BY <3>2
    <3> QED
      BY <2>6, <3>2, <3>3 DEF SentInOrder
  <2> QED
    BY <1>1, <2>6, <2>7, <2>8, <2>9, MovesOn
<1>4. CASE /\ facts' = [facts EXCEPT !.events = Absorbed, !.preflight_clean = (Absorbed = {})]
           /\ pc' = IF Absorbed = {} THEN "post" ELSE "cleanup"
           /\ outcome' = IF Absorbed = {} THEN outcome ELSE "PreflightContaminated"
           /\ settledAt' = [settledAt EXCEPT ![0] = settled]
           /\ UNCHANGED <<role, leg_polls, dispatched>>
  <2> DEFINE clean == (Absorbed = {})
  <2>1. clean \in BOOLEAN
    OBVIOUS
  <2>2. /\ facts' = [facts EXCEPT !.events = Absorbed, !.preflight_clean = clean]
        /\ pc' = IF clean THEN "post" ELSE "cleanup"
        /\ outcome' = IF clean THEN outcome ELSE "PreflightContaminated"
    BY <1>4, Zenon
  <2>3. clean <=> Absorbed = {}
    OBVIOUS
  <2> HIDE DEF clean
  <2> QED
    BY <1>3, <1>4, <2>1, <2>2, <2>3
<1> QED
    BY <1>2, <1>4, Zenon DEF AfterPreflight

LEMMA PostKeeps ==
    ASSUME RVInv, Post
    PROVE  RVInv'
<1>1. /\ pc = "post" /\ call = "none" /\ result = "none" /\ result' = "none"
      /\ UNCHANGED vars
      /\ UNCHANGED <<ad, call, conn, left, cancelled, receipts, settled>>
    BY DEF RVInv, Reviewing, AwaitsItsCall, Post, adVars
<1>2. CASE Stop("cancelled") \/ Stop("none")
    BY <1>1, <1>2, StopKeeps
<1>3. CASE Terminal("Invariant")
  <2>1. "Invariant" \in Outcomes \ {"Repeated", "NoCallback"}
    BY DEF Outcomes
  <2> QED
    BY <1>1, <1>3, <2>1, TerminalKeeps
<1>4. CASE /\ pc' = "posting"
           /\ facts' = [facts EXCEPT !.posted = @ + 1]
           /\ dispatched' = dispatched \cup {role}
           /\ UNCHANGED <<role, leg_polls, outcome, settledAt>>
  <2>1. facts \in [events : SUBSET Roles, preflight_clean : BOOLEAN,
                   phase_contaminated : BOOLEAN, target_complete : BOOLEAN,
                   stop_reason : {"none", "cancelled", "budget", "incomplete"},
                   posted : 0 .. 3]
    BY FactTypes DEF RVInv, Reviewing
  <2>2. role \in 1 .. 3 /\ facts.posted = role - 1 /\ 1 .. (role - 1) \subseteq dispatched
    BY <1>1 DEF RVInv, Reviewing, rvTypeOK, Roles, SentInOrder
  <2>3. facts.posted + 1 = role /\ 1 .. role \subseteq dispatched \cup {role}
    BY <2>2
  <2>4. facts' = [facts EXCEPT !.posted = role]
    BY <1>4, <2>1, <2>3
  <2>5. /\ facts'.events = facts.events /\ facts'.preflight_clean = facts.preflight_clean
        /\ facts'.phase_contaminated = facts.phase_contaminated
        /\ facts'.target_complete = facts.target_complete /\ facts'.posted = role
    BY <2>1, <2>4
  <2>6. facts' \in [events : SUBSET Roles, preflight_clean : BOOLEAN,
                    phase_contaminated : BOOLEAN, target_complete : BOOLEAN,
                    stop_reason : {"none", "cancelled", "budget", "incomplete"},
                    posted : 0 .. 3]
    BY <2>1, <2>2, <2>4
  <2>7. rvTypeOK'
    BY <1>4, <2>6 DEF RVInv, Reviewing, rvTypeOK
  <2>8. FactsAreSeen'
    BY <1>1, <1>4, <2>5 DEF RVInv, Reviewing, FactsAreSeen
  <2>9. SentInOrder'
    <3>1. facts.target_complete => dispatched = Roles
      BY DEF RVInv, Reviewing, SentInOrder
    <3>2. facts'.target_complete => dispatched' = Roles
      BY <1>4, <2>2, <2>5, <3>1 DEF Roles
    <3>3. pc' = "posting" /\ 1 .. role' \subseteq dispatched' /\ facts'.posted = role'
      BY <1>4, <2>3, <2>5
    <3> QED
      BY <3>2, <3>3 DEF SentInOrder
  <2>10. outcome' \notin {"Repeated", "NoCallback"}
    BY <1>1, <1>4 DEF RVInv, Reviewing, ConcludedAtTheEnd
  <2> QED
    BY <1>1, <1>4, <2>7, <2>8, <2>9, <2>10, MovesOn
<1> QED
    BY <1>2, <1>3, <1>4 DEF Post

LEMMA TargetAnswersKeeps ==
    ASSUME RVInv, TargetAnswers
    PROVE  RVInv'
<1>1. /\ pc = "posting" /\ call = "none" /\ result = "none" /\ result' = "none"
      /\ UNCHANGED vars
      /\ UNCHANGED <<ad, call, conn, left, cancelled, receipts, settled>>
    BY DEF RVInv, Reviewing, AwaitsItsCall, TargetAnswers, adVars
<1>2. ASSUME NEW reason \in {"budget", "incomplete", "cancelled"}, Stop(reason) PROVE RVInv'
    BY <1>1, <1>2, StopKeeps
<1>3. CASE pc' = "poll" /\ leg_polls' = 0
           /\ UNCHANGED <<role, facts, outcome, dispatched, settledAt>>
  <2>1. 0 \in 0 .. (polls_per_leg - 1)
    BY ReviewAssumption
  <2>2. rvTypeOK'
    BY <1>3, <2>1, OperationsAt DEF RVInv, Reviewing, rvTypeOK
  <2>3. FactsAreSeen' /\ SentInOrder'
    BY <1>1, <1>3 DEF RVInv, Reviewing, FactsAreSeen, SentInOrder
  <2>4. outcome' \notin {"Repeated", "NoCallback"}
    BY <1>1, <1>3 DEF RVInv, Reviewing, ConcludedAtTheEnd
  <2> QED
    BY <1>1, <1>3, <2>2, <2>3, <2>4, MovesOn
<1> QED
    BY <1>2, <1>3 DEF TargetAnswers

LEMMA WaitInterruptedKeeps ==
    ASSUME RVInv, WaitInterrupted
    PROVE  RVInv'
<1>1. /\ pc = "poll" /\ call = "none" /\ result = "none" /\ result' = "none"
      /\ UNCHANGED vars
      /\ UNCHANGED <<ad, call, conn, left, cancelled, receipts, settled>>
    BY DEF WaitInterrupted, adVars
<1> QED
    BY <1>1, StopKeeps DEF WaitInterrupted

\* The page of a leg: `cont`, `whole` and `over` are what AfterPoll computes from it.
LEMMA LegPageKeeps ==
    ASSUME ReviewLimits, RVInv, pc = "poll", call = "none", result' = "none", UNCHANGED vars,
           UNCHANGED <<ad, call, conn, left, cancelled, receipts, settled>>,
           NEW cont \in BOOLEAN, NEW whole \in BOOLEAN, NEW over \in BOOLEAN,
           cont <=> facts.phase_contaminated \/ Contaminates(role, Absorbed),
           over <=> LegDone(leg_polls + 1, Absorbed),
           whole <=> over /\ role = Replay /\ ~cont,
           facts' = [facts EXCEPT !.events = Absorbed, !.phase_contaminated = cont,
                                  !.target_complete = whole],
           settledAt' = [settledAt EXCEPT ![role] = settled],
           IF over THEN NextLeg(cont) ELSE leg_polls' = leg_polls + 1 /\ UNCHANGED <<pc, role>>,
           UNCHANGED <<outcome, dispatched>>
    PROVE  RVInv'
<1>1. Absorbed = ad.seen /\ Absorbed \subseteq Roles /\ settled \subseteq Absorbed
    BY PageIsAbsorbed
<1>2. facts \in [events : SUBSET Roles, preflight_clean : BOOLEAN,
                 phase_contaminated : BOOLEAN, target_complete : BOOLEAN,
                 stop_reason : {"none", "cancelled", "budget", "incomplete"},
                 posted : 0 .. 3]
    BY FactTypes DEF RVInv, Reviewing
<1>3. /\ facts'.events = Absorbed /\ facts'.preflight_clean = facts.preflight_clean
      /\ facts'.phase_contaminated = cont /\ facts'.target_complete = whole
      /\ facts'.posted = facts.posted
    BY <1>2
<1>4. facts' \in [events : SUBSET Roles, preflight_clean : BOOLEAN,
                  phase_contaminated : BOOLEAN, target_complete : BOOLEAN,
                  stop_reason : {"none", "cancelled", "budget", "incomplete"},
                  posted : 0 .. 3]
    BY <1>1, <1>2
<1>5. /\ role \in 1 .. 3 /\ 1 .. role \subseteq dispatched /\ facts.posted = role
      /\ dispatched \subseteq 1 .. 3
    BY DEF RVInv, Reviewing, rvTypeOK, Roles, SentInOrder
<1>6. /\ settledAt \in [0 .. 3 -> SUBSET Roles] /\ settledAt' \in [0 .. 3 -> SUBSET Roles]
      /\ settledAt'[0] = settledAt[0] /\ settledAt'[role] = settled
      /\ \A r \in Roles : r # role => settledAt'[r] = settledAt[r]
    BY <1>1, <1>5 DEF RVInv, Reviewing, rvTypeOK, Roles
<1>7. /\ leg_polls' \in 0 .. (polls_per_leg - 1)
      /\ \/ pc' \in {"poll", "cleanup"} /\ role' = role
         \/ pc' = "post" /\ role' = role + 1 /\ role # Replay /\ ~cont
  <2>0. leg_polls \in 0 .. (polls_per_leg - 1) /\ polls_per_leg \in Nat \ {0}
    BY ReviewAssumption DEF RVInv, Reviewing, rvTypeOK
  <2>1. CASE over
    BY <2>0, <2>1 DEF NextLeg
  <2>2. CASE ~over
    <3>1. leg_polls + 1 # polls_per_leg
      BY <2>2 DEF LegDone
    <3> QED
      BY <2>0, <2>2, <3>1
  <2> QED
    BY <2>1, <2>2
<1>8. outcome' \in Outcomes \ {"Repeated", "NoCallback"}
    BY DEF RVInv, Reviewing, rvTypeOK, ConcludedAtTheEnd
<1>9. rvTypeOK'
  <2>1. role' \in Roles
    BY <1>5, <1>7 DEF Roles, Replay
  <2>2. pc' \in DOMAIN OperationAt \cup {"post", "posting", "done"}
    BY <1>7, OperationsAt
  <2> QED
    BY <1>4, <1>5, <1>6, <1>7, <1>8, <2>1, <2>2 DEF rvTypeOK, Roles
<1>10. FactsAreSeen'
  <2>1. facts'.events \subseteq ad'.seen
    BY <1>1, <1>3
  <2>2. facts'.preflight_clean => settledAt'[0] = {}
    BY <1>3, <1>6 DEF RVInv, Reviewing, FactsAreSeen
  <2>3. facts.events \subseteq Absorbed
    BY DEF Absorbed
  <2>4. ASSUME ~cont PROVE settled \subseteq 1 .. role
    <3>1. \A later \in Absorbed : ~(later > role)
      BY <2>4 DEF Contaminates
    <3> QED
      BY <1>1, <1>5, <3>1 DEF Roles
  <2>5. ASSUME NEW r \in Roles
        PROVE  /\ settledAt'[r] \subseteq facts'.events
               /\ ~facts'.phase_contaminated => settledAt'[r] \subseteq 1 .. r
    <3>1. CASE r = role
      BY <1>1, <1>3, <1>6, <2>4, <3>1
    <3>2. CASE r # role
      <4>1. /\ settledAt[r] \subseteq facts.events
            /\ ~facts.phase_contaminated => settledAt[r] \subseteq 1 .. r
        BY DEF RVInv, Reviewing, FactsAreSeen
      <4>2. ~cont => ~facts.phase_contaminated
        OBVIOUS
      <4> QED
        BY <1>3, <1>6, <2>3, <3>2, <4>1, <4>2
    <3> QED
      BY <3>1, <3>2
  <2> QED
    BY <2>1, <2>2, <2>5 DEF FactsAreSeen
<1>11. SentInOrder'
  <2>1. facts'.target_complete => dispatched' = Roles
    BY <1>3, <1>5 DEF Replay, Roles
  <2>2. pc' = "post" => 1 .. (role' - 1) \subseteq dispatched' /\ facts'.posted = role' - 1
    BY <1>3, <1>5, <1>7
  <2>3. pc' \in {"posting", "poll"} => 1 .. role' \subseteq dispatched' /\ facts'.posted = role'
    BY <1>3, <1>5, <1>7
  <2>4. pc' \notin {"register", "allocate", "preflight"}
    BY <1>7
  <2> QED
    BY <2>1, <2>2, <2>3, <2>4 DEF SentInOrder
<1>12. pc' \notin {"register", "done"}
    BY <1>7
<1> QED
    BY <1>8, <1>9, <1>10, <1>11, <1>12, MovesOn

LEMMA AfterPollKeeps ==
    ASSUME ReviewLimits, RVInv, AfterPoll
    PROVE  RVInv'
<1>1. /\ pc = "poll" /\ call = "none" /\ result # "none" /\ result' = "none"
      /\ UNCHANGED vars
      /\ UNCHANGED <<ad, call, conn, left, cancelled, receipts, settled>>
    BY ReturnFacts DEF AfterPoll
<1> DEFINE reason == IF result = "other" THEN "incomplete" ELSE result
           cont == facts.phase_contaminated \/ Contaminates(role, Absorbed)
           over == LegDone(leg_polls + 1, Absorbed)
           whole == over /\ role = Replay /\ ~cont
<1>2. CASE result # "ok" /\ Stop(reason)
  <2>1. reason \in {"none", "cancelled", "budget", "incomplete"}
    BY <1>1, <1>2 DEF RVInv, AInv, AdTypeOK, Results
  <2>2. Stop(reason)
    BY <1>2
  <2> HIDE DEF reason
  <2> QED
    BY <1>1, <2>1, <2>2, StopKeeps
<1>3. CASE /\ facts' = [facts EXCEPT !.events = Absorbed, !.phase_contaminated = cont,
                                     !.target_complete = whole]
           /\ settledAt' = [settledAt EXCEPT ![role] = settled]
           /\ IF over THEN NextLeg(cont)
              ELSE leg_polls' = leg_polls + 1 /\ UNCHANGED <<pc, role>>
           /\ UNCHANGED <<outcome, dispatched>>
  <2>1. cont \in BOOLEAN /\ over \in BOOLEAN /\ whole \in BOOLEAN
    BY Zenon DEF LegDone
  <2>2. /\ cont <=> facts.phase_contaminated \/ Contaminates(role, Absorbed)
        /\ over <=> LegDone(leg_polls + 1, Absorbed)
        /\ whole <=> over /\ role = Replay /\ ~cont
    BY Zenon
  <2>3. /\ facts' = [facts EXCEPT !.events = Absorbed, !.phase_contaminated = cont,
                                  !.target_complete = whole]
        /\ settledAt' = [settledAt EXCEPT ![role] = settled]
        /\ IF over THEN NextLeg(cont)
           ELSE leg_polls' = leg_polls + 1 /\ UNCHANGED <<pc, role>>
        /\ UNCHANGED <<outcome, dispatched>>
    BY <1>3, Zenon
  <2> HIDE DEF cont, over, whole
  <2> QED
    BY <1>1, <2>1, <2>2, <2>3, LegPageKeeps, Zenon
<1> QED
    BY <1>2, <1>3, Zenon DEF AfterPoll

\* What classify_outcome has established when it finds for or against.
LEMMA ClassifiedFacts ==
    ASSUME NEW accounted \in BOOLEAN, NEW verified \in BOOLEAN,
           Classified(accounted, verified) \in {"Repeated", "NoCallback"}
    PROVE  /\ facts.preflight_clean /\ ~facts.phase_contaminated /\ facts.target_complete
           /\ verified /\ Control \notin facts.events
           /\ Classified(accounted, verified) = "Repeated" =>
                 Candidate \in facts.events /\ Replay \in facts.events
           /\ Classified(accounted, verified) = "NoCallback" =>
                 Candidate \notin facts.events /\ Replay \notin facts.events
BY Zenon DEF Classified, LifecycleComplete, Found

LEMMA ClassifiedOutcome ==
    ASSUME NEW accounted, NEW verified
    PROVE  Classified(accounted, verified) \in Outcomes
BY DEF Classified, Outcomes

LEMMA AfterCleanupKeeps ==
    ASSUME RVInv, AfterCleanup
    PROVE  RVInv'
<1>1. /\ pc = "cleanup" /\ call = "none" /\ result # "none" /\ result' = "none"
      /\ UNCHANGED vars
      /\ UNCHANGED <<ad, call, conn, left, cancelled, receipts, settled>>
    BY ReturnFacts DEF AfterCleanup
<1>2. pc' = "done" /\ UNCHANGED <<role, leg_polls, facts, dispatched, settledAt>>
    BY DEF AfterCleanup
<1>3. PICK accounted \in {FALSE, facts.target_complete /\ facts.posted = 3} :
          outcome' \in IF outcome # "none" THEN {outcome}
                       ELSE {Classified(accounted, result = "ok"), "Invariant"}
    BY Zenon DEF AfterCleanup
<1> DEFINE verified == (result = "ok")
<1>4. accounted \in BOOLEAN /\ verified \in BOOLEAN
    BY <1>3, Zenon
<1>5. /\ outcome' \in {outcome, Classified(accounted, verified), "Invariant"}
      /\ verified <=> result = "ok"
    BY <1>3, Zenon
<1> HIDE DEF verified
<1>6. AInv'
  <2>1. cancelled' \in BOOLEAN /\ result' \in Results
    BY <1>1 DEF RVInv, AInv, AdTypeOK, Results
  <2> QED
    BY <1>1, <2>1, IdleKeeps DEF RVInv
<1>7. rvTypeOK'
  <2>1. outcome' \in Outcomes
    BY <1>5, ClassifiedOutcome DEF RVInv, Reviewing, rvTypeOK, Outcomes
  <2> QED
    BY <1>2, <2>1 DEF RVInv, Reviewing, rvTypeOK
<1>8. FactsAreSeen' /\ SentInOrder'
    BY <1>1, <1>2 DEF RVInv, Reviewing, FactsAreSeen, SentInOrder
<1>9. AwaitsItsCall' /\ CleanupReturns' /\ ConcludedAtTheEnd'
    BY <1>1, <1>2 DEF AwaitsItsCall, CleanupReturns, ConcludedAtTheEnd
<1>10. SessionIsAlwaysClosed'
  <2>1. ad.lifecycle \in {"Configured", "Closed"}
    BY <1>1 DEF RVInv, Reviewing, CleanupReturns
  <2>2. ad.session = NoSession
    BY <1>1, <2>1 DEF RVInv, AInv, LifecycleInStep
  <2> QED
    BY <1>1, <2>1, <2>2 DEF SessionIsAlwaysClosed
<1>11. ASSUME outcome' \in {"Repeated", "NoCallback"}
       PROVE  /\ facts.preflight_clean /\ ~facts.phase_contaminated /\ facts.target_complete
              /\ verified /\ 1 \notin facts.events
              /\ outcome' = "Repeated" => {2, 3} \subseteq facts.events
              /\ outcome' = "NoCallback" => 2 \notin facts.events /\ 3 \notin facts.events
  <2>1. outcome' = Classified(accounted, verified)
    BY <1>1, <1>5, <1>11 DEF RVInv, Reviewing, ConcludedAtTheEnd
  <2> QED
    BY <1>4, <1>11, <2>1, ClassifiedFacts DEF Control, Candidate, Replay
<1>12. /\ facts.events \subseteq ad.seen /\ facts.events \subseteq 1 .. 3
       /\ facts.preflight_clean => settledAt[0] = {}
       /\ \A r \in 1 .. 3 : /\ settledAt[r] \subseteq facts.events
                            /\ ~facts.phase_contaminated => settledAt[r] \subseteq 1 .. r
    BY FactTypes DEF RVInv, Reviewing, FactsAreSeen, Roles
<1>13. PositiveIsFounded'
  <2> SUFFICES ASSUME outcome' = "Repeated"
               PROVE  /\ {Candidate, Replay} \subseteq AllAnswered'
                      /\ settledAt'[0] = {}
                      /\ settledAt'[Control] = {}
                      /\ settledAt'[Candidate] \subseteq {Candidate}
                      /\ settledAt'[Replay] \subseteq {Candidate, Replay}
                      /\ dispatched' = Roles
                      /\ Present' = {}
    BY DEF PositiveIsFounded
  <2>1. /\ facts.preflight_clean /\ ~facts.phase_contaminated /\ facts.target_complete
        /\ verified /\ 1 \notin facts.events /\ {2, 3} \subseteq facts.events
    BY <1>11
  <2>2. {2, 3} \subseteq AllAnswered
    BY <1>12, <2>1 DEF RVInv, AInv, ObservationsAreExact, SeenIsWholeAndTrue, AllAnswered
  <2>3. settledAt[0] = {} /\ settledAt[1] = {}
    BY <1>12, <2>1
  <2>4. settledAt[2] \subseteq {2} /\ settledAt[3] \subseteq {2, 3}
    BY <1>12, <2>1
  <2>5. dispatched = Roles
    BY <2>1 DEF RVInv, Reviewing, SentInOrder
  <2>6. Present = {}
    BY <1>1, <1>5, <2>1
      DEF RVInv, Reviewing, CleanupReturns, AInv, VerifiedCleanupIsFinal, Present
  <2>7. AllAnswered' = AllAnswered /\ Present' = Present
    BY <1>1 DEF vars, AllAnswered, Present
  <2> QED
    BY <1>2, <2>2, <2>3, <2>4, <2>5, <2>6, <2>7 DEF Control, Candidate, Replay
<1>14. NegativeIsFounded'
  <2> SUFFICES ASSUME outcome' = "NoCallback" PROVE settledAt'[Replay] = {}
    BY DEF NegativeIsFounded
  <2>1. 1 \notin facts.events /\ 2 \notin facts.events /\ 3 \notin facts.events
    BY <1>11
  <2> QED
    BY <1>2, <1>12, <2>1 DEF Replay
<1> QED
    BY <1>6, <1>7, <1>8, <1>9, <1>10, <1>13, <1>14 DEF RVInv, Reviewing

-----------------------------------------------------------------------------
(***************************************************************************)
(* The theorems                                                            *)
(***************************************************************************)

LEMMA InitRVInv == rvInit => RVInv
<1> SUFFICES ASSUME rvInit PROVE RVInv
    OBVIOUS
<1>1. AInv
    BY InitAInv DEF rvInit
<1>2. /\ pc = "register" /\ role = 1 /\ leg_polls = 0 /\ outcome = "none" /\ dispatched = {}
      /\ settledAt = [l \in 0 .. 3 |-> {}]
      /\ facts = [events |-> {}, preflight_clean |-> FALSE, phase_contaminated |-> FALSE,
                  target_complete |-> FALSE, stop_reason |-> "none", posted |-> 0]
      /\ ad.lifecycle = "Configured" /\ ad.seen = {} /\ call = "none" /\ result = "none"
    BY DEF rvInit, AdInit, Control
<1>3. rvTypeOK
  <2>1. leg_polls \in 0 .. (polls_per_leg - 1)
    BY <1>2, ReviewAssumption
  <2>2. facts \in [events : SUBSET Roles, preflight_clean : BOOLEAN,
                   phase_contaminated : BOOLEAN, target_complete : BOOLEAN,
                   stop_reason : {"none", "cancelled", "budget", "incomplete"},
                   posted : 0 .. 3]
    BY <1>2
  <2> QED
    BY <1>2, <2>1, <2>2, OperationsAt DEF rvTypeOK, Roles, Outcomes
<1>4. AwaitsItsCall /\ CleanupReturns /\ ConcludedAtTheEnd
    BY <1>2 DEF AwaitsItsCall, CleanupReturns, ConcludedAtTheEnd
<1>5. FactsAreSeen
    BY <1>2 DEF FactsAreSeen, Roles
<1>6. SentInOrder
    BY <1>2 DEF SentInOrder
<1>7. PositiveIsFounded /\ NegativeIsFounded /\ SessionIsAlwaysClosed
    BY <1>2 DEF PositiveIsFounded, NegativeIsFounded, SessionIsAlwaysClosed
<1> QED
    BY <1>1, <1>3, <1>4, <1>5, <1>6, <1>7 DEF RVInv, Reviewing

LEMMA NextRVInv == ReviewLimits /\ RVInv /\ [rvNext]_rvVars => RVInv'
<1> SUFFICES ASSUME ReviewLimits, RVInv, [rvNext]_rvVars PROVE RVInv'
    OBVIOUS
<1>1. CASE Review
    BY <1>1, MintFailsKeeps, CallAdapterKeeps, AfterRegisterKeeps, AfterAllocateKeeps,
       AfterPreflightKeeps, PostKeeps, TargetAnswersKeeps, WaitInterruptedKeeps,
       AfterPollKeeps, AfterCleanupKeeps DEF Review
<1>2. CASE Adapter /\ UNCHANGED rtVars
    BY <1>2, AdapterKeeps
<1>3. CASE World
    BY <1>3, WorldKeeps
<1>4. CASE UNCHANGED rvVars
  <2>1. UNCHANGED allVars /\ UNCHANGED rtVars /\ UNCHANGED vars /\ UNCHANGED adVars
    BY <1>4 DEF rvVars, allVars
  <2>2. AInv'
    BY <2>1, NextAInv DEF RVInv
  <2>3. /\ UNCHANGED <<pc, role, leg_polls, facts, outcome, dispatched, settledAt>>
        /\ UNCHANGED <<ad, call, result>> /\ UNCHANGED <<sessions, answered>>
    BY <2>1 DEF rtVars, adVars, vars
  <2>4. rvTypeOK' /\ SentInOrder' /\ ConcludedAtTheEnd' /\ FactsAreSeen'
    BY <2>3 DEF RVInv, Reviewing, rvTypeOK, SentInOrder, ConcludedAtTheEnd, FactsAreSeen
  <2>5. AwaitsItsCall' /\ CleanupReturns'
    BY <2>3 DEF RVInv, Reviewing, AwaitsItsCall, CleanupReturns
  <2>6. PositiveIsFounded' /\ NegativeIsFounded' /\ SessionIsAlwaysClosed'
    BY <2>3 DEF RVInv, Reviewing, PositiveIsFounded, NegativeIsFounded, SessionIsAlwaysClosed,
        AllAnswered, Present
  <2> QED
    BY <2>2, <2>4, <2>5, <2>6 DEF RVInv, Reviewing
<1> QED
    BY <1>1, <1>2, <1>3, <1>4 DEF rvNext

\* The invariant of the review, its adapter and the provider together.
THEOREM ReviewInvariance == ReviewLimits => (rvSpec => []RVInv)
<1> SUFFICES ASSUME ReviewLimits PROVE rvSpec => []RVInv
    OBVIOUS
<1>1. RVInv /\ [rvNext]_rvVars => RVInv'
    BY NextRVInv
<1> QED
    BY <1>1, InitRVInv, PTL DEF rvSpec

\* What the review says at its end is founded, for every number of polls a leg and the
\* limits that go with it: a positive and a negative verdict rest on what was really
\* answered before and after the pages it read, and nothing it registered is left open
\* (execute_review and classify_outcome).
THEOREM VerdictFounded == ReviewLimits => (rvSpec => []VerdictIsFounded)
<1> SUFFICES ASSUME ReviewLimits PROVE rvSpec => []VerdictIsFounded
    OBVIOUS
<1>1. RVInv => VerdictIsFounded
    BY DEF RVInv, Reviewing, AInv, VerdictIsFounded
<1>2. rvSpec => []RVInv
    BY ReviewInvariance
<1> QED
    BY <1>1, <1>2, PTL
=============================================================================
