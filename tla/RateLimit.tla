------------------------------- MODULE RateLimit -------------------------------
(***************************************************************************)
(* internal/ratelimit: one client's login attempts against its token       *)
(* bucket.  A successful attempt gets its token back, at the time it was   *)
(* taken, which by then may lie before what others did to the bucket; an   *)
(* idle bucket is thrown away.  golang.org/x/time/rate is modelled from    *)
(* its calls: a token is worth Unit ticks, so a bucket can hold a part of  *)
(* one.                                                                    *)
(***************************************************************************)
EXTENDS Integers, FiniteSets

CONSTANTS
  Attempts,     \* bound: attempts in flight
  MaxAttempts,  \* bound: attempts made
  Burst,        \* what a full bucket holds, in tokens
  Unit,         \* ticks in which one token is earned
  StaleAfter,   \* staleAfter, in ticks
  Buckets,      \* bound: buckets of this client, one after the other
  LastTick      \* bound of the clock

\* The router fills every bucket within 15 minutes; staleAfter is 30.
ASSUME RateAssumption ==
  /\ Burst \in Nat \ {0} /\ Unit \in Nat \ {0} /\ Buckets \in Nat \ {0}
  /\ StaleAfter \in Nat /\ StaleAfter >= Burst * Unit
  /\ MaxAttempts \in Nat /\ LastTick \in Nat /\ IsFiniteSet(Attempts)

VARIABLES
  clock,
  visitor,    \* the visitors map: buckets made, whether the last is kept, its lastSeen
  bucket,     \* every bucket made: its tokens, in ticks, its last and lastEvent
  made,       \* attempts made
  attempt,    \* per attempt: where it is, its bucket, now, and timeToAct
  failed,     \* for the properties: attempts let through that failed
  lag         \* for the properties: ticks credited twice

limitVars == <<clock, visitor, bucket, made, attempt, failed, lag>>

Resolved == [at |-> "none", bucket |-> 0, now |-> 0, timeToAct |-> 0]
NoVisitor == [made |-> 0, kept |-> FALSE, lastSeen |-> 0]
FullBucket == [tokens |-> Burst * Unit, last |-> 0, lastEvent |-> 0]

LimitTypeOK ==
  /\ clock \in 0..LastTick
  /\ visitor \in [made : 0..Buckets, kept : BOOLEAN, lastSeen : 0..LastTick]
  /\ \A b \in 1..Buckets :
       /\ bucket[b].tokens \in Int /\ bucket[b].tokens <= Burst * Unit
       /\ bucket[b].last \in 0..LastTick
       /\ bucket[b].lastEvent \in Nat
  /\ attempt \in [Attempts ->
       [at : {"none", "timed", "handling", "refused"}, bucket : 0..Buckets,
        now : 0..LastTick, timeToAct : Nat]]
  /\ made \in 0..MaxAttempts
  /\ failed \in Nat /\ lag \in Nat

LimitInit ==
  /\ clock = 0
  /\ visitor = NoVisitor
  /\ bucket = [b \in 1..Buckets |-> FullBucket]
  /\ attempt = [a \in Attempts |-> Resolved]
  /\ made = 0
  /\ failed = 0
  /\ lag = 0

TimePasses ==
  /\ clock < LastTick
  /\ clock' = clock + 1
  /\ UNCHANGED <<visitor, bucket, made, attempt, failed, lag>>

-----------------------------------------------------------------------------
(* golang.org/x/time/rate *)

Lower(m, n) == IF m < n THEN m ELSE n

\* Limiter.advance: a t before last earns nothing, and becomes last.
advance(b, t) ==
  LET last == Lower(bucket[b].last, t)
  IN  Lower(Burst * Unit, bucket[b].tokens + t - last)

SetBucket(b, t, tokens, lastEvent, extra) ==
  /\ bucket' = [bucket EXCEPT ![b] = [tokens |-> tokens, last |-> t, lastEvent |-> lastEvent]]
  /\ lag' = lag + (bucket[b].last - Lower(bucket[b].last, t)) + extra

\* Limiter.ReserveN(now, 1), which always succeeds, in debt if need be.
Reserved(b, t) == advance(b, t) - Unit
TimeToAct(b, t) == IF Reserved(b, t) < 0 THEN t - Reserved(b, t) ELSE t

\* Reservation.CancelAt(now): less is restored when later reservations were
\* made on top of this one.
CancelAt(a) ==
  LET b == attempt[a].bucket
      t == attempt[a].now
      lastEvent == bucket[b].lastEvent
      restore == Unit - (lastEvent - attempt[a].timeToAct)
      prevEvent == attempt[a].timeToAct - Unit
  IN  IF restore <= 0 THEN UNCHANGED <<bucket, lag>>
      ELSE SetBucket(b, t, Lower(Burst * Unit, advance(b, t) + restore),
             IF attempt[a].timeToAct = lastEvent /\ prevEvent >= t
             THEN prevEvent ELSE lastEvent,
             IF restore > Unit THEN restore - Unit ELSE 0)

-----------------------------------------------------------------------------
(* Middleware *)

\* Limiter.get, and the timestamp the attempt keeps.
get(a) ==
  /\ attempt[a].at = "none"
  /\ made < MaxAttempts
  /\ made' = made + 1
  /\ visitor.made < Buckets \/ visitor.kept
  /\ LET b == IF visitor.kept THEN visitor.made ELSE visitor.made + 1
     IN  /\ visitor' = [made |-> b, kept |-> TRUE, lastSeen |-> clock]
         /\ attempt' = [attempt EXCEPT ![a] =
              [at |-> "timed", bucket |-> b, now |-> clock, timeToAct |-> 0]]
  /\ UNCHANGED <<clock, bucket, failed, lag>>

ReserveN(a) ==
  LET b == attempt[a].bucket
      t == attempt[a].now
  IN  /\ attempt[a].at = "timed"
      /\ SetBucket(b, t, Reserved(b, t), TimeToAct(b, t), 0)
      /\ attempt' = [attempt EXCEPT
           ![a].at = IF TimeToAct(b, t) > t THEN "refused" ELSE "handling",
           ![a].timeToAct = TimeToAct(b, t)]
      /\ UNCHANGED <<clock, visitor, made, failed>>

\* 429 rate_limited.
Refuse(a) ==
  /\ attempt[a].at = "refused"
  /\ CancelAt(a)
  /\ attempt' = [attempt EXCEPT ![a] = Resolved]
  /\ UNCHANGED <<clock, visitor, made, failed>>

\* Mutant: the token is given back whatever the handler answered.
Refunds(succeeds) == TRUE

\* skipSuccessful, and a status below 400.
RefundsToken(succeeds) == succeeds

HandlerReturns(a, succeeds) ==
  /\ attempt[a].at = "handling"
  /\ IF RefundsToken(succeeds) THEN CancelAt(a) ELSE UNCHANGED <<bucket, lag>>
  /\ failed' = IF succeeds THEN failed ELSE failed + 1
  /\ attempt' = [attempt EXCEPT ![a] = Resolved]
  /\ UNCHANGED <<clock, visitor, made>>

\* cleanupLoop, once a minute.
Evict ==
  /\ visitor.kept
  /\ clock - visitor.lastSeen > StaleAfter
  /\ visitor' = [visitor EXCEPT !.kept = FALSE]
  /\ UNCHANGED <<clock, bucket, made, attempt, failed, lag>>

LimitNext ==
  \/ TimePasses
  \/ Evict
  \/ \E a \in Attempts :
       \/ get(a)
       \/ ReserveN(a)
       \/ Refuse(a)
       \/ \E succeeds \in BOOLEAN : HandlerReturns(a, succeeds)

LimitSpec == LimitInit /\ [][LimitNext]_limitVars

-----------------------------------------------------------------------------
(* Safety *)

InFlight == Cardinality({a \in Attempts : attempt[a].at = "handling"})

\* However attempts overlap, are refused, get their tokens back or outlive
\* their bucket, no more of them fail, or still may, than a full bucket and
\* the time since allow, and the ticks that were credited twice: a refund is
\* made at the time its token was taken, which sets the bucket's clock back,
\* and can restore more than it took when that time was out of order.
\* (Middleware, "only failed attempts count against the budget"; cleanupLoop.)
BudgetKept == Unit * (failed + InFlight) <= Unit * Burst + clock + lag
=============================================================================
