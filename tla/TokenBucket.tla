---------------------------- MODULE TokenBucket -----------------------------
(***************************************************************************)
(* One rate-limit bucket of src/src/limits.rs, of which every connection   *)
(* has six (ClientLimits), refilled lazily when ClientsState.allow asks.   *)
(* Time runs in ticks and tokens in fractions of 1/Unit, so that the f64   *)
(* arithmetic of the code is exact here; Instant is monotonic.             *)
(***************************************************************************)
EXTENDS Integers

CONSTANTS
    Capacity,  \* tokens of a full bucket
    Unit,      \* fractions that make a token
    Rate,      \* fractions refilled per tick
    MaxTime    \* bound on the clock

VARIABLES
    now,      \* Instant::now()
    tokens,   \* fractions left at the last call
    last,     \* time of the last call
    since,    \* history: when somebody began to count the granted calls
    spent,    \* history: tokens granted since then
    steady,   \* history: no call came sooner after the one before than it
              \* takes to refill a token
    asked,    \* history: there was a call
    refused   \* history: the last call was refused

vars == <<now, tokens, last, since, spent, steady, asked, refused>>

Full == Capacity * Unit

ASSUME BucketAssumption ==
    /\ Capacity \in Nat \ {0} /\ Unit \in Nat \ {0}
    /\ Rate \in Nat /\ MaxTime \in Nat

TypeOK ==
    /\ now \in 0..MaxTime
    /\ tokens \in 0..Full
    /\ last \in 0..now
    /\ since \in 0..now
    /\ spent \in Nat
    /\ steady \in BOOLEAN /\ asked \in BOOLEAN /\ refused \in BOOLEAN

Init ==
    /\ now = 0 /\ last = 0 /\ since = 0
    /\ tokens = Full
    /\ spent = 0
    /\ steady = TRUE /\ asked = FALSE /\ refused = FALSE

MutantElapsed == 0   \* mutant: last is set first
Elapsed == now - last

MutantFilled == tokens + Elapsed * Rate   \* mutant: not capped
Filled == IF tokens + Elapsed * Rate <= Full THEN tokens + Elapsed * Rate ELSE Full

Enough(level) == level >= Unit

\* try_take_at: refill for the time since the last call, then spend a token if
\* there is one.  A refused call has refilled the bucket just the same.
Take ==
    /\ last' = now
    /\ \/ /\ Enough(Filled)
          /\ tokens' = Filled - Unit
          /\ spent' = spent + 1
          /\ refused' = FALSE
       \/ /\ ~ Enough(Filled)
          /\ tokens' = Filled
          /\ spent' = spent
          /\ refused' = TRUE
    /\ asked' = TRUE
    /\ steady' = (steady /\ (~ asked \/ (now - last) * Rate >= Unit))
    /\ UNCHANGED <<now, since>>

Tick ==
    /\ now < MaxTime
    /\ now' = now + 1
    /\ UNCHANGED <<tokens, last, since, spent, steady, asked, refused>>

\* Somebody begins to count, at any time: since..now is any stretch of time.
Observe ==
    /\ since' = now
    /\ spent' = 0
    /\ UNCHANGED <<now, tokens, last, steady, asked, refused>>

Next == Take \/ Tick \/ Observe

Spec == Init /\ [][Next]_vars

\* Over any stretch of time a connection is granted at most one burst plus
\* what the rate refills, whatever it did before ("burst 5, then 1 per 2s",
\* "never exceeds capacity"): long idleness is not saved up.
RateBounded == spent * Unit <= Full + (now - since) * Rate

\* A client that never calls faster than the bucket refills is never refused
\* ("client sends 20/s" against a refill of 25/s).
SteadyNeverRefused == steady => ~ refused
=============================================================================
