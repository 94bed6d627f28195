------------------------------- MODULE CallCtx -------------------------------
(***************************************************************************)
(* The context one call's legs share: the profiles routing returned, the   *)
(* one in use, the CDR of the attempt under way, and (history) the CDRs    *)
(* handed to the CDR writer.  All operators take and return the context.   *)
(*                                                                         *)
(*   profile: refuse   disconnect_code_id # 0                              *)
(*            auth     auth_required                                       *)
(*            aor      registered_aor_id (0: none)                         *)
(*            rl       has resources to take                               *)
(*            skip     skip_code_id # 0                                    *)
(***************************************************************************)
EXTENDS Integers, Sequences, SequencesExt

CONSTANTS
  SkipCdrStored           \* TRUE: the skip code's translation stores a CDR

Profile == [refuse : BOOLEAN, auth : BOOLEAN, aor : Nat, rl : BOOLEAN, skip : BOOLEAN]

NoCdr == [attempt |-> 0, profile |-> 0]

CdrOf(attempt, profile) == [attempt |-> attempt, profile |-> profile]
Entry(cdr, last) == [attempt |-> cdr.attempt, profile |-> cdr.profile, last |-> last]

NewCtx == [profiles |-> << >>, cur |-> 0, cdr |-> NoCdr, written |-> << >>]

(* SqlRouter::write_cdr: takes the CDR out of the context, if there is one.*)
WriteCdr(c, last) ==
  IF c.cdr = NoCdr THEN c
  ELSE [c EXCEPT !.written = Append(@, Entry(c.cdr, last)), !.cdr = NoCdr]

GetFirstProfile(c, ps) == [c EXCEPT !.profiles = ps, !.cur = 1, !.cdr = CdrOf(1, 1)]

(* The first position from i on that is not to be skipped.                 *)
FirstUnskipped(ps, i) ==
  CHOOSE n \in i..(Len(ps) + 1) :
    /\ n > Len(ps) \/ ~ps[n].skip
    /\ \A j \in i..(n - 1) : ps[j].skip

SkipCdrs(c, n) ==
  [j \in 1..(n - c.cur) |-> Entry(CdrOf(c.cdr.attempt + j - 1, c.cur + j - 1), FALSE)]

(* Mutant: the CDRs of skipped profiles are not counted.                   *)
GetNextProfileUncounted(c, early, failover) ==
  LET ps == c.profiles
      n  == IF ps[c.cur].skip THEN FirstUnskipped(ps, c.cur) ELSE c.cur + 1
      w  == c.written \o IF ps[c.cur].skip THEN SkipCdrs(c, n) ELSE << >>
  IN  IF n > Len(ps) \/ (~early /\ ps[n].refuse) THEN [found |-> FALSE, c |-> [c EXCEPT !.written = w]]
      ELSE IF early \/ failover
        THEN [found |-> TRUE, c |-> [c EXCEPT !.written = w, !.cur = n, !.cdr = CdrOf(@.attempt, n)]]
      ELSE [found |-> TRUE,
            c |-> [c EXCEPT !.written = Append(w, Entry(c.cdr, FALSE)), !.cur = n,
                            !.cdr = CdrOf(@.attempt + 1, n)]]

(* Mutant: a failover keeps the CDR of the profile that was passed.        *)
GetNextProfileStale(c, early, failover) ==
  LET ps == c.profiles
      n  == c.cur + 1
  IN  IF n > Len(ps) \/ (~early /\ ps[n].refuse) THEN [found |-> FALSE, c |-> c]
      ELSE IF early \/ failover THEN [found |-> TRUE, c |-> [c EXCEPT !.cur = n]]
      ELSE [found |-> TRUE,
            c |-> [c EXCEPT !.written = Append(@, Entry(c.cdr, FALSE)), !.cur = n,
                            !.cdr = CdrOf(@.attempt + 1, n)]]

(* getNextProfile(early_state, resource_failover): profiles to be skipped  *)
(* are passed only when the current one is such a profile.                 *)
GetNextProfile(c, early, failover) ==
  LET ps      == c.profiles
      n       == IF ps[c.cur].skip THEN FirstUnskipped(ps, c.cur) ELSE c.cur + 1
      skipped == IF ps[c.cur].skip /\ SkipCdrStored THEN SkipCdrs(c, n) ELSE << >>
      counter == c.cdr.attempt + Len(skipped)
      w       == c.written \o skipped
  IN  IF n > Len(ps) \/ (~early /\ ps[n].refuse)
        THEN [found |-> FALSE, c |-> [c EXCEPT !.written = w]]
      ELSE IF early \/ failover
        THEN [found |-> TRUE,
              c |-> [c EXCEPT !.written = w, !.cur = n, !.cdr = CdrOf(counter, n)]]
      ELSE [found |-> TRUE,
            c |-> [c EXCEPT !.written = Append(w, Entry(c.cdr, FALSE)), !.cur = n,
                            !.cdr = CdrOf(counter + 1, n)]]

-----------------------------------------------------------------------------
(* onRedisReply: reply[aor] is the number of contacts registered for an    *)
(* AoR.  A profile is cloned for every further contact.                    *)
ResolvedProfile(p, reply) ==
  IF p.refuse \/ p.aor = 0 THEN <<p>>
  ELSE IF reply[p.aor] = 0 THEN <<[p EXCEPT !.skip = TRUE]>>
  ELSE [k \in 1..reply[p.aor] |-> p]

ResolvedProfiles(ps, reply) == FlattenSeq([i \in DOMAIN ps |-> ResolvedProfile(ps[i], reply)])

Resolve(c, reply) == [c EXCEPT !.profiles = ResolvedProfiles(@, reply)]

(* Then the skipped profiles in front are passed, each with its CDR; when  *)
(* nothing callable follows, the last of these CDRs ends the call.         *)
PassSkipped(c) ==
  LET n == FirstUnskipped(c.profiles, c.cur)
  IN  IF n = c.cur THEN [found |-> TRUE, c |-> c]
      ELSE IF n > Len(c.profiles) \/ c.profiles[n].refuse
        THEN [found |-> FALSE,
              c |-> [c EXCEPT !.cur = n - 1, !.cdr = NoCdr,
                              !.written = @ \o SkipCdrs(c, n - 1)
                                            \o <<Entry(CdrOf(c.cdr.attempt + n - 1 - c.cur, n - 1), TRUE)>>]]
        ELSE [found |-> TRUE,
              c |-> [c EXCEPT !.cur = n, !.cdr = CdrOf(@.attempt + n - c.cur, n),
                              !.written = @ \o SkipCdrs(c, n)]]
=============================================================================
