-------------------------------- MODULE CaseCache --------------------------------
(***************************************************************************)
(* The retained publications of Case evidence and the credit they are      *)
(* charged to (src-tauri/src/case_cache.rs, case_work_budget.rs,           *)
(* Policy::capture of case_resources.rs), with the requests that publish   *)
(* (case_sync) and read them (CapturePin::for_case, capture_case), over    *)
(* the Case database of SourcePublication.                                 *)
(*                                                                         *)
(* A reservation charges three atomic counters one after another: of the   *)
(* Case, of the application, of the policy's pool.  A refusal gives back   *)
(* what it took and, under confirmed pressure, evicts a publication that   *)
(* nobody uses, and tries again.                                           *)
(***************************************************************************)
EXTENDS CompiledCache, Bags, FiniteSetsExt, Functions

CONSTANTS
    CaseRequests,
    Keys, Sizes,      \* the page's keys, and the bytes of what it sends
    Quota,            \* by revision of a Case: the limit its settings ask for
    Live, Retained,   \* the application's limits: of work, and of what is kept for later
    MaxEntries        \* three, in the code

ASSUME QuotaAssumption == Quota \in [0..MaxRevision -> Nat] /\ {Live, Retained} \subseteq Nat
ASSUME CacheAssumption ==
    /\ Keys # {} /\ Sizes \subseteq Nat /\ MaxEntries \in Nat \ {0}
    /\ IsFiniteSet(CaseRequests) /\ NoRequest \notin CaseRequests

VARIABLES
    entries,   \* CACHE: the publications kept; the oldest has the least token
    payloads,  \* everything that was published: its number is its token
    used,      \* the counters, as a bag of accounts
    stage, job, result,  \* the requests
    claim,     \* the charge a request is making or taking back
    shed       \* payloads it was the last to have and has not given back yet

credit    == <<used, claim, shed>>
caseWork  == <<entries, payloads, credit, stage, job, result>>
caseVars  == <<compiledVars, caseWork>>

Application == <<>>
Pools       == {<<id.case, id.analysis, Quota[id.revision], r>> :
                   id \in Identities, r \in CaseRequests \cup {NoRequest}}
OwnerOf(p)  == <<p[1], p[2]>>
QuotaOf(p)  == p[3]
Accounts(p) == <<OwnerOf(p), Application, p>>  \* in the order add charges them
Smaller(a, b) == IF a < b THEN a ELSE b
LimitOf(p, n) == CASE n = 1 -> QuotaOf(p) [] n = 2 -> Live [] n = 3 -> Smaller(Live, QuotaOf(p))

Lease(p, n) == [pool |-> p, bytes |-> n]
NoClaim == [pool |-> <<>>, bytes |-> 0, level |-> 0, up |-> FALSE]
NoJob   == [kind |-> "none", identity |-> Nobody, key |-> CHOOSE k \in Keys : TRUE, size |-> 0,
            pool |-> <<>>, pinned |-> 0, held |-> 0, token |-> 0, own |-> <<>>, trimmed |-> {}]

\* What of a lease is charged to an account.
Share(account, lease, level) ==
    IF \E n \in 1..level : Accounts(lease.pool)[n] = account THEN lease.bytes ELSE 0
CreditOf(t) == Lease(payloads[t].pool, payloads[t].size)

\* Some publications may have been kept by earlier requests, within the limits.
Kept(c, k, n) == [owner |-> <<c, 0>>, key |-> k, size |-> n,
                  pool |-> <<c, 0, Quota[0], NoRequest>>]

CaseInit ==
    /\ CompiledInit
    /\ payloads \in {<<>>} \cup {<<Kept(c, k, n)>> : c \in Cases, k \in Keys, n \in Sizes}
                    \cup {<<Kept(c, k, m), Kept(d, k, n)>> : c, d \in Cases, k \in Keys, m, n \in Sizes}
    /\ \A m, n \in DOMAIN payloads : m # n => payloads[m].owner # payloads[n].owner
    /\ \A t \in DOMAIN payloads : payloads[t].size <= Quota[0]
    /\ Len(payloads) <= MaxEntries
    /\ SumFunction([t \in DOMAIN payloads |-> payloads[t].size]) <= Smaller(Live, Retained)
    /\ entries = DOMAIN payloads
    /\ used = [account \in UNION {ToSet(Accounts(payloads[t].pool)) : t \in DOMAIN payloads} |->
                  SumFunction([t \in DOMAIN payloads |-> Share(account, CreditOf(t), 3)])]
    /\ stage = [r \in CaseRequests |-> "idle"]
    /\ job = [r \in CaseRequests |-> NoJob]
    /\ result = [r \in CaseRequests |-> NoAnswer]
    /\ claim = [r \in CaseRequests |-> NoClaim]
    /\ shed = [r \in CaseRequests |-> {}]

-----------------------------------------------------------------------------
Holders(t)  == {r \in CaseRequests : job[r].held = t}
Inactive(t) == Holders(t) = {}   \* strong_count is one: only CACHE has it

\* The publication under a key, or 0.
Entry(o, k) == LET under == {t \in entries : payloads[t].owner = o /\ payloads[t].key = k}
               IN  IF under = {} THEN 0 ELSE CHOOSE t \in under : TRUE
Mine(r)     == Owner(job[r].identity)
Found(r)    == Entry(Mine(r), job[r].key)

\* What it dropped has been given back: the request goes on.
Ready(r) == claim[r] = NoClaim /\ shed[r] = {}

Moves(r, from, to) == /\ stage[r] = from /\ Ready(r)
                      /\ stage' = [stage EXCEPT ![r] = to]

\* The payload that is dropped with a request, if nobody else has it.
Left(r) == {t \in {job[r].held} \ {0} : Holders(t) = {r} /\ t \notin entries}

\* Its own lease is dropped after it.
Closes(r, what) ==
    /\ stage' = [stage EXCEPT ![r] = "done"]
    /\ result' = [result EXCEPT ![r] = what]
    /\ shed' = [shed EXCEPT ![r] = Left(r)]
    /\ job' = [job EXCEPT ![r] = [NoJob EXCEPT !.own = job[r].own]]

\* A request that keeps everything but its stage and its job.
Quietly == UNCHANGED <<entries, payloads, credit, result>>

-----------------------------------------------------------------------------
(* Pool::add and Pool::release: one atomic counter at a time.               *)

Load(account) == IF account \in DOMAIN used THEN used[account] ELSE 0

FitsFault(account, bytes, limit) ==  \* the bytes asked for do not count
    Load(account) <= limit
Fits(account, bytes, limit) == Load(account) + bytes <= limit

AddFault(r) ==  \* a refusal leaves what was charged before it
    /\ claim[r].up /\ claim[r].level < 3
    /\ LET n == claim[r].level + 1
           account == Accounts(claim[r].pool)[n]
           fits == Fits(account, claim[r].bytes, LimitOf(claim[r].pool, n))
       IN  /\ used' = IF fits THEN used (+) [x \in {account} |-> claim[r].bytes] ELSE used
           /\ claim' = [claim EXCEPT ![r].level = IF fits THEN n ELSE 0, ![r].up = fits]
    /\ UNCHANGED <<entries, payloads, shed, stage, job, result>>

Add(r) ==
    /\ claim[r].up /\ claim[r].level < 3
    /\ LET n == claim[r].level + 1
           account == Accounts(claim[r].pool)[n]
           fits == Fits(account, claim[r].bytes, LimitOf(claim[r].pool, n))
       IN  /\ used' = IF fits THEN used (+) [x \in {account} |-> claim[r].bytes] ELSE used
           /\ claim' = [claim EXCEPT ![r].level = IF fits THEN n ELSE @, ![r].up = fits]
    /\ UNCHANGED <<entries, payloads, shed, stage, job, result>>

GiveBack(r) ==
    /\ ~claim[r].up /\ claim[r].level > 0
    /\ LET account == Accounts(claim[r].pool)[claim[r].level]
       IN  used' = used (-) [x \in {account} |-> claim[r].bytes]
    /\ claim' = [claim EXCEPT ![r] =
                   IF claim[r].level = 1 /\ stage[r] # "reserving" THEN NoClaim
                   ELSE [claim[r] EXCEPT !.level = @ - 1]]
    /\ UNCHANGED <<entries, payloads, shed, stage, job, result>>

\* Drop for Lease: all that was charged is taken back.
GivesUp(r, lease) ==
    /\ claim[r] = NoClaim
    /\ claim' = [claim EXCEPT ![r] = [pool |-> lease.pool, bytes |-> lease.bytes,
                                      level |-> 3, up |-> FALSE]]
    /\ UNCHANGED <<entries, payloads, used, stage, result>>

DropOwn(r) ==
    /\ stage[r] = "done" /\ job[r].own # <<>>
    /\ GivesUp(r, job[r].own)
    /\ job' = [job EXCEPT ![r] = NoJob]
    /\ UNCHANGED shed

DropPayload(r) ==
    /\ shed[r] # {}
    /\ stage[r] = "done" => job[r].own = <<>>
    /\ GivesUp(r, CreditOf(Min(shed[r])))
    /\ shed' = [shed EXCEPT ![r] = @ \ {Min(@)}]
    /\ UNCHANGED job

-----------------------------------------------------------------------------
(* reserve_work.                                                            *)

Reserve(r) ==
    /\ claim' = [claim EXCEPT ![r] = [pool |-> job[r].pool, bytes |-> job[r].size,
                                      level |-> 0, up |-> TRUE]]
    /\ UNCHANGED <<entries, payloads, used, shed, result>>

\* The lease.  A copy made, the payload it was made of is dropped.
Granted(r) ==
    /\ stage[r] = "reserving" /\ claim[r].up /\ claim[r].level = 3
    /\ claim' = [claim EXCEPT ![r] = NoClaim]
    /\ stage' = [stage EXCEPT ![r] = IF job[r].kind = "sync" THEN "storing" ELSE "captured"]
    /\ job' = [job EXCEPT ![r].own = Lease(job[r].pool, job[r].size), ![r].held = 0]
    /\ shed' = [shed EXCEPT ![r] = Left(r)]
    /\ UNCHANGED <<entries, payloads, used, result>>

\* releases_pressure.
Relieves(r, t, pressure) == pressure = "aggregate" \/ payloads[t].owner = Mine(r)

Rejected(r) == stage[r] = "reserving" /\ ~claim[r].up /\ claim[r].level = 0 /\ claim[r] # NoClaim

\* Pool::pressure reads the counters again: of the owner and of the pool...
PressesOwner(r) ==
    /\ Rejected(r)
    /\ claim' = [claim EXCEPT ![r] = NoClaim]
    /\ stage' = [stage EXCEPT ![r] =
                   IF \A n \in {1, 3} : Fits(Accounts(job[r].pool)[n], job[r].size,
                                              LimitOf(job[r].pool, n))
                   THEN "pressed" ELSE "owner"]
    /\ UNCHANGED <<entries, payloads, used, shed, job, result>>

\* ... and, where both have room by now, of the application.
PressesRoot(r) ==
    /\ stage[r] = "pressed"
    /\ IF Fits(Application, job[r].size, Live)
       THEN Closes(r, Refused)
       ELSE /\ stage' = [stage EXCEPT ![r] = "aggregate"]
            /\ UNCHANGED <<shed, job, result>>
    /\ UNCHANGED <<entries, payloads, used, claim>>

Under(r) == stage[r] \in {"owner", "aggregate"} /\ Ready(r)

EvictFault(r) ==  \* whose publication it is does not count
    /\ Under(r)
    /\ LET able == {t \in entries : Inactive(t)}
       IN  /\ able # {}
           /\ entries' = entries \ {Min(able)}
           /\ shed' = [shed EXCEPT ![r] = {Min(able)}]
    /\ stage' = [stage EXCEPT ![r] = "again"]
    /\ UNCHANGED <<payloads, used, claim, job, result>>

Evictable(r) == {t \in entries : Inactive(t) /\ Relieves(r, t, stage[r])}

\* Under the lock of CACHE: the oldest one that nobody uses and that helps.
Evict(r) ==
    /\ Under(r)
    /\ Evictable(r) # {}
    /\ entries' = entries \ {Min(Evictable(r))}
    /\ shed' = [shed EXCEPT ![r] = {Min(Evictable(r))}]
    /\ stage' = [stage EXCEPT ![r] = "again"]
    /\ UNCHANGED <<payloads, used, claim, job, result>>

\* None: the engine's selections are trimmed, once for each kind of pressure.
Trim(r) ==
    /\ Under(r)
    /\ Evictable(r) = {}
    /\ IF stage[r] \in job[r].trimmed
       THEN Closes(r, Refused)
       ELSE /\ stage' = [stage EXCEPT ![r] = "again"]
            /\ job' = [job EXCEPT ![r].trimmed = @ \cup {stage[r]}]
            /\ UNCHANGED <<shed, result>>
    /\ UNCHANGED <<entries, payloads, used, claim>>

Again(r) ==
    /\ Moves(r, "again", "reserving")
    /\ Reserve(r)
    /\ UNCHANGED job

-----------------------------------------------------------------------------
(* Policy::capture: one policy for one owner and one limit while it is in   *)
(* use; the owner's counter is shared by all of them.                       *)
PolicyOf(r) ==
    LET id == job[r].identity
        quota == Quota[id.revision]
        same == {p \in {job[q].pool : q \in CaseRequests} \ {<<>>} :
                    OwnerOf(p) = Owner(id) /\ QuotaOf(p) = quota}
    IN  IF same = {} THEN <<id.case, id.analysis, quota, r>> ELSE CHOOSE p \in same : TRUE

Materialized(p) == Smaller(Retained, QuotaOf(p))

(* case_sync: the page publishes what it has under its key.                 *)
Sync(r, c, k, n) ==
    /\ Moves(r, "idle", "opening")
    /\ job' = [job EXCEPT ![r].kind = "sync", ![r].identity = IdentityOf(c),
                          ![r].key = k, ![r].size = n]
    /\ Quietly

\* validate_identity, then the policy of the revision just read.
Open(r) ==
    /\ Moves(r, "opening", IF job[r].kind = "sync" THEN "sizing" ELSE "resolving")
    /\ Current(job[r].identity)
    /\ job' = [job EXCEPT ![r].pool = PolicyOf(r)]
    /\ Quietly

\* Records::legacy: too large to be kept, or charged.
Size(r) ==
    /\ Moves(r, "sizing", "reserving")
    /\ job[r].size <= Materialized(job[r].pool)
    /\ Reserve(r)
    /\ UNCHANGED job

SumOf(tokens) == SumFunction([t \in tokens |-> payloads'[t].size])

\* store_records: what stays beside token.  First those of the owner leave, the
\* oldest first, then any.
Fitted(token, limit) ==
    LET owner == payloads'[token].owner
        others == {t \in entries : payloads[t].owner = owner => payloads[t].key # payloads'[token].key}
        Own(n) == {t \in others : payloads[t].owner = owner /\ t >= n}
        first == Min({n \in 1..token : SumOf(Own(n) \cup {token}) <= limit})
        fit == {t \in others : payloads[t].owner = owner => t >= first}
        Newest(n) == {t \in fit : t >= n}
        oldest == Min({n \in 1..token : /\ SumOf(Newest(n) \cup {token}) <= Retained
                                        /\ Cardinality(Newest(n)) < MaxEntries})
    IN  Newest(oldest)

\* Under the lock of CACHE.  What leaves and is used by nobody is given back after.
Store(r) ==
    /\ stage[r] = "storing" /\ Ready(r)
    /\ payloads' = Append(payloads, [owner |-> Mine(r), key |-> job[r].key, size |-> job[r].size,
                                     pool |-> job[r].own.pool])
    /\ LET token == Len(payloads')
           kept == Fitted(token, Materialized(job[r].own.pool))
       IN  /\ entries' = kept \cup {token}
           /\ shed' = [shed EXCEPT ![r] = {t \in entries \ kept : Inactive(t)}]
           /\ result' = [result EXCEPT ![r] = [token |-> token, pinned |-> token]]
    /\ stage' = [stage EXCEPT ![r] = "done"]
    /\ job' = [job EXCEPT ![r] = NoJob]
    /\ UNCHANGED <<used, claim>>

-----------------------------------------------------------------------------
(* A query over the Case's evidence.                                        *)

\* CapturePin::for_case: only the token, on the command's thread.
PinCase(r, c, k, kind) ==
    /\ stage[r] = "idle"
    /\ Entry(Owner(IdentityOf(c)), k) # 0
    /\ Moves(r, "idle", "repinning")
    /\ job' = [job EXCEPT ![r].kind = kind, ![r].identity = IdentityOf(c), ![r].key = k,
                          ![r].pinned = Entry(Owner(IdentityOf(c)), k)]
    /\ Quietly

RepinCaseFault(r) ==  \* not after the capture
    /\ \/ Moves(r, "repinning", "opening") /\ Found(r) = job[r].pinned
       \/ Moves(r, "captured", "confirming")
    /\ UNCHANGED job
    /\ Quietly

\* CapturePin::validate, before and after the capture.
RepinCase(r) ==
    /\ \/ Moves(r, "repinning", "opening")
       \/ Moves(r, "captured", "confirming")
    /\ Found(r) = job[r].pinned
    /\ UNCHANGED job
    /\ Quietly

\* resolve_for_with_token: the payload under the lock...
Resolve(r) ==
    /\ Moves(r, "resolving", "checking")
    /\ Found(r) # 0
    /\ job' = [job EXCEPT ![r].held = Found(r), ![r].token = Found(r)]
    /\ Quietly

\* ... and once more whether it is still the one; then capture_case takes it,
\* if nobody else has it, or copies it; capture_case_shared keeps it.
CheckToken(r) ==
    /\ Moves(r, "checking", IF job[r].kind = "share" THEN "captured" ELSE "taking")
    /\ Found(r) = job[r].held
    /\ UNCHANGED job
    /\ Quietly

Sole(r) ==
    /\ payloads[job[r].held].pool = job[r].pool
    /\ Holders(job[r].held) = {r} /\ job[r].held \notin entries

TakePayload(r) ==
    /\ Moves(r, "taking", "captured")
    /\ Sole(r)
    /\ job' = [job EXCEPT ![r].own = CreditOf(job[r].held), ![r].held = 0]
    /\ Quietly

Copy(r) ==
    /\ Moves(r, "taking", "reserving")
    /\ ~Sole(r)
    /\ job' = [job EXCEPT ![r].size = payloads[job[r].held].size]
    /\ claim' = [claim EXCEPT ![r] = [pool |-> job[r].pool, bytes |-> payloads[job[r].held].size,
                                      level |-> 0, up |-> TRUE]]
    /\ UNCHANGED <<entries, payloads, used, shed, result>>

\* Admitted::validate: the publication that was captured, then the Case.
ConfirmToken(r) ==
    /\ Moves(r, "confirming", "agreeing")
    /\ Found(r) = job[r].token
    /\ UNCHANGED job
    /\ Quietly

ConfirmCase(r) ==
    /\ Moves(r, "agreeing", "working")
    /\ Current(job[r].identity)
    /\ UNCHANGED job
    /\ Quietly

AnswersCase(r) ==
    /\ stage[r] = "working" /\ Ready(r)
    /\ Closes(r, [token |-> job[r].token, pinned |-> job[r].pinned])
    /\ UNCHANGED <<entries, payloads, used, claim>>

Refusable == {"opening", "sizing", "again", "storing", "repinning", "resolving", "checking",
              "taking", "captured", "confirming", "agreeing", "working"}

\* A check fails, or finds the request cancelled.
RefusesCase(r) ==
    /\ stage[r] \in Refusable /\ Ready(r)
    /\ Closes(r, Refused)
    /\ UNCHANGED <<entries, payloads, used, claim>>

CaseStep(r) ==
    \/ Add(r) \/ GiveBack(r) \/ DropOwn(r) \/ DropPayload(r) \/ Granted(r) \/ PressesOwner(r) \/ PressesRoot(r)
    \/ Evict(r) \/ Trim(r) \/ Again(r) \/ Open(r) \/ Size(r) \/ Store(r) \/ RepinCase(r) \/ Resolve(r) \/ CheckToken(r)
    \/ TakePayload(r) \/ Copy(r) \/ ConfirmToken(r) \/ ConfirmCase(r) \/ AnswersCase(r)
    \/ RefusesCase(r)

CaseArrives(r) ==
    \E c \in Cases, k \in Keys :
        \/ \E n \in Sizes : Sync(r, c, k, n)
        \/ \E kind \in {"copy", "share"} : PinCase(r, c, k, kind)

CaseNext ==
    \/ CompiledNext /\ UNCHANGED caseWork
    \/ (\E r \in CaseRequests : CaseArrives(r) \/ CaseStep(r)) /\ UNCHANGED compiledVars

CaseSpec == CaseInit /\ [][CaseNext]_caseVars

-----------------------------------------------------------------------------
(* What must hold.                                                          *)

\* The type invariant, over that of the source, with the limits: the application's work, the number and
\* the bytes of what is kept, and one publication for a key.
CaseTypeOK ==
    /\ TypeOK
    /\ \A t \in DOMAIN payloads : /\ payloads[t].pool \in Pools /\ payloads[t].size \in Sizes
                                  /\ payloads[t].owner = OwnerOf(payloads[t].pool)
    /\ entries \subseteq DOMAIN payloads
    /\ \A m, n \in entries :
           payloads[m].owner = payloads[n].owner /\ payloads[m].key = payloads[n].key => m = n
    /\ Cardinality(entries) <= MaxEntries
    /\ SumFunction([t \in entries |-> payloads[t].size]) <= Retained
    /\ Load(Application) <= Live
    /\ \A r \in CaseRequests : /\ claim[r].level \in 0..3
                               /\ job[r].own # <<>> => job[r].own.bytes \in Sizes

\* Every counter is exactly the sum of what is alive and charged to it: a
\* payload as long as CACHE or any request has it, a lease as long as its request,
\* what is being given back and what a reservation has charged so far.  No path,
\* refusal or race leaks credit or gives it back twice.
Alive == entries \cup ({job[r].held : r \in CaseRequests} \ {0}) \cup UNION {shed[r] : r \in CaseRequests}
PoolsInUse ==
    {payloads[t].pool : t \in Alive}
    \cup {job[r].own.pool : r \in {q \in CaseRequests : job[q].own # <<>>}}
    \cup UNION {{job[r].pool, claim[r].pool} \ {<<>>} : r \in CaseRequests}
ChargedBy(r, account) ==
    (IF job[r].own = <<>> THEN 0 ELSE Share(account, job[r].own, 3))
    + (IF claim[r] = NoClaim THEN 0 ELSE Share(account, claim[r], claim[r].level))
Charged(account) ==
    SumFunction([t \in Alive |-> Share(account, CreditOf(t), 3)])
    + SumFunction([r \in CaseRequests |-> ChargedBy(r, account)])
CreditExact ==
    \A account \in BagToSet(used) \cup UNION {ToSet(Accounts(p)) : p \in PoolsInUse} :
        Load(account) = Charged(account)

\* A query answers from the publication it was asked about, although it is looked
\* up by key twice, long after, and the key may be published again meanwhile.
PinnedAnswered ==
    \A r \in CaseRequests : result[r] \notin {NoAnswer, Refused} => result[r].token = result[r].pinned

\* A Case's own lower quota does not evict another Case's publication
\* (case_cache.rs:480, 602).  Where the quotas in use fit the application and CACHE
\* is not full, only an owner that another request of it fills between the loads of
\* pressure makes the limit look like the application's.
QuotaInUse(o) == Max({0} \cup {QuotaOf(p) : p \in {q \in PoolsInUse : OwnerOf(q) = o}})
Scarce == SumFunction([o \in {OwnerOf(p) : p \in PoolsInUse} |-> QuotaInUse(o)]) > Smaller(Live, Retained)
OthersKept ==
    [][\A r \in CaseRequests :
           /\ stage'[r] = "aggregate" /\ stage[r] # "aggregate" /\ ~Scarce =>
                  ~Fits(Mine(r), job[r].size, QuotaOf(job[r].pool))
           /\ stage'[r] # stage[r] =>
                  \A t \in entries \ entries' :
                      \/ payloads[t].owner = Mine(r)
                      \/ IF stage[r] = "storing" THEN Cardinality(entries) >= MaxEntries \/ Scarce
                         ELSE stage[r] = "aggregate"]_caseVars
=============================================================================
