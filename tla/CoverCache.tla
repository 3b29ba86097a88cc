------------------------------- MODULE CoverCache -------------------------------
(***************************************************************************)
(* The cache of covers on the disk: two files for a cover, its body and    *)
(* its metadata, and a count of what they take in memory, by which the     *)
(* limit of the cache is kept.                                             *)
(*                                                                         *)
(* Source: dla-cover-cache/src/lib.rs.  Requests of one cover follow one   *)
(* another (its stripe); what changes the disk does so under the commit    *)
(* lock, one step of a file at a time where the launcher may stop; reads   *)
(* do not take it.  A body is its size.                                    *)
(***************************************************************************)
EXTENDS Naturals, FiniteSets, FiniteSetsExt

CONSTANTS
    Keys,         \* covers
    SettingChoices, \* settings the user may choose: records [forever, unlimited]
    Loaders,      \* requests that run at a time
    MaxSize,      \* bound: size of a cover
    MaxBytes,     \* limit of the standard capacity
    MaxCovers,    \* limit of the standard capacity
    RefreshAfter, \* age from which a cover is asked for again
    KeepFor,      \* age up to which a cover is kept, when not kept for ever
    MAX_REDIRECTS,\* redirects that are followed
    Exchanges,    \* what servers answer to a request: records [hops, last, status, stated,
                  \* size, image], a chain of redirects, the address it leads to, the status
                  \* there, the length it states, 0 without one, and the body
    MaxTime,      \* bound: the clock
    MaxCacheFaults, \* bound: file operations that fail
    MaxRestarts   \* bound: stops of the launcher

ASSUME CacheBounds ==
    /\ IsFiniteSet(Keys) /\ "nobody" \notin Loaders
    /\ MaxSize \in Nat /\ MaxBytes \in Nat /\ MaxTime \in Nat
    /\ MaxCacheFaults \in Nat /\ MaxRestarts \in Nat
    /\ [forever |-> FALSE, unlimited |-> FALSE] \in SettingChoices
    /\ \A x \in Exchanges : x.size \in Nat

VARIABLES
    body,      \* size of the body file of each cover, 0 without one
    meta,      \* its metadata, NoEntry without one
    usage,     \* CacheUsage: the count in memory
    settings,  \* retention and capacity in memory: [forever, unlimited]
    stored,    \* the preference file
    loader,    \* each request
    holder,    \* who holds the commit lock across a step, or "nobody"
    now, cacheFaults, restarts,
    missed     \* history: a removal the limit needed failed since the last recount

cacheVars == <<body, meta, usage, settings, stored, loader, holder, now, cacheFaults, restarts, missed>>

NoEntry == [size |-> 0, at |-> 0]
NoLoad == [at |-> "idle", key |-> "none", entry |-> NoEntry, size |-> 0, old |-> 0, since |-> 0]

CacheTypeOK ==
    /\ body \in [Keys -> 0..MaxSize]
    /\ meta \in [Keys -> [size : 0..MaxSize, at : 0..MaxTime]]
    /\ usage.bytes \in Nat /\ usage.entries \in Nat
    /\ settings \in SettingChoices /\ stored \in SettingChoices
    /\ \A c \in Loaders :
         loader[c].at \in {"idle", "meta", "body", "drop", "fetch", "refresh", "write", "commit"}
    /\ holder \in Loaders \cup {"nobody"}
    /\ now \in 0..MaxTime /\ cacheFaults \in 0..MaxCacheFaults /\ restarts \in 0..MaxRestarts
    /\ missed \in BOOLEAN

Default == [forever |-> FALSE, unlimited |-> FALSE]

CacheInit ==
    /\ body = [k \in Keys |-> 0] /\ meta = [k \in Keys |-> NoEntry]
    /\ usage = [bytes |-> 0, entries |-> 0]
    /\ settings = Default /\ stored = Default
    /\ loader = [c \in Loaders |-> NoLoad] /\ holder = "nobody"
    /\ now = 0 /\ cacheFaults = 0 /\ restarts = 0 /\ missed = FALSE

Key(c) == loader[c].key
LoadGoes(c, at) == loader' = [loader EXCEPT ![c].at = at]
EndsLoad(c) == loader' = [loader EXCEPT ![c] = NoLoad]
CacheFault == cacheFaults < MaxCacheFaults /\ cacheFaults' = cacheFaults + 1
LoadFails(fails) == IF fails THEN CacheFault ELSE UNCHANGED cacheFaults
Less(a, b) == IF a > b THEN a - b ELSE 0          \* saturating_sub
BytesOf(ks, b) == MapThenSumSet(LAMBDA k : b[k], ks)
cacheFiles == <<body, meta, usage>>
still == <<settings, stored, now, restarts>>

-----------------------------------------------------------------------------
(* reconcile_cache: the directory is read, what does not fit together or   *)
(* is too old goes, and then the oldest covers until the limit is kept.    *)

Whole(b, m, s) ==
    {k \in Keys : /\ m[k].size > 0 /\ b[k] = m[k].size
                  /\ s.forever \/ Less(now, m[k].at) <= KeepFor}
Fits(ks, b) == BytesOf(ks, b) <= MaxBytes /\ Cardinality(ks) <= MaxCovers
\* Oldest first; the cover that was just written is the last of its age.
Rank(k, m, protected) == 2 * m[k].at + (IF k = protected THEN 1 ELSE 0)

\* The covers that may be left: those removed are the oldest, and none too many.
Survivors(b, m, s, protected) ==
    LET found == Whole(b, m, s)
        rank(k) == Rank(k, m, protected)
    IN IF s.unlimited THEN {found}
       ELSE {ks \in SUBSET found :
               LET gone == found \ ks
               IN /\ Fits(ks, b)
                  /\ \A g \in gone, k \in ks : rank(g) <= rank(k)
                  /\ gone # {} => \E g \in gone : /\ ~Fits(ks \cup {g}, b)
                                                  /\ \A h \in gone : rank(h) <= rank(g)}

\* What is on the disk and in memory after it, or after a removal that failed.
Reconciled(b, m, s, protected) ==
    \E ks \in Survivors(b, m, s, protected) :
      /\ body' = [k \in Keys |-> IF k \in ks THEN b[k] ELSE 0]
      /\ meta' = [k \in Keys |-> IF k \in ks THEN m[k] ELSE NoEntry]
      /\ usage' = [bytes |-> BytesOf(ks, b), entries |-> Cardinality(ks)]
      /\ missed' = FALSE

RemovalFails(b, m, s, protected, counted) ==
    \E ks \in Survivors(b, m, s, protected), half \in SUBSET Keys :
      /\ Cardinality(half) <= 1 /\ half \cap ks = {}
      /\ body' = b
      /\ meta' = [k \in Keys |-> IF k \in half THEN NoEntry ELSE m[k]]
      /\ usage' = counted
      /\ missed' = TRUE

-----------------------------------------------------------------------------
(* load_validated                                                          *)

Load(c, k) ==
    /\ loader[c] = NoLoad /\ \A d \in Loaders : Key(d) # k
    /\ loader' = [loader EXCEPT ![c] = [NoLoad EXCEPT !.at = "meta", !.key = k, !.since = now]]
    /\ UNCHANGED <<cacheFiles, holder, cacheFaults, missed, still>>

\* read_entry, first the metadata and then the body.
ReadMetadata(c) ==
    /\ loader[c].at = "meta"
    /\ loader' = [loader EXCEPT ![c].entry = meta[Key(c)],
         ![c].at = IF meta[Key(c)].size > 0 THEN "body" ELSE IF body[Key(c)] > 0 THEN "drop" ELSE "fetch"]
    /\ UNCHANGED <<cacheFiles, holder, cacheFaults, missed, still>>

ReadBody(c) ==
    /\ loader[c].at = "body"
    /\ IF body[Key(c)] # loader[c].entry.size THEN LoadGoes(c, "drop")
       ELSE IF Less(loader[c].since, loader[c].entry.at) < RefreshAfter THEN EndsLoad(c)
       ELSE LoadGoes(c, "fetch")
    /\ UNCHANGED <<cacheFiles, holder, cacheFaults, missed, still>>

\* remove_entry: the body, the metadata, and the count of what was there.
DropCover(c, fails) ==
    /\ loader[c].at = "drop" /\ holder = "nobody" /\ LoadFails(fails)
    /\ LET k == Key(c)
           existed == meta[k].size > 0 \/ body[k] > 0
       IN IF fails THEN /\ body' \in {body, [body EXCEPT ![k] = 0]} /\ EndsLoad(c)
                        /\ UNCHANGED <<meta, usage>>
          ELSE /\ body' = [body EXCEPT ![k] = 0] /\ meta' = [meta EXCEPT ![k] = NoEntry]
               /\ usage' = IF existed THEN [bytes |-> Less(usage.bytes, body[k]),
                                            entries |-> Less(usage.entries, 1)] ELSE usage
               /\ loader' = [loader EXCEPT ![c].at = "fetch", ![c].entry = NoEntry]
    /\ UNCHANGED <<holder, missed, still>>

\* An address that may be asked: not too long, https alone, and a host of the policy.
ValidSource(url) == url.short /\ url.https /\ url.plain /\ url.host = "allowed"

Unavailable == [kind |-> "error", size |-> 0, image |-> FALSE]

\* UreqArtworkFetcher::fetch: redirects are followed, so many of them and only to
\* addresses that may be asked; no more is read than a cover may have.
Fetched(x) ==
    IF \/ x.hops > MAX_REDIRECTS \/ (x.hops > 0 /\ ~ValidSource(x.last))
       \/ x.status \in {"not found", "other"}
    THEN Unavailable
    ELSE IF x.status = "not modified" THEN [Unavailable EXCEPT !.kind = "same"]
    ELSE IF x.stated > MaxSize \/ x.size > MaxSize THEN Unavailable
    ELSE [kind |-> "cover", size |-> x.size, image |-> x.image]

\* The source says that the cover is the same, sends one, or fails; then, and when what
\* it sends is no image, the old cover is answered.
Fetch(c, exchange) ==
    /\ loader[c].at = "fetch"
    /\ LET reply == Fetched(exchange) IN
       CASE reply.kind = "same" /\ loader[c].entry # NoEntry -> LoadGoes(c, "refresh")
         [] reply.kind = "cover" /\ reply.image ->
              loader' = [loader EXCEPT ![c].at = "write", ![c].size = reply.size]
         [] OTHER -> EndsLoad(c)
    /\ UNCHANGED <<cacheFiles, holder, cacheFaults, missed, still>>

\* write_metadata, whatever became of the body in the meantime.
Refresh(c, fails) ==
    /\ loader[c].at = "refresh" /\ holder = "nobody" /\ LoadFails(fails)
    /\ meta' = IF fails THEN meta
               ELSE [meta EXCEPT ![Key(c)] = [loader[c].entry EXCEPT !.at = loader[c].since]]
    /\ EndsLoad(c)
    /\ UNCHANGED <<body, usage, holder, missed, still>>

\* write_entry: the body under the lock, which is held until the cover is counted.
WriteBody(c, fails) ==
    /\ loader[c].at = "write" /\ holder = "nobody" /\ LoadFails(fails)
    /\ LET k == Key(c)
       IN IF fails THEN EndsLoad(c) /\ UNCHANGED <<body, holder>>
          ELSE /\ body' = [body EXCEPT ![k] = loader[c].size]
               /\ loader' = [loader EXCEPT ![c].at = "commit", ![c].old = body[k]]
               /\ holder' = c
    /\ UNCHANGED <<meta, usage, missed, still>>

\* (Wrong form.)  A body without its metadata stays.
KeepBody(c) ==
    /\ loader[c].at = "commit" /\ CacheFault
    /\ EndsLoad(c) /\ holder' = "nobody"
    /\ UNCHANGED <<cacheFiles, missed, still>>

\* The metadata cannot be written: the body goes again, if it can be removed.
UndoBody(c) ==
    /\ loader[c].at = "commit" /\ CacheFault
    /\ \/ body' = [body EXCEPT ![Key(c)] = 0] /\ UNCHANGED missed
       \/ UNCHANGED body /\ missed' = TRUE
    /\ EndsLoad(c) /\ holder' = "nobody"
    /\ UNCHANGED <<meta, usage, still>>

\* The metadata, the count, and the removal of others when that is over the limit.
CommitCover(c, fails) ==
    /\ loader[c].at = "commit" /\ LoadFails(fails)
    /\ LET k == Key(c)
           m == [meta EXCEPT ![k] = [size |-> loader[c].size, at |-> loader[c].since]]
           known == meta[k].size > 0 /\ loader[c].old > 0
           counted == [bytes |-> Less(usage.bytes, loader[c].old) + loader[c].size,
                       entries |-> usage.entries + (IF known THEN 0 ELSE 1)]
           over == ~settings.unlimited /\ (counted.bytes > MaxBytes \/ counted.entries > MaxCovers)
       IN IF ~over THEN /\ ~fails /\ meta' = m /\ usage' = counted /\ UNCHANGED <<body, missed>>
          ELSE IF fails THEN RemovalFails(body, m, settings, k, counted)
          ELSE Reconciled(body, m, settings, k)
    /\ EndsLoad(c) /\ holder' = "nobody"
    /\ UNCHANGED still

-----------------------------------------------------------------------------
\* configure: the preference file, the removals, and only then the settings in memory.
Configure(s, fails) ==
    /\ holder = "nobody" /\ s # settings /\ LoadFails(fails)
    /\ stored' = s
    /\ IF fails THEN UNCHANGED <<cacheFiles, missed, settings>>
       ELSE Reconciled(body, meta, s, "nobody") /\ settings' = s
    /\ UNCHANGED <<loader, holder, now, restarts>>

\* The launcher stops; opening the cache reads the preferences and counts what is there.
Restart ==
    /\ restarts < MaxRestarts /\ restarts' = restarts + 1
    /\ settings' = stored
    /\ Reconciled(body, meta, stored, "nobody")
    /\ loader' = [c \in Loaders |-> NoLoad] /\ holder' = "nobody"
    /\ UNCHANGED <<stored, now, cacheFaults>>

Tick ==
    /\ now < MaxTime /\ now' = now + 1
    /\ UNCHANGED <<cacheFiles, settings, stored, loader, holder, cacheFaults, restarts, missed>>

CacheNext ==
    \/ \E c \in Loaders :
         \/ \E k \in Keys : Load(c, k)
         \/ ReadMetadata(c) \/ ReadBody(c) \/ UndoBody(c)
         \/ \E x \in Exchanges : Fetch(c, x)
         \/ \E fails \in BOOLEAN : DropCover(c, fails) \/ Refresh(c, fails) \/ WriteBody(c, fails) \/ CommitCover(c, fails)
    \/ \E s \in SettingChoices, fails \in BOOLEAN : Configure(s, fails)
    \/ Restart \/ Tick

CacheSpec == CacheInit /\ [][CacheNext]_cacheVars

-----------------------------------------------------------------------------
\* The bodies on the disk take no more than the limit whenever no cover is being written,
\* through failing writes, removals by other requests, stops and changes of the settings,
\* unless a removal failed: the count in memory never understates them.  Not claimed of the
\* number of covers (see the README).
CacheStaysInLimit ==
    (holder = "nobody" /\ ~settings.unlimited /\ ~missed) => BytesOf(Keys, body) <= MaxBytes

=============================================================================
