---------------------------- MODULE Credentials ----------------------------
(***************************************************************************)
(* How calls get their tokens.  Every RPC of the Chainguard client asks    *)
(* the one oauth2.ReuseTokenSource that New has built, which keeps a token *)
(* until shortly before it expires and then, under its lock, gets another: *)
(* from chainctl's cache on disk, or from the token service (STS) for an   *)
(* identity token that is a file or was given literally.  The apk index    *)
(* loader has its tokens minted one by one.  Meanwhile the operator logs   *)
(* in and out, the kubelet rotates the file, STS fails, refuses or hangs,  *)
(* and the signal context, under which New was called, ends.               *)
(*                                                                         *)
(* A token is known by the time at which it expires, which is positive.    *)
(***************************************************************************)
EXTENDS Integers

CONSTANTS
    Modes,          \* kinds of credentials, of which a process has one
    Call,           \* callers of the Chainguard client's RPCs
    Loader,         \* the apk index loader
    None,           \* no caller
    ExpiryDelta,    \* how long before its expiry oauth2 gives a token up
    MinLife,        \* the life that loadChainctlToken asks for
    Transit,        \* the longest way of a call to the service
    Life,           \* of a fresh token on disk
    MintedLife,     \* of a token minted by STS
    MaxTime         \* bound on the clock

ASSUME ModesAssumption == Modes \subseteq {"chainctl", "file", "literal"}
ASSUME CallersAssumption == Loader \notin Call /\ None \notin Call \cup {Loader}
ASSUME TimesAssumption ==
    /\ {ExpiryDelta, MinLife, Transit, Life, MintedLife, MaxTime} \subseteq Nat
    /\ MaxTime > 0
    /\ Transit < ExpiryDelta /\ Transit < MinLife
    /\ ExpiryDelta < Life /\ ExpiryDelta < MintedLife

Caller == Call \cup {Loader}

\* What can be instead of a token: text that is none, as an empty file; a
\* file that cannot be read; no file.
Garbled == 0
Unreadable == -1
Absent == -2

VARIABLES
    mode,       \* the kind of credentials
    now,        \* the clock
    material,   \* the token on disk, or given literally, or what is instead
    stsMints,    \* STS is in reach and mints for who presents a live token
    done,       \* the signal context is done
    cached,     \* the token that ReuseTokenSource keeps
    kept,       \* when it takes it to expire, 0 for never having had one
    holder,     \* the caller that has its lock to get another
    at,         \* where each caller is
    token,      \* the token each caller has sent, to STS or with its call
    since,      \* when it was found to be good enough
    excused     \* history: the caller has good reason to find no token

world == <<mode, now, material, stsMints, done>>
source == <<cached, kept, holder>>
vars == <<world, source, at, token, since, excused>>

Waiting == {"locking", "loading", "minting", "noToken"}
Expiries == 0 .. MaxTime + Life + MintedLife + MinLife

TypeOK ==
    /\ mode \in Modes
    /\ now \in 1 .. MaxTime
    /\ material \in Absent .. MaxTime + Life
    /\ stsMints \in BOOLEAN /\ done \in BOOLEAN
    /\ cached \in Expiries /\ kept \in Expiries
    /\ holder \in Call \cup {None}
    /\ holder # None => at[holder] \in {"loading", "minting"}
    /\ at \in [Caller -> {"idle", "sent"} \cup Waiting]
    /\ token \in [Caller -> Expiries]
    /\ since \in [Caller -> 0 .. MaxTime]
    /\ excused \in [Caller -> BOOLEAN]

\* What New accepts: buildBaseTokenSource wants a file that it can read,
\* whatever is in it, and takes anything for a literal token.
Accepted ==
    IF mode = "chainctl"
    THEN now + MinLife + 1 .. now + Life
    ELSE {now + Life, IF mode = "file" THEN Garbled ELSE now}

Init ==
    /\ mode \in Modes
    /\ now = 1
    /\ material \in Accepted
    /\ stsMints \in BOOLEAN /\ done = FALSE
    /\ cached = 0 /\ kept = 0 /\ holder = None
    /\ at = [c \in Caller |-> "idle"]
    /\ token = [c \in Caller |-> 0]
    /\ since = [c \in Caller |-> 0]
    /\ excused = [c \in Caller |-> FALSE]

-----------------------------------------------------------------------------
(* What Ready says, and what a caller that waits has seen meanwhile.       *)
(* Definitions named Faulty... are bugs the code could have in place of    *)
(* the definition that follows; the properties are shown to notice.        *)

\* loadChainctlToken's look at the remaining life, of which there is none
\* without a token.
FaultyLongEnough == material > now
LongEnough == material - now > MinLife

\* A literal token cannot be looked at, a file only for its existence.
FaultyReady ==
    /\ mode = "chainctl" => material > now
    /\ mode = "file" => material # Absent
Ready ==
    /\ mode = "chainctl" => LongEnough
    /\ mode = "file" => material # Absent

\* Of an exchange Ready knows nothing, nor of what is in the file.
Excuse(c) ==
    \/ ~Ready
    \/ /\ mode # "chainctl"
       /\ \/ material <= Garbled
          \/ ~stsMints \/ done
          \/ at[c] = "minting" /\ now - since[c] > Transit

Remember ==
    excused' = [c \in Caller |-> at'[c] \in Waiting /\ (excused[c] \/ Excuse(c)')]

Goes(c, place) == at' = [at EXCEPT ![c] = place]
CarriesSince(c, tok, time) ==
    /\ token' = [token EXCEPT ![c] = tok]
    /\ since' = [since EXCEPT ![c] = time]
Carries(c, tok) == CarriesSince(c, tok, now)
Drops(c) == CarriesSince(c, 0, 0)

-----------------------------------------------------------------------------
(* ReuseTokenSource.Token, called for each RPC, which has its permit by    *)
(* now and does not look at its context while it waits for the lock.       *)

Valid == kept - ExpiryDelta >= now

Begin(c) ==
    /\ at[c] = "idle"
    /\ Goes(c, "locking")
    /\ UNCHANGED <<world, source, token, since>> /\ Remember

Reuse(c) ==
    /\ at[c] = "locking" /\ holder = None /\ Valid
    /\ Goes(c, "sent") /\ Carries(c, cached)
    /\ UNCHANGED <<world, source>> /\ Remember

\* Token of the inner source fails, and the lock is given back.
NoToken(c) ==
    /\ Goes(c, "noToken") /\ Drops(c)
    /\ holder' = (IF holder = c THEN None ELSE holder)
    /\ UNCHANGED <<cached, kept>>

\* chainctlTokenSource: the remaining life is read first...
CheckLife(c) ==
    /\ mode = "chainctl"
    /\ at[c] = "locking" /\ holder = None /\ ~Valid
    /\ \/ LongEnough /\ Goes(c, "loading") /\ Carries(c, material) /\ holder' = c
          /\ UNCHANGED <<cached, kept>>
       \/ ~LongEnough /\ NoToken(c)
    /\ UNCHANGED world /\ Remember

\* ...and then the token, which may be gone by then, or another, or no token:
\* text without an expiry is sent all the same, and if there is any, kept for
\* a minute.
Load(c) ==
    /\ at[c] = "loading"
    /\ \/ /\ material >= Garbled
          /\ cached' = material
          /\ kept' \in (IF material = Garbled THEN {0, now + MinLife} ELSE {material})
          /\ holder' = None
          /\ Goes(c, "sent") /\ CarriesSince(c, material, since[c])
       \/ material < Garbled /\ NoToken(c)
    /\ UNCHANGED world /\ Remember

\* The base token, which is read again each time, is sent to STS if the file
\* can be read, whatever is in it.
FaultyPresent(c) ==
    /\ \/ material < Garbled /\ NoToken(c)
       \/ /\ material >= Garbled
          /\ Goes(c, "minting") /\ Carries(c, material)
          /\ holder' = c
          /\ UNCHANGED <<cached, kept>>
    /\ UNCHANGED world /\ Remember
Present(c) ==
    /\ \/ material < Garbled /\ NoToken(c)
       \/ /\ material >= Garbled
          /\ Goes(c, "minting") /\ Carries(c, material)
          /\ holder' = (IF c \in Call THEN c ELSE holder)
          /\ UNCHANGED <<cached, kept>>
    /\ UNCHANGED world /\ Remember

Exchange(c) ==
    /\ mode # "chainctl"
    /\ at[c] = "locking" /\ holder = None /\ ~Valid
    /\ Present(c)

\* APKTokenSource in identity mode: an exchange for each fetch, no cache.
Fetch ==
    /\ mode # "chainctl"
    /\ at[Loader] = "idle"
    /\ Present(Loader)

Minted(c) ==
    /\ at[c] = "minting" /\ token[c] > now /\ stsMints /\ ~done
    /\ Goes(c, "sent") /\ Carries(c, now + MintedLife)
    /\ IF c \in Call
       THEN cached' = now + MintedLife /\ kept' = now + MintedLife /\ holder' = None
       ELSE UNCHANGED source
    /\ UNCHANGED world /\ Remember

\* STS refuses, cannot be reached, or the context of the exchange is done.
FaultyNotMintedRegardless(c) ==
    /\ at[c] = "minting" /\ (token[c] <= now \/ ~stsMints)
    /\ NoToken(c)
    /\ UNCHANGED world /\ Remember
NotMinted(c) ==
    /\ at[c] = "minting" /\ (token[c] <= now \/ ~stsMints \/ done)
    /\ NoToken(c)
    /\ UNCHANGED world /\ Remember

\* The call has arrived, or the failure been told.
Return(c) ==
    /\ at[c] \in {"sent", "noToken"}
    /\ Goes(c, "idle") /\ Drops(c)
    /\ UNCHANGED <<world, source>> /\ Remember

-----------------------------------------------------------------------------
(* The world.                                                              *)

\* Calls do not dawdle on their way, nor does the kubelet with the file: a
\* token in it does not run out, even for the way to STS.
Tick ==
    /\ now < MaxTime
    /\ \A c \in Caller : at[c] \in {"loading", "sent"} => now - since[c] < Transit
    /\ mode = "file" /\ material > Garbled => material > now + 1 + Transit
    /\ now' = now + 1
    /\ UNCHANGED <<mode, material, stsMints, done, source, at, token, since>> /\ Remember

\* The operator logs in, or the kubelet writes the file.
Renewed ==
    /\ mode \in {"chainctl", "file"}
    /\ material' = now + Life
    /\ UNCHANGED <<mode, now, stsMints, done, source, at, token, since>> /\ Remember

\* The operator logs out, or the file is unmounted, spoiled, or caught while
\* it is written.  To chainctl's reader no file is one that cannot be read.
Removed ==
    /\ mode \in {"chainctl", "file"}
    /\ material' \in (IF mode = "file" THEN {Garbled, Unreadable, Absent} ELSE {Garbled, Absent})
    /\ material' # material
    /\ UNCHANGED <<mode, now, stsMints, done, source, at, token, since>> /\ Remember

StsSwitches ==
    /\ stsMints' = ~stsMints
    /\ UNCHANGED <<mode, now, material, done, source, at, token, since>> /\ Remember

Signal ==
    /\ ~done
    /\ done' = TRUE
    /\ UNCHANGED <<mode, now, material, stsMints, source, at, token, since>> /\ Remember

-----------------------------------------------------------------------------
Acquires(c) == Reuse(c) \/ CheckLife(c) \/ Exchange(c)

Next ==
    \/ \E c \in Call : Begin(c) \/ Acquires(c) \/ Load(c)
    \/ Fetch
    \/ \E c \in Caller : Minted(c) \/ NotMinted(c) \/ Return(c)
    \/ Tick \/ Renewed \/ Removed \/ StsSwitches \/ Signal

Spec == Init /\ [][Next]_vars

\* The lock is handed on in turn and the disk answers.  STS need not, but an
\* exchange ends with its context.
Fairness ==
    \A c \in Call :
        /\ SF_vars(Acquires(c))
        /\ WF_vars(Load(c))
        /\ WF_vars(done /\ NotMinted(c))

FairSpec == Spec /\ Fairness

-----------------------------------------------------------------------------
(* Properties.                                                             *)

\* No call reaches the service with a token that has expired, cached or
\* fresh, whenever the operator, the kubelet or STS changes it: what
\* ReuseTokenSource and loadChainctlToken leave of its life is enough for
\* the way.  (In chainctl's mode it may be with text that never was a token.)
LiveOnArrival ==
    \A c \in Caller :
        at[c] = "sent" => token[c] > now \/ (mode = "chainctl" /\ token[c] = Garbled)

\* A call that finds no token has had a reason while it was waiting.  With
\* chainctl's credentials that is Ready's: it has failed by then, although it
\* looks at the disk and calls at the cache.  In identity mode, where Ready
\* asks for no more than a file, it may also be a file without a token, STS
\* that refuses, dawdles or is out of reach, or the end of the process; it is
\* not the age of the token.  (Ready knows nothing of a literal one.)
FailuresHaveReasons ==
    \A c \in Caller : at[c] = "noToken" /\ mode # "literal" => excused[c]

\* A call that waits for the lock, behind an exchange that never ends, is
\* freed by the end of the signal context (New's ctx in the token source).
ShutdownFreesCalls ==
    \A c \in Call :
        (done /\ at[c] \in {"locking", "loading", "minting"}) ~> (at[c] \in {"sent", "noToken"})
=============================================================================
