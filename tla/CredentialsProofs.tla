-------------------------- MODULE CredentialsProofs --------------------------
(***************************************************************************)
(* For any number of callers, any lives of tokens and any times that keep  *)
(* the order of TimesAssumption: no call arrives with an expired token,    *)
(* and one that gets none had a reason for it.                             *)
(***************************************************************************)
EXTENDS Credentials, TLAPS

-----------------------------------------------------------------------------
(* The invariant.                                                          *)

\* The time of a look at a token is past; only chainctl's is read twice, and
\* only the others are exchanged.
PlaceInv ==
    \A c \in Caller :
        /\ since[c] <= now
        /\ at[c] = "loading" => mode = "chainctl"
        /\ at[c] = "minting" => mode # "chainctl"

\* The lock is held by the call that gets another token, and by no other.
LockInv == \A c \in Call : at[c] \in {"loading", "minting"} <=> holder = c

\* oauth2 takes a token to expire when it does.  Only chainctl's second read
\* can leave it with text that is no token.
KeptInv == cached = kept \/ (mode = "chainctl" /\ cached = Garbled)

\* A call is no longer on its way than Transit, and its token lives for more
\* than that from the time it was looked at; so does whatever token chainctl's
\* second read may find.
LivesFor(tok, time) == tok > time + Transit \/ (mode = "chainctl" /\ tok = Garbled)
FreshInv ==
    \A c \in Caller :
        /\ at[c] \in {"loading", "sent"} => now - since[c] <= Transit
        /\ at[c] = "sent" => LivesFor(token[c], since[c])
        /\ at[c] = "loading" /\ material > Garbled => material > since[c] + Transit

\* A token in the file has life for the way to STS, and what is on its way
\* there has, too, or is no token; an exchange that takes longer is a reason,
\* as is a file without a token.
WarningInv ==
    /\ mode = "file" /\ material > Garbled => material > now + Transit
    /\ \A c \in Caller :
           /\ at[c] = "minting" /\ mode = "file" =>
                  /\ token[c] > since[c] + Transit \/ excused[c]
                  /\ now - since[c] > Transit => excused[c]
           /\ at[c] = "noToken" /\ mode = "file" => excused[c]
           /\ at[c] = "noToken" /\ mode = "chainctl" => excused[c]

IInv == TypeOK /\ PlaceInv /\ LockInv /\ KeptInv /\ FreshInv /\ WarningInv

-----------------------------------------------------------------------------

LEMMA Times ==
    /\ ExpiryDelta \in Nat /\ MinLife \in Nat /\ Transit \in Nat /\ Life \in Nat
    /\ MintedLife \in Nat /\ MaxTime \in Nat /\ MaxTime > 0
    /\ Transit < ExpiryDelta /\ Transit < MinLife
    /\ ExpiryDelta < Life /\ ExpiryDelta < MintedLife
    /\ Garbled = 0 /\ Unreadable = -1 /\ Absent = -2
BY TimesAssumption DEF Garbled, Unreadable, Absent

LEMMA InitIInv == Init => IInv
<1> SUFFICES ASSUME Init
             PROVE  IInv
    OBVIOUS
<1>1. mode \in {"chainctl", "file", "literal"}
    BY ModesAssumption DEF Init
<1>2. material \in Absent .. MaxTime + Life
  <2>1. material \in now + MinLife + 1 .. now + Life \/ material \in {Garbled, now, now + Life}
      BY <1>1 DEF Init, Accepted
  <2>2. now = 1
      BY DEF Init
  <2> QED
      BY <2>1, <2>2, Times
<1>3. mode = "file" /\ material > Garbled => material > now + Transit
    BY Times DEF Init, Accepted
<1>4. TypeOK
  <2>1. 0 \in Expiries /\ 0 \in 0 .. MaxTime /\ 1 \in 1 .. MaxTime
      BY Times DEF Expiries
  <2>2. at \in [Caller -> {"idle", "sent"} \cup Waiting] /\ excused \in [Caller -> BOOLEAN]
      BY DEF Init
  <2> QED
      BY <1>2, <2>1, <2>2 DEF Init, TypeOK
<1> QED
    BY <1>3, <1>4, CallersAssumption, Times
    DEF Init, IInv, PlaceInv, LockInv, KeptInv, FreshInv, WarningInv, Caller

-----------------------------------------------------------------------------
(* Reasons are remembered for as long as a caller waits.                   *)

LEMMA RememberType ==
    ASSUME Remember
    PROVE  excused' \in [Caller -> BOOLEAN]
BY DEF Remember

LEMMA Remembered ==
    ASSUME Remember, NEW c \in Caller, at'[c] \in Waiting, excused[c] \/ Excuse(c)'
    PROVE  excused'[c]
BY DEF Remember

-----------------------------------------------------------------------------
(* Steps of callers.                                                       *)

\* A caller that moves keeps the invariant if the new place is right about
\* the credentials, the lock and its token.
LEMMA MoveKeeps ==
    ASSUME IInv, NEW c \in Caller,
           NEW place \in {"idle", "sent"} \cup Waiting,
           NEW tok \in Expiries,
           NEW time \in 0 .. MaxTime,
           Goes(c, place), Remember, UNCHANGED world,
           CarriesSince(c, tok, time),
           time <= now,
           cached' \in Expiries, kept' \in Expiries, KeptInv',
           \/ c = Loader /\ UNCHANGED holder /\ place # "loading"
           \/ c \in Call /\ holder \in {c, None}
              /\ holder' = IF place \in {"loading", "minting"} THEN c ELSE None
           \/ c \in Call /\ UNCHANGED holder
              /\ at[c] \notin {"loading", "minting"} /\ place \notin {"loading", "minting"},
           place = "loading" => mode = "chainctl" /\ time = now /\ material > now + Transit,
           place = "minting" => mode # "chainctl",
           place = "minting" /\ mode = "file" =>
               time = now /\ (tok > now + Transit \/ Excuse(c)'),
           place = "sent" => now - time <= Transit /\ LivesFor(tok, time),
           place = "noToken" /\ mode # "literal" => excused[c] \/ Excuse(c)'
    PROVE  IInv'
<1> USE Times DEF CarriesSince
<1>1. UNCHANGED <<mode, now, material, stsMints, done>>
    BY DEF world
<1>2. \A d \in Caller :
          /\ at'[d] = IF d = c THEN place ELSE at[d]
          /\ token'[d] = IF d = c THEN tok ELSE token[d]
          /\ since'[d] = IF d = c THEN time ELSE since[d]
    BY DEF IInv, TypeOK, Goes
<1>3. /\ at' \in [Caller -> {"idle", "sent"} \cup Waiting]
      /\ token' \in [Caller -> Expiries]
      /\ since' \in [Caller -> 0 .. MaxTime]
    BY DEF IInv, TypeOK, Goes
<1>4. LockInv'
  <2> SUFFICES ASSUME NEW d \in Call
               PROVE  (at[d] \in {"loading", "minting"} <=> holder = d)'
      BY DEF LockInv
  <2>1. d \in Caller /\ (at[d] \in {"loading", "minting"} <=> holder = d) /\ d # None
      BY CallersAssumption DEF IInv, LockInv, Caller
  <2> QED
      BY <1>2, <2>1, CallersAssumption DEF Caller
<1>5. holder' \in Call \cup {None} /\ (holder' # None => at'[holder'] \in {"loading", "minting"})
  <2>1. holder' \in Call \cup {None}
      BY DEF IInv, TypeOK
  <2> QED
      BY <1>4, <2>1 DEF LockInv
<1>6. TypeOK'
    BY <1>1, <1>3, <1>5, RememberType DEF IInv, TypeOK
<1>7. PlaceInv'
    BY <1>1, <1>2 DEF IInv, PlaceInv
<1>8. FreshInv'
  <2> SUFFICES ASSUME NEW d \in Caller
               PROVE  FreshInv!(d)'
      BY DEF FreshInv
  <2>1. FreshInv!(d)
      BY DEF IInv, FreshInv
  <2> QED
      BY <1>1, <1>2, <2>1 DEF LivesFor
<1>9. WarningInv'
  <2>1. (mode = "file" /\ material > Garbled => material > now + Transit)'
      BY <1>1 DEF IInv, WarningInv
  <2>2. ASSUME NEW d \in Caller
        PROVE  WarningInv!2!(d)'
    <3>1. WarningInv!2!(d)
        BY DEF IInv, WarningInv
    <3>2. CASE d # c
      <4>1. at'[d] = at[d] /\ token'[d] = token[d] /\ since'[d] = since[d]
          BY <1>2, <3>2
      <4>2. at[d] \in Waiting /\ excused[d] => excused'[d]
          BY <4>1, Remembered
      <4> QED
          BY <1>1, <3>1, <4>1, <4>2 DEF Waiting
    <3>3. CASE d = c
      <4>1. /\ place = "noToken" /\ mode # "literal" => excused'[c]
            /\ place = "minting" /\ Excuse(c)' => excused'[c]
          BY <1>2, Remembered DEF Waiting
      <4>2. now - time <= Transit \/ time # now
          BY DEF IInv, TypeOK
      <4> QED
          BY <1>1, <1>2, <3>3, <4>1, <4>2
    <3> QED
        BY <3>2, <3>3
  <2> QED
      BY <2>1, <2>2 DEF WarningInv
<1> QED
    BY <1>4, <1>6, <1>7, <1>8, <1>9 DEF IInv

LEMMA BeginKeeps ==
    ASSUME IInv, NEW c \in Call, Begin(c)
    PROVE  IInv'
<1>1. c \in Caller /\ since[c] \in 0 .. MaxTime /\ token[c] \in Expiries
    BY DEF Caller, IInv, TypeOK
<1>2. CarriesSince(c, token[c], since[c])
    BY DEF Begin, IInv, TypeOK, CarriesSince
<1>3. KeptInv'
    BY DEF Begin, source, world, IInv, KeptInv
<1> QED
    BY <1>1, <1>2, <1>3, MoveKeeps DEF Begin, source, Waiting, IInv, TypeOK, PlaceInv

\* The clock, and what a caller can carry.
LEMMA TimeType ==
    ASSUME TypeOK
    PROVE  /\ now \in 0 .. MaxTime /\ now \in 1 .. MaxTime /\ 0 \in 0 .. MaxTime /\ 0 \in Expiries
           /\ now <= now /\ 0 <= now /\ now - now <= Transit
           /\ material >= Garbled => material \in Expiries
BY Times DEF TypeOK, Expiries

LEMMA NoTokenKeeps ==
    ASSUME IInv, NEW c \in Caller, NoToken(c), UNCHANGED world, Remember,
           \/ c \in Call /\ holder \in {c, None}
           \/ c = Loader,
           mode # "literal" => excused[c] \/ Excuse(c)'
    PROVE  IInv'
<1>1. Goes(c, "noToken") /\ CarriesSince(c, 0, 0) /\ UNCHANGED <<cached, kept>>
    BY DEF NoToken, Drops
<1>2. c = Loader => holder # c
    BY CallersAssumption DEF IInv, TypeOK
<1>3. KeptInv'
    BY <1>1 DEF world, IInv, KeptInv
<1>4. holder' = IF holder = c THEN None ELSE holder
    BY DEF NoToken
<1> QED
    BY <1>1, <1>2, <1>3, <1>4, TimeType, MoveKeeps DEF Waiting, IInv, TypeOK

\* What oauth2 keeps and finds valid lives for the way.
LEMMA ReuseKeeps ==
    ASSUME IInv, NEW c \in Call, Reuse(c)
    PROVE  IInv'
<1>1. c \in Caller /\ kept - ExpiryDelta >= now
    BY DEF Caller, Reuse, Valid
<1>2. LivesFor(cached, now)
  <2>1. kept > now + Transit
      BY <1>1, Times DEF IInv, TypeOK, Expiries
  <2> QED
      BY <2>1 DEF LivesFor, IInv, KeptInv
<1>3. /\ Goes(c, "sent") /\ CarriesSince(c, cached, now) /\ Remember /\ UNCHANGED world
      /\ UNCHANGED <<cached, kept, holder>> /\ holder = None
    BY DEF Reuse, Carries, source
<1>4. KeptInv' /\ cached \in Expiries /\ kept \in Expiries
    BY <1>3 DEF world, IInv, TypeOK, KeptInv
<1> QED
    BY <1>1, <1>2, <1>3, <1>4, TimeType, MoveKeeps DEF IInv

\* chainctl's first read: a life of more than MinLife is more than the way
\* takes; with less Ready fails, too.
LEMMA CheckLifeKeeps ==
    ASSUME IInv, NEW c \in Call, CheckLife(c)
    PROVE  IInv'
<1>1. c \in Caller /\ UNCHANGED world /\ Remember /\ holder = None /\ mode = "chainctl"
    BY DEF Caller, CheckLife
<1>2. CASE /\ LongEnough /\ Goes(c, "loading") /\ Carries(c, material) /\ holder' = c
           /\ UNCHANGED <<cached, kept>>
  <2>1. material > now + Transit /\ material >= Garbled
      BY <1>2, Times DEF IInv, TypeOK, LongEnough
  <2>2. CarriesSince(c, material, now) /\ "loading" \in {"idle", "sent"} \cup Waiting
      BY <1>2 DEF Carries, Waiting
  <2>3. KeptInv' /\ cached' \in Expiries /\ kept' \in Expiries
      BY <1>1, <1>2 DEF world, IInv, TypeOK, KeptInv
  <2> QED
      BY <1>1, <1>2, <2>1, <2>2, <2>3, TimeType, MoveKeeps DEF IInv
<1>3. CASE ~LongEnough /\ NoToken(c)
  <2>1. Excuse(c)'
      BY <1>1, <1>3 DEF Excuse, Ready, LongEnough, world
  <2> QED
      BY <1>1, <1>3, <2>1, NoTokenKeeps
<1> QED
    BY <1>2, <1>3 DEF CheckLife

\* chainctl's second read: a token that it finds lives as long as what the
\* first one found, or longer.
LEMMA LoadKeeps ==
    ASSUME IInv, NEW c \in Call, Load(c)
    PROVE  IInv'
<1>1. c \in Caller /\ UNCHANGED world /\ Remember /\ at[c] = "loading"
    BY DEF Caller, Load
<1>2. holder = c /\ mode = "chainctl"
    BY <1>1 DEF IInv, LockInv, PlaceInv
<1>3. CASE /\ material >= Garbled /\ cached' = material
           /\ kept' \in (IF material = Garbled THEN {0, now + MinLife} ELSE {material})
           /\ holder' = None
           /\ Goes(c, "sent") /\ CarriesSince(c, material, since[c])
  <2>1. /\ since[c] \in 0 .. MaxTime /\ since[c] <= now /\ now - since[c] <= Transit
        /\ material > Garbled => material > since[c] + Transit
      BY <1>1 DEF IInv, TypeOK, PlaceInv, FreshInv
  <2>2. LivesFor(material, since[c])
      BY <1>2, <1>3, <2>1, Times DEF LivesFor, IInv, TypeOK
  <2>3. material \in Expiries /\ cached' \in Expiries
      BY <1>3, TimeType DEF IInv
  <2>4. kept' \in Expiries
    <3>1. 0 \in Expiries /\ now + MinLife \in Expiries
        BY Times DEF IInv, TypeOK, Expiries
    <3> QED
        BY <1>3, <2>3, <3>1
  <2>5. KeptInv'
      BY <1>1, <1>2, <1>3 DEF KeptInv, world
  <2>6. "sent" \in {"idle", "sent"} \cup Waiting
      OBVIOUS
  <2> QED
      BY <1>1, <1>2, <1>3, <2>1, <2>2, <2>3, <2>4, <2>5, <2>6, MoveKeeps
<1>4. CASE material < Garbled /\ NoToken(c)
  <2>1. Excuse(c)'
      BY <1>1, <1>2, <1>4, Times DEF Excuse, Ready, LongEnough, world, IInv, TypeOK
  <2> QED
      BY <1>1, <1>2, <1>4, <2>1, NoTokenKeeps
<1> QED
    BY <1>3, <1>4 DEF Load

\* An exchange starts with a token that lives for the way to STS, if it is a
\* file's; a file without a token is a reason.
LEMMA PresentKeeps ==
    ASSUME IInv, NEW c \in Caller, Present(c), mode # "chainctl",
           c \in Call => holder = None
    PROVE  IInv'
<1>1. UNCHANGED world /\ Remember
    BY DEF Present
<1>2. c \notin Call => c = Loader
    BY DEF Caller
<1>3. material <= Garbled => Excuse(c)'
    BY <1>1 DEF Excuse, world
<1>4. CASE material < Garbled /\ NoToken(c)
  <2>1. Excuse(c)'
      BY <1>3, <1>4, Times DEF IInv, TypeOK
  <2> QED
      BY <1>1, <1>2, <1>4, <2>1, NoTokenKeeps
<1>5. CASE /\ material >= Garbled /\ Goes(c, "minting") /\ Carries(c, material)
           /\ holder' = (IF c \in Call THEN c ELSE holder)
           /\ UNCHANGED <<cached, kept>>
  <2>1. CarriesSince(c, material, now) /\ material \in Expiries
      BY <1>5, TimeType DEF Carries, IInv
  <2>2. mode = "file" => material > now + Transit \/ Excuse(c)'
      BY <1>3, Times DEF IInv, TypeOK, WarningInv
  <2>3. KeptInv' /\ cached' \in Expiries /\ kept' \in Expiries
      BY <1>1, <1>5 DEF world, IInv, TypeOK, KeptInv
  <2>4. "minting" \in {"idle", "sent"} \cup Waiting
      BY DEF Waiting
  <2>5. CASE c \in Call
      BY <1>1, <1>5, <2>1, <2>2, <2>3, <2>4, <2>5, TimeType, MoveKeeps DEF IInv
  <2>6. CASE c \notin Call
      BY <1>1, <1>2, <1>5, <2>1, <2>2, <2>3, <2>4, <2>6, TimeType, MoveKeeps DEF IInv
  <2> QED
      BY <2>5, <2>6
<1> QED
    BY <1>4, <1>5 DEF Present

LEMMA MintedKeeps ==
    ASSUME IInv, NEW c \in Caller, Minted(c)
    PROVE  IInv'
<1> DEFINE tok == now + MintedLife
<1>1. /\ UNCHANGED world /\ Remember /\ Goes(c, "sent") /\ at[c] = "minting"
      /\ CarriesSince(c, tok, now)
      /\ IF c \in Call THEN cached' = tok /\ kept' = tok /\ holder' = None ELSE UNCHANGED source
    BY DEF Minted, Carries
<1>2. tok \in Expiries /\ LivesFor(tok, now)
    BY TimeType, Times DEF IInv, Expiries, LivesFor
<1> HIDE DEF tok
<1>3. cached' \in Expiries /\ kept' \in Expiries /\ KeptInv'
    BY <1>1, <1>2 DEF IInv, TypeOK, source, world, KeptInv
<1>4. CASE c \in Call
  <2>1. holder = c
      BY <1>1, <1>4 DEF IInv, LockInv
  <2> QED
      BY <1>1, <1>2, <1>3, <1>4, <2>1, TimeType, MoveKeeps DEF IInv
<1>5. CASE c \notin Call
  <2>1. c = Loader /\ UNCHANGED holder
      BY <1>1, <1>5 DEF Caller, source
  <2> QED
      BY <1>1, <1>2, <1>3, <2>1, TimeType, MoveKeeps DEF IInv
<1> QED
    BY <1>4, <1>5

\* An exchange fails because STS does not mint or for the signal, or with a
\* token that lived for the way when it was sent and has not arrived in that
\* time, or with text that was no token.
LEMMA NotMintedKeeps ==
    ASSUME IInv, NEW c \in Caller, NotMinted(c)
    PROVE  IInv'
<1>1. UNCHANGED world /\ Remember /\ NoToken(c) /\ at[c] = "minting" /\ mode # "chainctl"
    BY DEF NotMinted, IInv, PlaceInv
<1>2. c \in Call => holder = c
    BY <1>1 DEF IInv, LockInv
<1>3. c \notin Call => c = Loader
    BY DEF Caller
<1>4. CASE ~stsMints \/ done
  <2>1. Excuse(c)'
      BY <1>1, <1>4 DEF Excuse, world
  <2> QED
      BY <1>1, <1>2, <1>3, <2>1, NoTokenKeeps
<1>5. CASE token[c] <= now
  <2>1. mode = "file" => token[c] > since[c] + Transit \/ excused[c]
      BY <1>1 DEF IInv, WarningInv
  <2>2. mode = "file" => now - since[c] > Transit \/ excused[c]
      BY <1>5, <2>1, Times DEF IInv, TypeOK, Expiries
  <2>3. mode = "file" => excused[c]
      BY <1>1, <2>2 DEF IInv, WarningInv
  <2>4. mode \in {"file", "literal"}
      BY <1>1, ModesAssumption DEF IInv, TypeOK
  <2> QED
      BY <1>1, <1>2, <1>3, <2>3, <2>4, NoTokenKeeps
<1> QED
    BY <1>4, <1>5 DEF NotMinted

LEMMA ReturnKeeps ==
    ASSUME IInv, NEW c \in Caller, Return(c)
    PROVE  IInv'
<1>1. CarriesSince(c, 0, 0) /\ Goes(c, "idle") /\ UNCHANGED <<cached, kept, holder>>
    BY DEF Return, Drops, source
<1>2. KeptInv'
    BY DEF Return, source, world, IInv, KeptInv
<1>3. c \notin Call => c = Loader
    BY DEF Caller
<1> QED
    BY <1>1, <1>2, <1>3, TimeType, MoveKeeps DEF Return, Waiting, IInv, TypeOK

-----------------------------------------------------------------------------
(* Steps of the world.                                                     *)

\* A caller that waits with a warning keeps it.
LEMMA StaysWarned ==
    ASSUME Remember, UNCHANGED at, NEW c \in Caller, at[c] \in Waiting, excused[c]
    PROVE  excused'[c]
BY Remembered

\* Time passes by less than calls and files have left.
LEMMA TickKeeps ==
    ASSUME IInv, Tick
    PROVE  IInv'
<1> USE Times DEF IInv
<1>1. /\ UNCHANGED <<mode, material, stsMints, done, cached, kept, holder, at, token, since>>
      /\ now' = now + 1 /\ now \in 1 .. MaxTime /\ now' \in 1 .. MaxTime /\ Remember
    BY DEF Tick, source, TypeOK
<1>2. TypeOK'
    BY <1>1, RememberType DEF TypeOK
<1>3. PlaceInv' /\ LockInv' /\ KeptInv'
    BY <1>1 DEF PlaceInv, LockInv, KeptInv, TypeOK
<1>4. FreshInv'
  <2>1. \A c \in Caller : at[c] \in {"loading", "sent"} => now - since[c] < Transit
      BY DEF Tick
  <2> QED
      BY <1>1, <2>1 DEF FreshInv, LivesFor, TypeOK
<1>5. WarningInv'
  <2>1. mode = "file" /\ material > Garbled => material > now' + Transit
      BY <1>1 DEF Tick, TypeOK
  <2>2. ASSUME NEW c \in Caller
        PROVE  WarningInv!2!(c)'
    <3>1. WarningInv!2!(c)
        BY DEF WarningInv
    <3>2. ASSUME at[c] = "minting", mode = "file", now' - since[c] > Transit
          PROVE  excused'[c]
      <4>1. Excuse(c)'
          BY <1>1, <3>2 DEF Excuse
      <4> QED
          BY <1>1, <3>2, <4>1, Remembered DEF Waiting
    <3>3. at[c] \in {"minting", "noToken"} /\ excused[c] => excused'[c]
        BY <1>1, StaysWarned DEF Waiting
    <3> QED
        BY <1>1, <3>1, <3>2, <3>3
  <2> QED
      BY <1>1, <2>1, <2>2 DEF WarningInv
<1> QED
    BY <1>2, <1>3, <1>4, <1>5

\* Whatever changes but the clock, the callers and their lock leaves the
\* invariant, if a token on disk is a fresh one.
LEMMA WorldKeeps ==
    ASSUME IInv, UNCHANGED <<mode, now, cached, kept, holder, at, token, since>>, Remember,
           stsMints' \in BOOLEAN, done' \in BOOLEAN,
           \/ UNCHANGED material
           \/ material' \in {Garbled, Unreadable, Absent, now + Life}
    PROVE  IInv'
<1> USE Times DEF IInv
<1>1. TypeOK'
    BY RememberType DEF TypeOK
<1>2. PlaceInv' /\ LockInv' /\ KeptInv'
    BY DEF PlaceInv, LockInv, KeptInv
<1>3. material' > Garbled => material' = material \/ material' > now + Transit
    BY DEF TypeOK
<1>4. FreshInv'
    BY <1>3 DEF FreshInv, LivesFor, PlaceInv, TypeOK
<1>5. WarningInv'
  <2>1. ASSUME NEW c \in Caller
        PROVE  WarningInv!2!(c)'
    <3>1. WarningInv!2!(c)
        BY DEF WarningInv
    <3>2. at[c] \in {"minting", "noToken"} /\ excused[c] => excused'[c]
        BY StaysWarned DEF Waiting
    <3> QED
        BY <3>1, <3>2
  <2> QED
      BY <1>3, <2>1 DEF WarningInv
<1> QED
    BY <1>1, <1>2, <1>4, <1>5

LEMMA NextKeeps == IInv /\ [Next]_vars => IInv'
<1> SUFFICES ASSUME IInv, [Next]_vars
             PROVE  IInv'
    OBVIOUS
<1>1. ASSUME NEW c \in Call, Begin(c) \/ Acquires(c) \/ Load(c)
      PROVE  IInv'
  <2>1. CASE Exchange(c)
      BY <2>1, PresentKeeps DEF Exchange, Caller
  <2> QED
      BY <1>1, <2>1, BeginKeeps, ReuseKeeps, CheckLifeKeeps, LoadKeeps DEF Acquires
<1>2. CASE Fetch
    BY <1>2, CallersAssumption, PresentKeeps DEF Fetch, Caller
<1>3. ASSUME NEW c \in Caller, Minted(c) \/ NotMinted(c) \/ Return(c)
      PROVE  IInv'
    BY <1>3, MintedKeeps, NotMintedKeeps, ReturnKeeps
<1>4. CASE Renewed \/ Removed
  <2>1. /\ UNCHANGED <<mode, now, stsMints, done, cached, kept, holder, at, token, since>>
        /\ Remember
        /\ material' \in {Garbled, Unreadable, Absent, now + Life}
      BY <1>4 DEF Renewed, Removed, source
  <2>2. stsMints' \in BOOLEAN /\ done' \in BOOLEAN
      BY <2>1 DEF IInv, TypeOK
  <2> QED
      BY <2>1, <2>2, WorldKeeps
<1>5. CASE StsSwitches \/ Signal
  <2>1. /\ UNCHANGED <<mode, now, material, cached, kept, holder, at, token, since>>
        /\ Remember
      BY <1>5 DEF StsSwitches, Signal, source
  <2>2. stsMints' \in BOOLEAN /\ done' \in BOOLEAN
      BY <1>5 DEF StsSwitches, Signal, IInv, TypeOK
  <2> QED
      BY <2>1, <2>2, WorldKeeps
<1>6. CASE UNCHANGED vars
  <2>1. UNCHANGED <<mode, now, material, stsMints, done, cached, kept, holder, at, token, since,
                    excused>>
      BY <1>6 DEF vars, world, source
  <2>2. TypeOK' /\ PlaceInv' /\ LockInv' /\ KeptInv'
      BY <2>1 DEF IInv, TypeOK, PlaceInv, LockInv, KeptInv
  <2>3. FreshInv'
      BY <2>1 DEF IInv, FreshInv, LivesFor
  <2>4. WarningInv'
      BY <2>1 DEF IInv, WarningInv
  <2> QED
      BY <2>2, <2>3, <2>4 DEF IInv
<1> QED
    BY <1>1, <1>2, <1>3, <1>4, <1>5, <1>6, TickKeeps DEF Next

-----------------------------------------------------------------------------
(* What holds in every state.                                              *)

\* The inductive invariant holds in every state that the process can reach.
THEOREM Invariance == Spec => []IInv
BY InitIInv, NextKeeps, PTL DEF Spec

\* Every variable keeps its type, and who holds the lock is at work on a
\* token.
THEOREM TypeCorrect == Spec => []TypeOK
<1>1. IInv => TypeOK
    BY DEF IInv
<1> QED
    BY <1>1, Invariance, PTL

\* No call reaches the service with a token that has expired, whatever is
\* done to the credentials meanwhile.
THEOREM TokensAreLive == Spec => []LiveOnArrival
<1>1. IInv => LiveOnArrival
  <2> SUFFICES ASSUME IInv, NEW c \in Caller, at[c] = "sent"
               PROVE  token[c] > now \/ (mode = "chainctl" /\ token[c] = Garbled)
      BY DEF LiveOnArrival
  <2>1. now - since[c] <= Transit /\ LivesFor(token[c], since[c])
      BY DEF IInv, FreshInv
  <2>2. token[c] \in Int /\ since[c] \in Int /\ now \in Int
      BY Times DEF IInv, TypeOK, Expiries
  <2> QED
      BY <2>1, <2>2, Times DEF LivesFor
<1> QED
    BY <1>1, Invariance, PTL

\* A call that finds no token has had a reason while it was waiting: Ready has
\* failed, or, in identity mode, the file held no token, STS refused or
\* dawdled, or the signal came.
THEOREM FailuresAreExplained == Spec => []FailuresHaveReasons
<1>1. IInv => FailuresHaveReasons
    BY ModesAssumption DEF IInv, TypeOK, WarningInv, FailuresHaveReasons
<1> QED
    BY <1>1, Invariance, PTL
=============================================================================
