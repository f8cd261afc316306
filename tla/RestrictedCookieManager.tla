------------------------ MODULE RestrictedCookieManager ------------------------
(***************************************************************************)
(* restricted_cookie_manager_whale.cc over the cookies of one site: what   *)
(* the expiry of a cookie becomes that a script writes, on its way to a    *)
(* store that servers write to as well and that outlives the browser.      *)
(*                                                                         *)
(* Time is in days.  0 is the null time, which is the expiry of a cookie   *)
(* of the session.  F_Word just before F is a faulty variant of F.         *)
(***************************************************************************)
EXTENDS Integers

CONSTANTS
    Name,    \* the names of cookies
    MaxAge,  \* the ages that are asked for, in days; 0 deletes
    MaxDays, \* bound on the days that pass
    NoCookie \* in place of a cookie that is not stored

ASSUME DaysAssumption == MaxAge \subseteq Nat /\ MaxDays \in Nat

VARIABLES clock, enabled, jar

vars == <<clock, enabled, jar>>

kMaxCookieExpiration == 7

Script == {"document.cookie", "CookieStore"}
Writer == Script \cup {"HTTP"}

\* As the store has it, and how it came there: the writer, what it asked for,
\* when, and whether expiries were being modified.
CanonicalCookie ==
    [ creation : Nat, expiry : Nat,
      by : Writer, asked : Nat, written : Nat, modified : BOOLEAN ]

ASSUME NoCookieAssumption == NoCookie \notin CanonicalCookie

Stored == {name \in Name : jar[name] # NoCookie}

-----------------------------------------------------------------------------
max_expiration_OfWeek(creation_date) ==
    (creation_date \div kMaxCookieExpiration + 1) * kMaxCookieExpiration
max_expiration(creation_date) == creation_date + kMaxCookieExpiration

ModifyExpiration_NullIsFar(expiry_date, creation_date) ==
    IF enabled /\ (expiry_date = 0 \/ max_expiration(creation_date) < expiry_date)
    THEN max_expiration(creation_date)
    ELSE expiry_date

ModifyExpiration(expiry_date, creation_date) ==
    IF enabled /\ max_expiration(creation_date) < expiry_date
    THEN max_expiration(creation_date)
    ELSE expiry_date

\* The cookie that a script's call makes is created now.
FromStorage(expiry_date) == ModifyExpiration(expiry_date, clock)

\* A server's cookie goes to the store without it.
SanitizedExpiry(by, expiry_date) ==
    IF by \in Script THEN FromStorage(expiry_date) ELSE expiry_date

-----------------------------------------------------------------------------
\* The store.
Expired(expiry, now) == expiry # 0 /\ expiry <= now

Cookie(by, asked, creation) ==
    [ creation |-> creation, expiry |-> SanitizedExpiry(by, asked),
      by |-> by, asked |-> asked, written |-> clock,
      modified |-> enabled /\ by \in Script ]

\* A cookie that takes the place of another may inherit when that was created.
SetCookie(name, by, asked) ==
    \E creation \in {clock} \cup {jar[n].creation : n \in {name} \cap Stored} :
      /\ jar' = [jar EXCEPT ![name] =
            IF Expired(SanitizedExpiry(by, asked), clock) THEN NoCookie
            ELSE Cookie(by, asked, creation)]
      /\ UNCHANGED <<clock, enabled>>

DayPasses ==
    /\ clock < MaxDays
    /\ clock' = clock + 1
    /\ jar' = [name \in Name |->
          IF name \in Stored /\ Expired(jar[name].expiry, clock') THEN NoCookie
          ELSE jar[name]]
    /\ UNCHANGED enabled

\* The next launch may have the feature on or off.
Restart ==
    /\ enabled' \in BOOLEAN
    /\ jar' = [name \in Name |->
          IF name \in Stored /\ jar[name].expiry = 0 THEN NoCookie ELSE jar[name]]
    /\ UNCHANGED clock

Init ==
    /\ clock = 1
    /\ enabled \in BOOLEAN
    /\ jar = [name \in Name |-> NoCookie]

Next ==
    \/ \E name \in Name, by \in Writer, asked \in {0} \cup {clock + age : age \in MaxAge} :
         SetCookie(name, by, asked)
    \/ DayPasses
    \/ Restart

Spec == Init /\ [][Next]_vars

-----------------------------------------------------------------------------
TypeOK ==
    /\ clock \in Nat
    /\ enabled \in BOOLEAN
    /\ jar \in [Name -> CanonicalCookie \cup {NoCookie}]

\* A cookie that a script has written while expiries were modified is gone a
\* week after its last write, however old it was by then, whoever wrote it
\* before and whatever the feature is since; one of the session stays one, and
\* none lasts longer than was asked (restricted_cookie_manager_whale.cc:29-39).
GoneInAWeek ==
    \A name \in Stored :
      LET cookie == jar[name] IN
      /\ cookie.modified => clock < cookie.written + kMaxCookieExpiration \/ cookie.expiry = 0
      /\ cookie.expiry = 0 <=> cookie.asked = 0
      /\ cookie.expiry <= cookie.asked

\* The browser tests, of any cookie in the store instead of the only one and of
\* any age instead of two days, thirty days and four years.
LessThanMax(cookie) == cookie.asked < cookie.written + kMaxCookieExpiration
AsAsked(cookie) == cookie.asked - cookie.expiry <= 0
SevenDays(cookie) ==
    cookie.creation = cookie.written => cookie.expiry - cookie.creation = 7

CheckExpiryForDocumentCookieLessThanMax(cookie) ==
    cookie.by = "document.cookie" /\ LessThanMax(cookie) => AsAsked(cookie)
CheckExpiryForDocumentCookieMoreThanMax(cookie) ==
    cookie.by = "document.cookie" /\ cookie.modified /\ ~LessThanMax(cookie) =>
      SevenDays(cookie)
CheckExpiryForCookieStoreLessThanMax(cookie) ==
    cookie.by = "CookieStore" /\ LessThanMax(cookie) => AsAsked(cookie)
CheckExpiryForCookieStoreMoreThanMax(cookie) ==
    cookie.by = "CookieStore" /\ cookie.modified /\ ~LessThanMax(cookie) =>
      SevenDays(cookie)
CheckExpiryForHttpCookiesLessThanMax(cookie) ==
    cookie.by = "HTTP" => AsAsked(cookie)

\* What the tests say of one fresh cookie holds of every cookie after any
\* writes, days and launches (cookie_expiry_browsertest.cc:122-202).
CookieExpirationTest ==
    \A name \in Stored :
      /\ CheckExpiryForDocumentCookieLessThanMax(jar[name])
      /\ CheckExpiryForDocumentCookieMoreThanMax(jar[name])
      /\ CheckExpiryForCookieStoreLessThanMax(jar[name])
      /\ CheckExpiryForCookieStoreMoreThanMax(jar[name])
      /\ CheckExpiryForHttpCookiesLessThanMax(jar[name])
=============================================================================
