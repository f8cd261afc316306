-------------------- MODULE RestrictedCookieManager_proofs --------------------
(***************************************************************************)
(* For all names, ages and numbers of days: what the expiry of a stored    *)
(* cookie is, from which the limit and the browser tests follow.           *)
(***************************************************************************)
EXTENDS RestrictedCookieManager, TLAPS

\* A stored cookie has the expiry it was asked for, or a week from when it was
\* written if that is earlier and applies to it, and has not expired.
Limited(cookie) ==
    /\ cookie.modified => cookie.by \in Script
    /\ cookie.expiry = IF cookie.modified /\ cookie.written + 7 < cookie.asked
                       THEN cookie.written + 7 ELSE cookie.asked
    /\ cookie.expiry = 0 \/ clock < cookie.expiry

IInv == TypeOK /\ \A name \in Stored : Limited(jar[name])

\* A stored cookie is a cookie.
LEMMA StoredType ==
  ASSUME TypeOK, NEW name \in Stored
  PROVE  name \in Name /\ jar[name] \in CanonicalCookie /\ jar[name] # NoCookie
  BY DEF TypeOK, Stored

\* The cookie a call makes, unless it has expired already.
LEMMA CookieFacts ==
  ASSUME TypeOK, NEW by \in Writer, NEW asked \in Nat, NEW creation \in Nat
  PROVE  /\ Cookie(by, asked, creation) \in CanonicalCookie
         /\ ~Expired(SanitizedExpiry(by, asked), clock) =>
              Limited(Cookie(by, asked, creation))
  <1> DEFINE c == Cookie(by, asked, creation)
  <1>1. SanitizedExpiry(by, asked) =
          IF enabled /\ by \in Script /\ clock + 7 < asked THEN clock + 7 ELSE asked
    BY DEF SanitizedExpiry, FromStorage, ModifyExpiration, max_expiration,
           kMaxCookieExpiration, TypeOK
  <1>2. SanitizedExpiry(by, asked) \in Nat
    BY <1>1 DEF TypeOK
  <1>3. /\ c.creation = creation /\ c.expiry = SanitizedExpiry(by, asked)
        /\ c.by = by /\ c.asked = asked /\ c.written = clock
        /\ c.modified = (enabled /\ by \in Script)
    BY DEF Cookie
  <1>4. c \in CanonicalCookie
    <2>1. (enabled /\ by \in Script) \in BOOLEAN
      OBVIOUS
    <2> QED BY <1>2, <2>1 DEF Cookie, CanonicalCookie, TypeOK
  <1>5. c.expiry = IF c.modified /\ c.written + 7 < c.asked
                   THEN c.written + 7 ELSE c.asked
    <2>1. CASE enabled /\ by \in Script
      BY <1>1, <1>3, <2>1
    <2>2. CASE ~(enabled /\ by \in Script)
      BY <1>1, <1>3, <2>2
    <2> QED BY <2>1, <2>2
  <1>6. ASSUME ~Expired(SanitizedExpiry(by, asked), clock)
        PROVE  c.expiry = 0 \/ clock < c.expiry
    BY <1>2, <1>3, <1>6 DEF Expired, TypeOK
  <1>7. c.modified => c.by \in Script
    BY <1>3
  <1> HIDE DEF c
  <1>8. ~Expired(SanitizedExpiry(by, asked), clock) => Limited(c)
    BY <1>5, <1>6, <1>7 DEF Limited
  <1> QED BY <1>4, <1>8 DEF c

LEMMA InitInv == Init => IInv
  BY NoCookieAssumption DEF Init, IInv, TypeOK, Stored

LEMMA SetCookieInv ==
  ASSUME IInv, NEW name \in Name, NEW by \in Writer, NEW asked \in Nat,
         SetCookie(name, by, asked)
  PROVE  IInv'
  <1> DEFINE gone == Expired(SanitizedExpiry(by, asked), clock)
  <1>1. PICK creation \in {clock} \cup {jar[n].creation : n \in {name} \cap Stored} :
          /\ jar' = [jar EXCEPT ![name] =
                       IF gone THEN NoCookie ELSE Cookie(by, asked, creation)]
          /\ UNCHANGED <<clock, enabled>>
    BY DEF SetCookie
  <1>2. creation \in Nat
    BY <1>1, StoredType DEF IInv, TypeOK, CanonicalCookie
  <1>3. /\ Cookie(by, asked, creation) \in CanonicalCookie
        /\ ~gone => Limited(Cookie(by, asked, creation))
    BY <1>2, CookieFacts DEF IInv
  <1> HIDE DEF gone
  <1>4. TypeOK'
    BY <1>1, <1>3 DEF IInv, TypeOK
  <1>5. ASSUME NEW n \in Stored' PROVE Limited(jar[n])'
    <2>1. n \in Name /\ jar'[n] # NoCookie
      BY <1>5 DEF Stored
    <2>2. CASE n = name
      <3>1. ~gone /\ jar'[n] = Cookie(by, asked, creation)
        BY <1>1, <2>1, <2>2 DEF IInv, TypeOK
      <3>2. Limited(jar'[n])
        BY <1>3, <3>1
      <3> QED BY <3>2, <1>1 DEF Limited
    <2>3. CASE n # name
      <3>1. jar'[n] = jar[n]
        BY <1>1, <2>1, <2>3 DEF IInv, TypeOK
      <3>2. n \in Stored
        BY <2>1, <3>1 DEF Stored
      <3> QED BY <1>1, <3>1, <3>2 DEF IInv, Limited
    <2> QED BY <2>2, <2>3
  <1> QED BY <1>4, <1>5 DEF IInv

\* Whatever takes cookies out and leaves the others keeps the invariant, if it
\* takes those out that have expired.
LEMMA RemovalInv ==
  ASSUME IInv, clock' \in Nat, enabled' \in BOOLEAN,
         jar' \in [Name -> CanonicalCookie \cup {NoCookie}],
         \A name \in Stored' :
           jar'[name] = jar[name] /\ (jar[name].expiry = 0 \/ clock' < jar[name].expiry)
  PROVE  IInv'
  <1>1. TypeOK'
    BY DEF TypeOK
  <1>2. ASSUME NEW name \in Stored' PROVE Limited(jar[name])'
    <2>1. name \in Stored /\ jar'[name] = jar[name]
      BY <1>2 DEF Stored
    <2> QED BY <1>2, <2>1 DEF IInv, Limited
  <1> QED BY <1>1, <1>2 DEF IInv

LEMMA DayPassesInv == IInv /\ DayPasses => IInv'
  <1> SUFFICES ASSUME IInv, DayPasses PROVE IInv'
    OBVIOUS
  <1>1. clock' = clock + 1 /\ clock' \in Nat /\ enabled' \in BOOLEAN
    BY DEF DayPasses, IInv, TypeOK
  <1>2. jar' \in [Name -> CanonicalCookie \cup {NoCookie}]
    BY DEF DayPasses, IInv, TypeOK
  <1>3. ASSUME NEW name \in Stored'
        PROVE  /\ jar'[name] = jar[name]
               /\ jar[name].expiry = 0 \/ clock' < jar[name].expiry
    <2>1. name \in Name /\ jar'[name] # NoCookie
      BY <1>3 DEF Stored
    <2>2. jar'[name] = jar[name] /\ name \in Stored
          /\ ~Expired(jar[name].expiry, clock')
      BY <2>1 DEF DayPasses, Stored
    <2>3. jar[name].expiry \in Nat
      BY <2>2, StoredType DEF IInv, CanonicalCookie
    <2> QED BY <1>1, <2>2, <2>3 DEF Expired
  <1> QED BY <1>1, <1>2, <1>3, RemovalInv

LEMMA RestartInv == IInv /\ Restart => IInv'
  <1> SUFFICES ASSUME IInv, Restart PROVE IInv'
    OBVIOUS
  <1>1. clock' = clock /\ clock' \in Nat /\ enabled' \in BOOLEAN
    BY DEF Restart, IInv, TypeOK
  <1>2. jar' \in [Name -> CanonicalCookie \cup {NoCookie}]
    BY DEF Restart, IInv, TypeOK
  <1>3. ASSUME NEW name \in Stored'
        PROVE  /\ jar'[name] = jar[name]
               /\ jar[name].expiry = 0 \/ clock' < jar[name].expiry
    <2>1. name \in Name /\ jar'[name] # NoCookie
      BY <1>3 DEF Stored
    <2>2. jar'[name] = jar[name] /\ name \in Stored
      BY <2>1 DEF Restart, Stored
    <2> QED BY <1>1, <2>2 DEF IInv, Limited
  <1> QED BY <1>1, <1>2, <1>3, RemovalInv

LEMMA NextInv == IInv /\ [Next]_vars => IInv'
  <1> SUFFICES ASSUME IInv, [Next]_vars PROVE IInv'
    OBVIOUS
  <1>1. CASE \E name \in Name, by \in Writer,
                asked \in {0} \cup {clock + age : age \in MaxAge} :
               SetCookie(name, by, asked)
    <2> PICK name \in Name, by \in Writer,
             asked \in {0} \cup {clock + age : age \in MaxAge} :
          SetCookie(name, by, asked)
      BY <1>1
    <2>1. asked \in Nat
      BY DaysAssumption DEF IInv, TypeOK
    <2> QED BY <2>1, SetCookieInv
  <1>2. CASE DayPasses
    BY <1>2, DayPassesInv
  <1>3. CASE Restart
    BY <1>3, RestartInv
  <1>4. CASE UNCHANGED vars
    BY <1>4 DEF vars, IInv, TypeOK, Stored, Limited
  <1> QED BY <1>1, <1>2, <1>3, <1>4 DEF Next

LEMMA Invariant == Spec => []IInv
  BY InitInv, NextInv, PTL DEF Spec

\* Every stored cookie is one, with a natural expiry, after any writes, days and
\* launches (restricted_cookie_manager_whale.cc:29-39).
THEOREM TypeCorrect == Spec => []TypeOK
  <1>1. IInv => TypeOK
    BY DEF IInv
  <1> QED BY <1>1, Invariant, PTL

\* The week's limit holds of every cookie a script has written under it, for any
\* ages asked for and any number of days (:22-39).
THEOREM WeekCorrect == Spec => []GoneInAWeek
  <1>1. ASSUME IInv PROVE GoneInAWeek
    <2> SUFFICES ASSUME NEW name \in Stored
        PROVE  LET cookie == jar[name] IN
               /\ cookie.modified =>
                    clock < cookie.written + kMaxCookieExpiration \/ cookie.expiry = 0
               /\ cookie.expiry = 0 <=> cookie.asked = 0
               /\ cookie.expiry <= cookie.asked
      BY DEF GoneInAWeek
    <2>1. /\ jar[name].written \in Nat /\ jar[name].asked \in Nat
          /\ jar[name].expiry \in Nat /\ clock \in Nat
      BY <1>1, StoredType DEF IInv, TypeOK, CanonicalCookie
    <2>2. Limited(jar[name])
      BY <1>1 DEF IInv
    <2> QED BY <2>1, <2>2 DEF Limited, kMaxCookieExpiration
  <1> QED BY <1>1, Invariant, PTL

\* What the browser tests say of the ages they try holds of every age, for
\* every cookie of the store at any time (cookie_expiry_browsertest.cc:122-202).
THEOREM BrowserTestCorrect == Spec => []CookieExpirationTest
  <1>1. ASSUME IInv PROVE CookieExpirationTest
    <2> SUFFICES ASSUME NEW name \in Stored
        PROVE  /\ CheckExpiryForDocumentCookieLessThanMax(jar[name])
               /\ CheckExpiryForDocumentCookieMoreThanMax(jar[name])
               /\ CheckExpiryForCookieStoreLessThanMax(jar[name])
               /\ CheckExpiryForCookieStoreMoreThanMax(jar[name])
               /\ CheckExpiryForHttpCookiesLessThanMax(jar[name])
      BY DEF CookieExpirationTest
    <2>1. /\ jar[name].written \in Nat /\ jar[name].asked \in Nat
          /\ jar[name].expiry \in Nat /\ jar[name].creation \in Nat
      BY <1>1, StoredType DEF IInv, CanonicalCookie
    <2>2. Limited(jar[name])
      BY <1>1 DEF IInv
    <2>3. LessThanMax(jar[name]) => AsAsked(jar[name])
      BY <2>1, <2>2 DEF Limited, LessThanMax, AsAsked, kMaxCookieExpiration
    <2>4. jar[name].modified /\ ~LessThanMax(jar[name]) => SevenDays(jar[name])
      BY <2>1, <2>2 DEF Limited, LessThanMax, SevenDays, kMaxCookieExpiration
    <2>5. jar[name].by = "HTTP" => AsAsked(jar[name])
      BY <2>1, <2>2 DEF Limited, AsAsked, Script
    <2> QED BY <2>3, <2>4, <2>5
         DEF CheckExpiryForDocumentCookieLessThanMax,
             CheckExpiryForDocumentCookieMoreThanMax,
             CheckExpiryForCookieStoreLessThanMax,
             CheckExpiryForCookieStoreMoreThanMax,
             CheckExpiryForHttpCookiesLessThanMax
  <1> QED BY <1>1, Invariant, PTL
=============================================================================
