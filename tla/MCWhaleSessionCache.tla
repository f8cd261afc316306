-------------------------- MODULE MCWhaleSessionCache --------------------------
(***************************************************************************)
(* Two contexts of tabs of one site: its page and an iframe of another     *)
(* site in it, workers of that iframe and of one at an address, a worklet, *)
(* a page without an origin of its own, a frame of an extension.           *)
(***************************************************************************)
EXTENDS WhaleSessionCache, TLC

CONSTANTS c1, c2

MCContext == {c1, c2}
MCSymmetry == Permutations(MCContext)

MCDomain == {"a.com", "b.com"}
MCGarbage == {"g"}

At(domain) == [protocol |-> "https", opaque |-> FALSE, domain |-> domain]
Opaque == [protocol |-> "https", opaque |-> TRUE, domain |-> NoDomain]
Extension == [protocol |-> "chrome-extension", opaque |-> FALSE, domain |-> NoDomain]
Window(own, top) ==
    [window |-> TRUE, worklet |-> FALSE, own |-> own, top |-> top, site |-> "a.com"]
Worker(own) == [Window(own, At("a.com")) EXCEPT !.window = FALSE]
Worklet(own) == [Worker(own) EXCEPT !.worklet = TRUE]

AllKinds ==
    { Window(At("a.com"), At("a.com")), Window(At("b.com"), At("a.com")),
      Worker(At("b.com")), Worker(At(NoDomain)), Worklet(At("b.com")),
      Window(Opaque, Opaque), Window(Extension, At("a.com")) }

Number(string) ==
    CHOOSE n \in 1 .. 10 :
      <<"a.com", "b.com", "g", "kNone", "kWindowInnerWidth",
        "kPointerScreenX", "kPointerScreenY",
        "kWindowInnerHeight", "kWindowScreenX", "kWindowScreenY">>[n] = string
MCRandom(key, farble_key, i) == (Number(key) * 7 + Number(farble_key) * 5 + i * 11) % 31
MCLetters(key) == [i \in 1 .. 2 |-> (Number(key) * (i + 4)) % 64]

MCMemory == {1, 12}
MCProcessors == {1, 6}
MCGLValue ==
    [pname \in {GLParameter[1], GLParameter[3], "GL_MAX_SAMPLES"} |->
       IF pname = GLParameter[1] THEN 0 ELSE 16]

MCWindowRange == <<20, 30>>
MCWindowKey == {"kWindowInnerWidth"}
==============================================================================
