-------------------------------- MODULE Config --------------------------------
(***************************************************************************)
(* The configuration the server accepts (config/config.go, Load): which     *)
(* environments start it, and what the accepted ones make of the session    *)
(* cookie (auth/session.go), of the security headers (api/router.go).       *)
(*                                                                           *)
(* An environment is a record of what the operator wrote: a name, a number,  *)
(* or the class of a text that the code tells apart.                         *)
(***************************************************************************)
EXTENDS Integers

\* A list of frame ancestors is made of origins of these classes; "other" is
\* what the regular expression refuses, "star" the global joker.
Origins == {"self", "https", "httpsWildcard", "localhost", "star", "other"}

Environment ==
  [app : {"unset", "production", "development", "other"},
   base : {"unset", "http", "https", "other"},
   required : BOOLEAN,        \* DATABASE_URL, GOOGLE_CLIENT_ID and _SECRET
   salt : Nat,                \* the length of IP_HASH_SALT
   secure : {"unset", "true", "false", "other"},
   proxy : {"unset", "true", "false", "other"},
   emails : BOOLEAN,          \* BOOTSTRAP_ADMIN_EMAILS can be read
   ancestors : SUBSET Origins,
   numbers : BOOLEAN,         \* what is written in the next two is an integer
   hours : Int,               \* SESSION_TTL_HOURS, 168 when it is empty
   image : Int]               \* MAX_IMAGE_BYTES, 2 << 20 when it is empty

\* env and envBool: an empty variable takes its default.
AppEnv(e) == IF e.app = "unset" THEN "production" ELSE e.app
CookieSecure(e) == e.secure \in {"unset", "true"}

\* config.go:200-215. Digipad by default; the joker is refused.
ParseFrameAncestors(e) == IF e.ancestors = {} THEN {"https", "httpsWildcard"} ELSE e.ancestors

AncestorsAccepted(e) == e.ancestors \cap {"star", "other"} = {}

\* config.go:139-149.
CookieAcceptedAlone(e) ==
  AppEnv(e) = "production" => CookieSecure(e)

CookieAccepted(e) ==
  /\ AppEnv(e) = "production" => CookieSecure(e)
  /\ CookieSecure(e) => e.base = "https"

ImageAccepted(e) == e.image \in 16 * 1024..16 * 1024 * 1024

\* Load, from its first check to its last: any one of them stops the start.
Accepted(e) ==
  /\ AppEnv(e) \in {"production", "development"}
  /\ e.base \in {"http", "https"}
  /\ e.required
  /\ e.salt >= 16
  /\ "other" \notin {e.secure, e.proxy}
  /\ CookieAccepted(e)
  /\ e.emails
  /\ AncestorsAccepted(e)
  /\ e.numbers
  /\ e.hours \in 1..24 * 90
  /\ ImageAccepted(e)

\* The cookie of setCookie: its name, its Secure attribute and its Max-Age.
Cookie(e) ==
  [hostPrefix |-> CookieSecure(e), secure |-> CookieSecure(e), maxAge |-> e.hours * 3600]

\* The headers of the router: HSTS, and who may frame the embedded page.
Headers(e) == [hsts |-> CookieSecure(e), ancestors |-> ParseFrameAncestors(e)]

-----------------------------------------------------------------------------
\* A browser keeps the cookie: Max-Age is in the future, __Host- comes with
\* Secure, and Secure is honoured on a site in https only. Otherwise every
\* login succeeds and leaves its visitor logged out.
CookieKept(e) ==
  /\ Cookie(e).maxAge > 0
  /\ Cookie(e).hostPrefix => Cookie(e).secure
  /\ Cookie(e).secure => e.base = "https"

\* In production the cookie never travels in the clear, the site asks for
\* https for good and no site at large can frame the wheel.
ProductionSafe(e) ==
  AppEnv(e) = "production" =>
    Cookie(e).secure /\ Headers(e).hsts /\ "star" \notin Headers(e).ancestors
=============================================================================
