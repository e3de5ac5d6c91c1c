-------------------------------- MODULE Rules --------------------------------
(* Where a visitor is sent: the redirect rules of a link, by device and by
   country, over its default destination.  A User-Agent is the set of the words
   looked for that it contains. *)

CONSTANTS
  URLs,          \* destinations; none of them is empty
  NoURL          \* the empty string

ASSUME NoURLIsNone == NoURL \notin URLs

Devices == {"tablet", "mobile", "desktop"}

(* A rule may hold an empty URL: nothing validates them. *)
RuleMap(K) == UNION {[D -> URLs \cup {NoURL}] : D \in SUBSET K}

(* ParseDeviceType: "ipad" alone, without one of the mobile words, is a desktop. *)
ParseDeviceType(ua) ==
  IF ua \cap {"mobile", "android", "iphone"} = {} THEN "desktop"
  ELSE IF ua \cap {"ipad", "tablet"} = {} THEN "mobile" ELSE "tablet"

(* DummyResolver.Lookup *)
Lookup(ip) == "US"

(* RedirectRules.Evaluate: device before country; the first rule that is there
   decides, even one with an empty URL. *)
Evaluate(rules, device, country) ==
  IF device \in DOMAIN rules.device THEN rules.device[device]
  ELSE IF country \in DOMAIN rules.geo THEN rules.geo[country]
  ELSE NoURL

(* Variant: the result of the rules taken as it is. *)
FinalURLOfRules(link, ua, ip) ==
  Evaluate(link.rules, ParseDeviceType(ua), Lookup(ip))

(* Handle: an empty result means the default destination. *)
FinalURL(link, ua, ip) ==
  LET ruleURL == Evaluate(link.rules, ParseDeviceType(ua), Lookup(ip)) IN
  IF ruleURL = NoURL THEN link.dest ELSE ruleURL
=============================================================================
