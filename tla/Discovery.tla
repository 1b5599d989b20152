------------------------------ MODULE Discovery ------------------------------
(***************************************************************************)
(* How a client that knows the URL of the MCP endpoint and nothing else    *)
(* comes by a token that the endpoint accepts: the challenge, the RFC 9728 *)
(* metadata documents and the canonical resource URL that ties them to the *)
(* verifier (app/mcp_auth.py, app/mcp_server.py).                          *)
(*                                                                         *)
(* A URL is its origin, its path as segments, and whether a slash ends it. *)
(* The client follows RFC 9728, the identity provider issues a token for   *)
(* the resource and the scopes asked of it; both are external.             *)
(***************************************************************************)
EXTENDS Sequences

CONSTANTS
  Configured,       \* values of MCP_RESOURCE_URL: URLs or Unset
  Unset,            \* an empty setting
  Local             \* http://localhost:<port>

ASSUME ConfiguredAssumption ==
  Configured \ {Unset} \subseteq [origin : STRING, path : Seq(STRING), slash : BOOLEAN]

VARIABLES
  settings,         \* the deployment, see DiscoveryInit
  step,             \* where the client is
  url, metadata, bearer     \* what it has been given

discoveryVars == <<settings, step, url, metadata, bearer>>

URL(origin, path, ends) == [origin |-> origin, path |-> path, slash |-> ends]
Nothing == << >>
WellKnown == <<"oauth-protected-resource">>

(* `mounted` under the API, or standalone; `override` is an audience other *)
(* than the resource; `scoped`, that scopes are required.                  *)
DiscoveryInit ==
  /\ settings \in [resource : Configured, mounted : BOOLEAN, mode : {"off", "jwt"},
                   override : BOOLEAN, scoped : BOOLEAN]
  /\ step = "call"
  /\ url = Nothing /\ metadata = Nothing /\ bearer = Nothing

CanonicalResourceUrl(u) ==
  LET base == IF u = Unset THEN URL(Local, << >>, FALSE) ELSE [u EXCEPT !.slash = FALSE]
  IN IF base.path = << >> THEN [base EXCEPT !.path = <<"mcp">>] ELSE base

Resource == CanonicalResourceUrl(settings.resource)
Audience == IF settings.override THEN URL("other", << >>, FALSE) ELSE Resource

(* Slip: the document is served at the bare path alone. *)
BarePathOnly(u) == {WellKnown}

WellKnownPaths(u) == {WellKnown} \cup (IF u.path = << >> THEN {} ELSE {WellKnown \o u.path})

(* A host application gets the documents as routes of its own, in mode     *)
(* "jwt"; a standalone middleware always answers them.                     *)
Served(path) ==
  path \in WellKnownPaths(Resource) /\ (settings.mounted => settings.mode = "jwt")

Metadata == [resource |-> Resource, scoped |-> settings.scoped]
ChallengeUrl == URL(Resource.origin, WellKnown \o Resource.path, FALSE)

(* What the middleware makes of a call with bearer b. *)
Accepts(b) ==
  IF settings.mode = "off" THEN ~settings.scoped
  ELSE b # Nothing /\ b.aud = Audience /\ (settings.scoped => b.scoped)

-----------------------------------------------------------------------------
Call ==
  /\ step = "call"
  /\ \/ Accepts(bearer) /\ step' = "served" /\ UNCHANGED url
     \/ ~Accepts(bearer) /\ bearer = Nothing /\ step' = "challenged" /\ url' = ChallengeUrl
     \/ ~Accepts(bearer) /\ bearer # Nothing /\ step' = "refused" /\ UNCHANGED url
  /\ UNCHANGED <<settings, metadata, bearer>>

Told == metadata' = Metadata /\ step' = "told"

Discover ==
  /\ step = "challenged"
  /\ \/ Served(url.path) /\ Told
     \/ ~Served(url.path) /\ step' = "lost" /\ UNCHANGED metadata
  /\ UNCHANGED <<settings, url, bearer>>

(* Some clients try the bare path before they call. *)
Probe ==
  /\ step = "call" /\ bearer = Nothing /\ Served(WellKnown)
  /\ Told
  /\ UNCHANGED <<settings, url, bearer>>

(* The identity provider. *)
Authorize ==
  /\ step = "told"
  /\ bearer' = [aud |-> metadata.resource, scoped |-> metadata.scoped]
  /\ step' = "call"
  /\ UNCHANGED <<settings, url, metadata>>

DiscoveryNext == Call \/ Discover \/ Probe \/ Authorize

DiscoverySpec == DiscoveryInit /\ [][DiscoveryNext]_discoveryVars

-----------------------------------------------------------------------------
(* However the resource URL is written, and wherever the transport runs,   *)
(* what the challenge and the metadata say gets the client a token that is *)
(* accepted, unless the audience is configured apart from the resource;    *)
(* mode "off" refuses nobody but where scopes are required, which no token *)
(* then helps with (mcp_auth.py:60-85, mcp_server.py:52-60, 282-289).      *)
DiscoveryLeadsToAcceptance ==
  step \in {"lost", "refused"} =>
    \/ settings.mode = "jwt" /\ settings.override /\ step = "refused"
    \/ settings.mode = "off" /\ settings.scoped
=============================================================================
