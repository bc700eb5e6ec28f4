------------------------------- MODULE Pictures -------------------------------
(***************************************************************************)
(* One picture of a world draft, made anew or brought along by its owner:  *)
(* _generate_image_with_fallback of services/world_creator_agent_v2.py,    *)
(* services/image_regeneration.py, services/image_storage.py (the OSS      *)
(* storage), and the image endpoints of api/workshop.py.                   *)
(*                                                                         *)
(* A generator may answer with bytes, with an address of its own, with an  *)
(* address in our storage (which it put the picture under itself), with    *)
(* the placeholder or with nothing.  Bytes are uploaded under the key of   *)
(* the request, several times if need be, never more than Cap at once.     *)
(*                                                                         *)
(* A picture is [by, n], the n-th one that is made for a request; the      *)
(* address of the key of a request is the request.  Generation of a whole  *)
(* world, which stores placeholders where this refuses, is WorldGeneration.*)
(***************************************************************************)
EXTENDS Integers, Sequences, FiniteSets

CONSTANTS
    None,
    Gateway,  \* the address of a picture that the generator has put there itself
    Old,                            \* the address every picture of the draft has at first
    Requests,
    Targets,                        \* of the draft: "cover", "hero", an avatar
    Absent,                         \* an avatar of somebody who is not in it
    Attempts,                       \* calls of the generator (3 in the code)
    Uploads,                        \* attempts at one upload (2)
    Cap                             \* uploads at once (2)

VARIABLES
    draft,   \* the address of each target
    req,     \* the requests
    stored   \* per key the picture that is under it

vars == <<draft, req, stored>>

Fresh == [at |-> "none", target |-> None, base |-> None, tiers |-> 0, tier |-> 0, attempt |-> 0,
          tries |-> 0, url |-> None]

Init ==
    /\ draft = [t \in Targets |-> Old]
    /\ req = [r \in Requests |-> Fresh]
    /\ stored = [r \in Requests |-> None]

Become(r, new) == req' = [req EXCEPT ![r] = new]

\* The prompt of the creator is the only tier; else a world after a known work has a second
\* one without its names.  The payload is read here and written back at the end.
Regenerate(r, target, tiers) ==
    /\ req[r].at = "none"
    /\ Become(r, IF target \in Targets
                 THEN [Fresh EXCEPT !.at = "paint", !.target = target, !.base = draft, !.tiers = tiers, !.tier = 1, !.attempt = 1]
                 ELSE [Fresh EXCEPT !.at = "failed"])
    /\ UNCHANGED <<draft, stored>>

\* The owner's own picture: what is of another type, empty or too large is refused.
Bring(r, target, fits) ==
    /\ req[r].at = "none"
    /\ Become(r, IF fits THEN [Fresh EXCEPT !.at = "bringing", !.target = target, !.tries = 1]
                 ELSE [Fresh EXCEPT !.at = "failed"])
    /\ UNCHANGED <<draft, stored>>

------------------------------------------------------------------------------
(* The generator *)

\* Back to the generator with the tier given, or no more attempts.
Again(r, tier) ==
    IF req[r].attempt < Attempts
    THEN [req[r] EXCEPT !.at = "paint", !.tier = tier, !.attempt = @ + 1]
    ELSE [req[r] EXCEPT !.at = "failed"]
Give(r, url) == [req[r] EXCEPT !.at = "painted", !.url = url]
Fail(r) == [req[r] EXCEPT !.at = "failed"]
NextTier(r) == req[r].tier + 1
HasNext(r) == req[r].tier < req[r].tiers

\* Nothing came, which is a moderation block: the next tier, or the same one again.
Empty(r) == Again(r, IF HasNext(r) THEN NextTier(r) ELSE req[r].tier)
\* The generator has given up.
GivenUp(r) == IF HasNext(r) THEN Again(r, NextTier(r)) ELSE Fail(r)
\* A 429, a 5xx, the network, a timeout.
Busy(r) == Again(r, req[r].tier)
\* A content policy in words: a 400 that the next tier may pass.
Policy(r) == IF HasNext(r) THEN Again(r, NextTier(r)) ELSE Fail(r)

Answers == {"bytes", "foreign", "ours", "placeholder", "empty", "busy", "policy", "refused"}

Painted(r, answer) ==
    CASE answer = "bytes" -> [req[r] EXCEPT !.at = "upload", !.tries = 1]
      [] answer = "foreign" -> [req[r] EXCEPT !.at = "fetch"]
      [] answer = "ours" -> Give(r, Gateway)
      [] answer = "placeholder" -> GivenUp(r)
      [] answer = "empty" -> Empty(r)
      [] answer = "busy" -> Busy(r)
      [] answer = "policy" -> Policy(r)
      [] OTHER -> Fail(r)

Paint(r, answer) ==
    /\ req[r].at = "paint"
    /\ Become(r, Painted(r, answer))
    /\ UNCHANGED <<draft, stored>>

\* save_from_url: a download that fails is an error like one of the generator.
Fetch(r, outcome) ==
    /\ req[r].at = "fetch"
    /\ Become(r, CASE outcome = "ok" -> [req[r] EXCEPT !.at = "upload", !.tries = 1]
                   [] outcome = "busy" -> Busy(r)
                   [] OTHER -> Fail(r))
    /\ UNCHANGED <<draft, stored>>

------------------------------------------------------------------------------
(* The storage *)

\* Who has a place at the semaphore, and keeps it between attempts.
Uploading(r) == req[r].at \in {"put", "putting"}
Brought(r) == req[r].at \in {"bringing", "putting"}

Queue(r) ==
    /\ req[r].at \in {"upload", "bringing"}
    /\ Cardinality({s \in Requests : Uploading(s)}) < Cap
    /\ Become(r, [req[r] EXCEPT !.at = IF @ = "upload" THEN "put" ELSE "putting"])
    /\ UNCHANGED <<draft, stored>>

Delivered(r) == IF Brought(r) THEN [req[r] EXCEPT !.at = "given", !.url = r] ELSE Give(r, r)

\* Mutant: when the attempts are over, the address is handed out like any other.
PutAnyway(r, outcome) ==
    CASE outcome = "lost" /\ req[r].tries < Uploads -> [req[r] EXCEPT !.tries = @ + 1]
      [] outcome = "broken" /\ ~Brought(r) -> Busy(r)
      [] OTHER -> Delivered(r)

\* What is left of a request after an attempt: after the last one it fails, and is not painted
\* anew.  A connection that breaks the protocol is no error the storage knows: it is one of the
\* generator's, and another picture is painted.
Put(r, outcome) ==
    CASE outcome = "ok" -> Delivered(r)
      [] outcome = "lost" /\ req[r].tries < Uploads -> [req[r] EXCEPT !.tries = @ + 1]
      [] outcome = "broken" /\ ~Brought(r) -> Busy(r)
      [] OTHER -> Fail(r)

\* "lost" (a timeout, the network, 408, 409, 425, 429, 5xx) may be of a picture that arrived.
Upload(r, outcome, arrived) ==
    /\ Uploading(r)
    /\ outcome = "ok" => arrived
    /\ outcome = "refused" => ~arrived
    /\ Become(r, Put(r, outcome))
    /\ stored' = [stored EXCEPT ![r] = IF arrived THEN [by |-> r, n |-> req[r].attempt] ELSE @]
    /\ UNCHANGED draft

------------------------------------------------------------------------------
(* Back in the draft *)

\* _persist_world_draft_image_url writes the payload that the request has read.
Persist(r) ==
    /\ req[r].at = "painted"
    /\ draft' = [req[r].base EXCEPT ![req[r].target] = req[r].url]
    /\ Become(r, [req[r] EXCEPT !.at = "done"])
    /\ UNCHANGED stored

\* The client puts the address it was given into the draft.
Place(r) ==
    /\ req[r].at = "given"
    /\ draft' = [draft EXCEPT ![req[r].target] = req[r].url]
    /\ Become(r, [req[r] EXCEPT !.at = "done"])
    /\ UNCHANGED stored

Next == \E r \in Requests :
    \/ \E target \in Targets \union {Absent}, tiers \in 1..2 : Regenerate(r, target, tiers)
    \/ \E target \in Targets, fits \in BOOLEAN : Bring(r, target, fits)
    \/ \E answer \in Answers : Paint(r, answer)
    \/ \E outcome \in {"ok", "busy", "refused"} : Fetch(r, outcome)
    \/ Queue(r)
    \/ \E outcome \in {"ok", "lost", "refused", "broken"}, arrived \in BOOLEAN : Upload(r, outcome, arrived)
    \/ Persist(r)
    \/ Place(r)

Spec == Init /\ [][Next]_vars

------------------------------------------------------------------------------
(* Properties *)

\* Every address in a draft is one of a picture that is in our storage, or the one it had: it
\* never is the placeholder, the generator's own, or a key under which nothing arrived
\* (image_storage.py; ImageRegenerationError: the caller keeps the old image in place).
PictureIsThere ==
    \A t \in Targets : draft[t] \in {Old, Gateway} \/ stored[draft[t]] # None

\* What is under a key that a draft shows is the picture that was made last for it, although
\* lost uploads are repeated and pictures painted anew (world_creator_agent_v2.py).
LatestIsShown ==
    \A t \in Targets : draft[t] \in Requests => stored[draft[t]].n = req[draft[t]].attempt
==============================================================================
