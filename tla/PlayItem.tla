------------------------------ MODULE PlayItem ------------------------------
(***************************************************************************)
(* Class PlayQueue::Item (playitem.hh, playitem.cc) with its list of URLs  *)
(* (url_collection.hh, url_collection.cc): how far an item is on its way   *)
(* to being played, which of its alternative URLs is selected, and whether *)
(* an Airable link is being resolved for it.                               *)
(*                                                                         *)
(* The operators take the record of the mutable members and, where the URL *)
(* list matters, the stream ID.                                            *)
(***************************************************************************)
EXTENDS Naturals, Sequences

CONSTANTS
    Streams,    \* stream IDs
    Urls,       \* for each stream, the sequence of kinds of its URLs
    Network     \* streams which are not local files

ASSUME StreamsAssumption == 0 \notin Streams /\ Network \subseteq Streams
ASSUME UrlsAssumption == Urls \in [Streams -> Seq({"DIRECT", "LINK"})]

ItemStates ==
    {"IN_QUEUE", "ABOUT_TO_ACTIVATE", "ACTIVE_HALF_PLAYING", "ACTIVE_NOW_PLAYING",
     "ABOUT_TO_PHASE_OUT", "ABOUT_TO_BE_SKIPPED"}

(***************************************************************************)
(*   state     state_;                                                     *)
(*   failed    fail_state_ is FAILURE_DETECTED;                            *)
(*   prefailed prefail_reason_ is set;                                     *)
(*   selected  selected_url_, counted from 1;                              *)
(*   resolved  the Airable links whose direct_url_ is not empty;           *)
(*   resolving resolver_ is not nullptr;                                   *)
(*   restart   pipeline_start_required_after_resolve_;                     *)
(*   realtime  enable_realtime_processing_, which is set for all items.    *)
(***************************************************************************)
NewItem ==
    [state |-> "IN_QUEUE", failed |-> FALSE, prefailed |-> FALSE, selected |-> 1,
     resolved |-> {}, resolving |-> FALSE, restart |-> FALSE, realtime |-> TRUE]

ItemType ==
    [state : ItemStates, failed : BOOLEAN, prefailed : BOOLEAN, selected : Nat \ {0},
     resolved : SUBSET Nat, resolving : BOOLEAN, restart : BOOLEAN,
     realtime : BOOLEAN]

NoUrls(i) == Urls[i] = <<>>

IsLink(i, n) == Urls[i][n] = "LINK"

UrlState(i, it) ==
    IF NoUrls(i) \/ it.resolving
    THEN IF NoUrls(i) THEN "BROKEN" ELSE "RESOLVING_LINK"
    ELSE CASE ~IsLink(i, it.selected) -> "KNOWN_DIRECT_URL"
           [] IsLink(i, it.selected) /\ it.selected \in it.resolved -> "KNOWN_RESOLVED_URL"
           [] OTHER -> "KNOWN_AIRABLE_LINK"

\* get_url_for_playing(): <<0, 0>> is the empty string.
UrlForPlaying(i, it) ==
    IF NoUrls(i) \/ (IsLink(i, it.selected) /\ it.selected \notin it.resolved)
    THEN <<0, 0>>
    ELSE <<i, it.selected>>

(***************************************************************************)
(* select_next_url(): an expired URL that came from an Airable link is     *)
(* cleared and remains selected, so that the link is resolved once more.   *)
(* Otherwise, advance to the next URL.                                     *)
(***************************************************************************)
UrlExpired(i, it, late) == IsLink(i, it.selected) /\ it.selected \in it.resolved /\ late

HasNextUrl(i, it, late) == UrlExpired(i, it, late) \/ it.selected < Len(Urls[i])

SelectNextUrl(i, it, late) ==
    IF UrlExpired(i, it, late)
    THEN [it EXCEPT !.resolved = @ \ {it.selected}]
    ELSE [it EXCEPT !.selected = @ + 1]

\* pipeline_start_required_when_ready()
MarkForRestart(it) == [it EXCEPT !.restart = TRUE]

StartRequired(i, it) ==
    CASE UrlState(i, it) \in {"KNOWN_DIRECT_URL", "KNOWN_RESOLVED_URL"} -> "START_NOW"
      [] UrlState(i, it) = "RESOLVING_LINK" -> "WHEN_READY"
      [] OTHER -> "NOT_REQUIRED"

DisableRealtime(it) == [it EXCEPT !.realtime = FALSE]

\* resolver_begin(), resolver_finish() with and without a URI.
ResolverBegin(it) == [it EXCEPT !.resolving = TRUE]

ResolverResolved(it) == [it EXCEPT !.resolving = FALSE, !.resolved = @ \cup {it.selected}]

\* Mutant: the call which has failed remains the item's resolver.
ResolverFailedKept(it) == [it EXCEPT !.resolved = @ \ {it.selected}]

ResolverFailed(it) == [it EXCEPT !.resolving = FALSE, !.resolved = @ \ {it.selected}]
=============================================================================
