----------------------------- MODULE MCStreamer -----------------------------
(***************************************************************************)
(* Values for the constants of Streamer that a TLC configuration cannot    *)
(* write down itself.                                                      *)
(***************************************************************************)
EXTENDS Playback, TLC

CONSTANTS
    Linked,     \* streams which come as an Airable link with an alternative
    Cached,     \* streams whose links are resolved at once by the list broker
    Refused,    \* streams whose links the list broker cannot be asked about
    Empty,      \* streams without any URL
    Unplayable  \* streams whose first URL cannot be opened

\* All other streams have one URL which can be passed to GStreamer as it is.
UrlsOfStreams ==
    [i \in Streams |-> CASE i \in Linked -> <<"LINK", "DIRECT">>
                         [] i \in Empty  -> <<>>
                         [] OTHER        -> <<"DIRECT">>]

BrokerOfStreams ==
    [i \in Streams |-> CASE i \in Cached  -> "AT_ONCE"
                         [] i \in Refused -> "REFUSES"
                         [] OTHER         -> "COOKIE"]

\* GStreamer refuses to open these at once.
UnopenableUrls == {<<i, 1>> : i \in Unplayable}

\* Values of keep_first_n_entries of method Push.
JustAppend == {-1}
AnyKeep == {-2, -1, 0, 1}

NoEvents == {}
VideoStreams == {VideoDecoderFound}
PrerollAndClock == {AsyncDone, ClockLost}

Special == Linked \cup Empty \cup Unplayable \cup Cached \cup Refused

\* Local streams without any peculiarity may be exchanged for each other.
StreamSymmetry == Permutations(Streams \ (Special \cup Network))
=============================================================================
