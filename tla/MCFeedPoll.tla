----------------------------- MODULE MCFeedPoll -----------------------------
(* Values of FeedPoll's constants that a .cfg cannot write. *)
EXTENDS FeedPoll, TLC

CONSTANTS a, b, r1

\* What an earlier boot subscribed to.
OneImported == <<a>>
TwoImported == <<a, b>>

AllReplies == {"notModified", "retryAfter", "body", "failed"}
=============================================================================
