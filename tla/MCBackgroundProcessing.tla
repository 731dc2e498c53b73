------------------------- MODULE MCBackgroundProcessing -------------------------
(***************************************************************************)
(* Instance of BackgroundProcessing for TLC: one event for each way        *)
(* through the handler.                                                    *)
(***************************************************************************)
EXTENDS BackgroundProcessing

Email == [parses |-> TRUE, config |-> "ok", onReceived |-> TRUE, delay |-> FALSE,
          type |-> "email", bucket |-> TRUE, onComplete |-> TRUE]
DelayedEmail == [Email EXCEPT !.delay = TRUE]
Incomplete == [Email EXCEPT !.onComplete = FALSE]
\* The copy on the delay queue is asked for before the bucket is missed.
NoBucket == [DelayedEmail EXCEPT !.bucket = FALSE]
NoReceipt == [Email EXCEPT !.onReceived = FALSE]
Push == [DelayedEmail EXCEPT !.type = "push"]
Unknown == [Email EXCEPT !.type = "other"]
Unconfigured == [Email EXCEPT !.config = "missing"]
EmptyConfig == [Email EXCEPT !.config = "empty"]
Unparsable == [Email EXCEPT !.parses = FALSE]

AllEvents == {DelayedEmail, Incomplete, NoBucket, NoReceipt, Push, Unknown,
              Unconfigured, EmptyConfig, Unparsable}

\* Nothing but well configured emails.
EmailEvents == {Email}
===============================================================================
