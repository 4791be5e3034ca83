------------------------- MODULE MCInboundChannels -------------------------
(***************************************************************************)
(* InboundChannels for TLC.                                                *)
(***************************************************************************)
EXTENDS InboundChannels, TLC

\* The events that have come in.
Came ==
    {e \in Events : Known(e) \/ mission[e] # "none"}
    \cup {e \in Emails : mailbox[e] # "absent"}

\* Mails come in without other events: they have nothing in common but the registry and
\* the process.  It is arrivals that this leaves out, and no step that must be taken
\* in the end.
MailsApart == Came \subseteq Emails \/ Came \cap Emails = {}
=============================================================================
