------------------------------ MODULE MCWebhook -----------------------------
EXTENDS Webhook

\* The fourth event is larger than a request and leaves no room for the three
\* before it; the ones after it are small enough to share a request.
MCSize == <<3, 3, 3, 8, 1, 1>>
=============================================================================
