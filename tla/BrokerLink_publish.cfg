\* The TTL runs out, or a sender reconnects, while another sender publishes.
CONSTANTS
  Senders = {capture, metadata}
  TtlThreads = {ttl}
  Handles = {c1, c2, c3}
  First = c1
  Null = Null
  Nobody = Nobody
  RETRY_NBR = 2
  MaxChanges = 2
  MaxReloads = 1
SPECIFICATION Spec
INVARIANT PublishOnLive
