SPECIFICATION Spec
CONSTANTS
  a = a  b = b  c = c  p = p  q = q x = x d1 = d1 
  Keys = {p, q, x}
  Own = {q, x}
  Sending = {q}
  Readable = {p}
  Consent = {p}
  Conns = {a, b, c}
  Dest <- MCDest
  Uplinks = {a, b}
  Downlinks = {a, c}
  CrossLink = {a, b}
  RelayMQTT = {a}
  RelayHops <- MCRelayHops
  IgnoreConsent = {}
  Cap = 2
  HistTTL = 1
  OriginTTL = 1
  MaxHop = 2
  Hops = {2}
  Radio = Radio
  None = None
INVARIANTS AirOnlyByConsent OncePerBroker
PROPERTIES NewsOnlyWhenForgotten CrossOnlyByConsent
