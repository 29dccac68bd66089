CONSTANTS
  MessageNR = 8
  SignalBatch = 4
  Inline = {TRUE, FALSE}
  MsgCnt = 9
SPECIFICATION SendFairSpec
INVARIANTS
  SentAsCopied
  SendsAccepted
  CompletionsPolled
PROPERTIES
  PollReturns
