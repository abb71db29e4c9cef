\* RpcClient: two calls, each with a sequence number.  RpcServer: two
\* requests whose methods race their timeout.  Crossroad: a car from each
\* direction.  Channel: two writers and a reader.
CONSTANTS
  k1 = k1
  k2 = k2
  NoCall = NoCall
  Calls = {k1, k2}
  MaxSeq = 2
  Requests = {r1, r2}
  HandleTimeout = TRUE
  Nobody = Nobody
SPECIFICATION RpcSpec
INVARIANTS
  DoneOnce DoneNeverBlocks OwnReply
PROPERTIES
  LateAnswerDropped CallReturns
  ServerEveryRequestAnswered CrossingJamResolved CloseWakesAll
\* All stop: the client when its calls have returned and the receiver has
\* exited, the server when the connection is closed or its handlers wait, the
\* crossing when main has joined the cars, the channel when it is closed or
\* nobody is left to write or read.
CHECK_DEADLOCK FALSE
