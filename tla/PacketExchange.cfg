SPECIFICATION SpecExchange
CONSTANTS
  WARN_LIMIT = 3
  Distances = {}
  Temperatures = {}
  Humidities = {}
  SentSamples <- PlainSamples
  Damaged <- DamagedBytes
  Clock <- OneTime
  SendOutcomes = {TRUE, FALSE}
  FAULT_GAP = 2
  MAX_FRAMES = 5
VIEW WhatMatters
INVARIANTS
  ExchangeRecovers
  BufferHoldsPrefix
  Resynchronises
  AnswerParses
  ConfirmedIffRepeated
PROPERTIES
  AnswerIsForThisSample
  AcceptedIsCurrent
  OnlyAcceptedSamplesCount
