SPECIFICATION FairSpec
CONSTANTS
    Window = 2
    MaxChunks = 2
    MaxReply = 2
    MaxEvents = 3
    MaxTxn = 2
    MaxFaults = 2
    FaultKinds <- TransportFaults
    Requestable <- DataOnly
    CallerContinues = TRUE
INVARIANTS TypeOK NoMutualWait RecordIsTrue PartialPoisons DropSettles
PROPERTIES PoisonSilences AnswersItsOwn EventsArrive
