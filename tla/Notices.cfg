SPECIFICATION NoticeSpec
CONSTANTS
    k1 = k1
    k2 = k2
    Publisher = pub
    Reconciler = rec
    Creators = {c1}
    Updaters = {c1, pub, rec}
    Servers = {s1}
    IDs = {i1}
    Kinds = {k1, k2}
    InbandKinds = {}
    Works <- Chain
    Faults = {"put_lost_ack", "get_error", "put_error", "publish_lost_ack", "publish_error", "following_error", "api_crash", "controller_dies", "controller_silent", "coalesce", "refresh", "history_error", "delete_error", "orchestrator_crash", "notice_error", "notice_timeout"}
    MaxFaults = 2
    PromptPublisher = TRUE
    SlackEnabled = TRUE
CHECK_DEADLOCK FALSE
INVARIANTS AnnouncedAsRecorded
PROPERTIES OutcomeStands
