SPECIFICATION WsSpec
CONSTANTS
    Asked = {q1, q2}
    Streamed = {q1, q2}
    MaxSockets = 2
PROPERTIES ConfigPushed
CHECK_DEADLOCK FALSE
