CONSTANTS
    CLI_LINE_BUF_MAX = 2
    CLI_HIST_MAX = 2
    UART_RX_BUF_LENGTH = 1
    Printable <- ArrowCharacters
SPECIFICATION Spec
INVARIANTS
    TypeOK
    ScreenShowsLine
    DeafByLateOverrunOnly
PROPERTIES
    EditorSpec
