SPECIFICATION Spec
CONSTANTS
    Typable <- MCTypable
    HelpWord <- MCHelp
    PluginsWord <- MCPlugins
    MsgWord <- MCMsg
    Sender <- MCSender
    Peer <- MCPeer
    Online <- MCOnline
    Names <- MCCredentials
    Passwords <- MCCredentials
    CommandWords = 4
    ChatRoom = 10
    ClientWords = 5
    MaxTyped = 6
INVARIANTS
    HelpReached
CHECK_DEADLOCK FALSE
